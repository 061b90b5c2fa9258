\* Test environment, its resources and the pull request, each alone.
SPECIFICATION Spec
CONSTANTS
  b1 = b1 b2 = b2 w1 = w1 w2 = w2
  MaxSteps = 1
  NoBranch = NoBranch
INVARIANTS DeliverySound
PROPERTIES DeliverySettles
CHECK_DEADLOCK FALSE
