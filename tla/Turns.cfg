SPECIFICATION Spec
CONSTANTS
  i1 = i1  i2 = i2  s1 = s1  s2 = s2  s3 = s3  w1 = w1  w2 = w2
  p1 = p1  p2 = p2  d1 = d1  d2 = d2  c1 = c1  c2 = c2
  None = None
  Issue = {i1}
  Session = {s1, s2, s3}
  Worker = {w1, w2}
  Project = {p1}
  Storage = {d1, d2}
  Commit = {c1, c2}
  Kinds = {"copy"}
  Parent <- NoParent
  Offers <- MovingOffers
  Beats <- NoBeats
  Report <- TurnReports
  AutoDeploy = FALSE
SYMMETRY Symmetric
INVARIANTS TypeOK ReservationExact GenerationCountsTurns LinearHistory CancelHonoured
  PublishedSourceIsCanonical
PROPERTIES StorageIsSticky RecoveryIsTerminal FinalIsFinal ImplementsLease
