----------------------------- MODULE TestEditors -----------------------------
(***************************************************************************)
(* The pages that edit a test case and a test plan (TestCaseDetailPage and *)
(* TestPlanDetailPage of packages/views/src/tests-page.tsx), while a       *)
(* second user edits the same case and plan.  Each page shows what it last *)
(* read, lets the user change a draft and saves the whole draft; it reads  *)
(* again at any time (focus, invalidation).                                *)
(*                                                                         *)
(* A text is the number of the edit that wrote it.  "dependencies" and     *)
(* "notes" stand for the fields of a case and of a plan that the forms do  *)
(* not have: TRUE while the record still has what was stored there.        *)
(***************************************************************************)
EXTENDS Naturals, Sequences, FiniteSets, SequencesExt

CONSTANTS
  Cases,      \* the cases a plan can have
  Page,       \* the pages the user has open
  MaxEdits,   \* bound: texts written
  MaxSaves,   \* bound: requests sent
  MaxRuns     \* bound: results the case gets, and runs of the plan

\* What the constants must satisfy.
EditorsAssumption == /\ Page \subseteq {"case", "plan"} /\ {MaxEdits, MaxSaves, MaxRuns} \subseteq Nat

VARIABLES
  edits,              \* texts written so far
  case, revisions,    \* the case and its revisions, oldest first
  results,            \* results the case has got
  plan, ready, runs,  \* the plan; the cases that are ready; the plan's runs
  caseRead, caseDraft, revisionsRead,
  planRead, editOpen, planDraft,
  saves, sent         \* requests not answered, and their number so far

server == <<case, revisions, results, plan, ready, runs>>
casePage == <<caseRead, caseDraft, revisionsRead>>
planPage == <<planRead, editOpen, planDraft>>
vars == <<edits, server, casePage, planPage, saves, sent>>

CaseRecord == [text: 0 .. MaxEdits, dependencies: BOOLEAN]
PlanRecord == [text: 0 .. MaxEdits, notes: BOOLEAN, cases: Seq(Cases)]
CaseForm == [text: 0 .. MaxEdits, typed: BOOLEAN]
PlanForm == [text: 0 .. MaxEdits, cases: Seq(Cases)]
Saves == [id: Nat, op: {"case", "plan", "newPlan", "run"}, text: 0 .. MaxEdits, cases: Seq(Cases)]

TypeOK ==
  /\ edits \in 0 .. MaxEdits /\ sent \in 0 .. MaxSaves
  /\ case \in CaseRecord /\ revisions \in Seq(CaseRecord) /\ Last(revisions) = case
  /\ plan \in PlanRecord /\ ready \subseteq Cases /\ runs \in Seq(PlanRecord)
  /\ caseRead \in [case: CaseRecord, results: 0 .. MaxRuns] /\ caseDraft \in CaseForm
  /\ planRead \in PlanRecord /\ editOpen \in BOOLEAN /\ planDraft \in PlanForm
  /\ saves \subseteq Saves

-----------------------------------------------------------------------------
(* The revision history: every revision with its changes since the one     *)
(* before.  The server lists the newest first.                             *)
ComparedFields == {"text"}
Newest(revs) == [i \in DOMAIN revs |-> [number |-> Len(revs) + 1 - i, snapshot |-> revs[Len(revs) + 1 - i]]]
Previous_Listed(listed, r) == {p \in ToSet(listed): p.number = r.number + 1}
Previous(listed, r) ==   \* in the order of the numbers, whatever the order listed
  {p \in ToSet(listed): p.number < r.number /\ \A q \in ToSet(listed): q.number < r.number => q.number <= p.number}
Changes(before, after) ==
  {[key |-> f, before |-> before[f], after |-> after[f]]: f \in {g \in ComparedFields: before[g] # after[g]}}
Timeline(listed) ==
  [i \in DOMAIN listed |->
     LET previous == Previous(listed, listed[i])
     IN [number |-> listed[i].number, initial |-> previous = {},
         facts |-> IF previous = {} THEN {listed[i].snapshot.text} ELSE {},
         changes |-> UNION {Changes(p.snapshot, listed[i].snapshot): p \in previous}]]

-----------------------------------------------------------------------------
(* What the pages offer.                                                   *)
Saving(op) == \E s \in saves: s.op = op
CasePage == IF "case" \notin Page THEN {}
            ELSE {"type"} \cup (IF Saving("case") THEN {} ELSE {"save"})
                          \cup (IF Saving("newPlan") THEN {} ELSE {"newPlan"})
SelectedInputs == SelectSeq(planDraft.cases, LAMBDA c: c \in ready \cup ToSet(planRead.cases))
EditDialog == IF ~editOpen THEN {}
              ELSE {"title", "toggle", "move", "close"} \cup (IF Saving("plan") \/ SelectedInputs = <<>> THEN {} ELSE {"savePlan"})
PlanPage == IF "plan" \notin Page THEN {}
            ELSE (IF editOpen THEN EditDialog ELSE {"edit"}) \cup (IF Saving("run") THEN {} ELSE {"run"})

Init ==
  /\ edits = 0 /\ sent = 0 /\ saves = {}
  /\ case = [text |-> 0, dependencies |-> TRUE] /\ revisions = <<case>> /\ results = 0
  /\ ready = Cases /\ plan = [text |-> 0, notes |-> TRUE, cases |-> SetToSeq(Cases)] /\ runs = <<>>
  /\ caseRead = [case |-> case, results |-> 0] /\ caseDraft = [text |-> 0, typed |-> FALSE]
  /\ revisionsRead = Newest(revisions)
  /\ planRead = plan /\ editOpen = FALSE /\ planDraft = [text |-> 0, cases |-> plan.cases]

Write == edits < MaxEdits /\ edits' = edits + 1
Send(op, text, cases) ==
  /\ sent < MaxSaves /\ sent' = sent + 1
  /\ saves' = saves \cup {[id |-> sent + 1, op |-> op, text |-> text, cases |-> cases]}

-----------------------------------------------------------------------------
(* The case page.                                                          *)
Type ==
  /\ "type" \in CasePage /\ Write
  /\ caseDraft' = [text |-> edits', typed |-> TRUE]
  /\ UNCHANGED <<server, caseRead, revisionsRead, planPage, saves, sent>>

(* The effect that follows the read case fills the form again, and only    *)
(* when something of the case is new: an equal answer is the same object.  *)
FormAfter_Any(read, draft) == [text |-> read.case.text, typed |-> FALSE]
FormAfter(read, draft) ==
  IF read = caseRead THEN draft ELSE [text |-> read.case.text, typed |-> FALSE]
ReadCase ==
  /\ "case" \in Page
  /\ caseRead' = [case |-> case, results |-> results]
  /\ caseDraft' = FormAfter(caseRead', caseDraft)
  /\ UNCHANGED <<edits, server, revisionsRead, planPage, saves, sent>>
ReadRevisions ==
  /\ "case" \in Page /\ revisionsRead' = Newest(revisions)
  /\ UNCHANGED <<edits, server, caseRead, caseDraft, planPage, saves, sent>>

SaveCase ==
  /\ "save" \in CasePage /\ Send("case", caseDraft.text, <<>>)
  /\ UNCHANGED <<edits, server, casePage, planPage>>

(* The form is the whole record: what it does not have is stored empty.    *)
FormToInput(form) == [text |-> form.text, dependencies |-> FALSE]
Update_Unrecorded(c) == case' = c /\ UNCHANGED revisions
Update(c) == case' = c /\ revisions' = Append(revisions, c)
CaseSaved(s) ==
  /\ s.op = "case" /\ Update(FormToInput(s))
  /\ caseDraft' = [text |-> s.text, typed |-> FALSE]
  /\ saves' = saves \ {s}
  /\ UNCHANGED <<edits, results, plan, ready, runs, caseRead, revisionsRead, planPage, sent>>

PlanFromCase ==
  /\ "newPlan" \in CasePage /\ Send("newPlan", edits, <<>>)
  /\ UNCHANGED <<edits, server, casePage, planPage>>

-----------------------------------------------------------------------------
(* The plan page.                                                          *)
Unchanged == <<edits, server, casePage, planRead, saves, sent>>
OpenEdit ==
  /\ "edit" \in PlanPage
  /\ editOpen' = TRUE /\ planDraft' = [text |-> planRead.text, cases |-> planRead.cases]
  /\ UNCHANGED Unchanged
CloseEdit == "close" \in EditDialog /\ editOpen' = FALSE /\ UNCHANGED <<Unchanged, planDraft>>
EditTitle ==
  /\ "title" \in EditDialog /\ Write /\ planDraft' = [planDraft EXCEPT !.text = edits']
  /\ UNCHANGED <<server, casePage, planRead, editOpen, saves, sent>>
Toggled(s, c) == IF c \in ToSet(s) THEN SelectSeq(s, LAMBDA d: d # c) ELSE Append(s, c)
ToggleCase(c) ==
  /\ "toggle" \in EditDialog /\ c \in ready \cup ToSet(planRead.cases)
  /\ planDraft' = [planDraft EXCEPT !.cases = Toggled(@, c)]
  /\ UNCHANGED <<Unchanged, editOpen>>
MoveCase(i) ==
  /\ "move" \in EditDialog /\ i + 1 \in DOMAIN planDraft.cases
  /\ planDraft' = [planDraft EXCEPT !.cases = [@ EXCEPT ![i] = planDraft.cases[i + 1], ![i + 1] = planDraft.cases[i]]]
  /\ UNCHANGED <<Unchanged, editOpen>>

FormOfOpen_Read(read) == [text |-> read.text, cases |-> read.cases]
FormOfOpen(read) == planDraft
ReadPlan ==
  /\ "plan" \in Page /\ planRead' = plan /\ planDraft' = FormOfOpen(planRead')
  /\ UNCHANGED <<edits, server, casePage, editOpen, saves, sent>>

SavePlan ==
  /\ "savePlan" \in EditDialog /\ Send("plan", planDraft.text, SelectedInputs)
  /\ UNCHANGED <<edits, server, casePage, planPage>>
PlanSaved(s) ==   \* environment: "" empties the notes
  /\ s.op = "plan" /\ ToSet(s.cases) \subseteq ready
  /\ plan' = [text |-> s.text, notes |-> FALSE, cases |-> s.cases]
  /\ planRead' = plan' /\ editOpen' = FALSE /\ saves' = saves \ {s}
  /\ UNCHANGED <<edits, case, revisions, results, ready, runs, casePage, planDraft, sent>>
PlanCreated(s) ==   \* the plan page of the new plan takes the place of the case page
  /\ s.op = "newPlan" /\ saves' = saves \ {s}
  /\ caseDraft' = [text |-> caseRead.case.text, typed |-> FALSE]
  /\ UNCHANGED <<edits, server, caseRead, revisionsRead, planPage, sent>>

(* The run has the target the page shows and the server's cases.           *)
StartRun ==
  /\ "run" \in PlanPage /\ Send("run", planRead.text, <<>>)
  /\ UNCHANGED <<edits, server, casePage, planPage>>
RunStarted(s) ==
  /\ s.op = "run" /\ Len(runs) < MaxRuns
  /\ runs' = Append(runs, [plan EXCEPT !.text = s.text])
  /\ saves' = saves \ {s}
  /\ UNCHANGED <<edits, case, revisions, results, plan, ready, casePage, planPage, sent>>

Refused(s) == saves' = saves \ {s} /\ UNCHANGED <<edits, server, casePage, planPage, sent>>

-----------------------------------------------------------------------------
(* The other user, who works through the API, and the runs.                *)
OtherEditsCase ==
  /\ "case" \in Page /\ Write /\ Update([case EXCEPT !.text = edits'])
  /\ UNCHANGED <<results, plan, ready, runs, casePage, planPage, saves, sent>>
OtherEditsPlan(c) ==
  /\ "plan" \in Page /\ Write /\ c \in ready
  /\ plan' = [plan EXCEPT !.text = edits', !.cases = Toggled(@, c)]
  /\ UNCHANGED <<case, revisions, results, ready, runs, casePage, planPage, saves, sent>>
OtherArchives(c) ==
  /\ "plan" \in Page /\ ready' = ready \ {c}
  /\ UNCHANGED <<edits, case, revisions, results, plan, runs, casePage, planPage, saves, sent>>
ResultReported ==
  /\ "case" \in Page /\ results < MaxRuns /\ results' = results + 1
  /\ UNCHANGED <<edits, case, revisions, plan, ready, runs, casePage, planPage, saves, sent>>

Next ==
  \/ Type \/ ReadCase \/ ReadRevisions \/ SaveCase \/ PlanFromCase
  \/ OpenEdit \/ CloseEdit \/ EditTitle \/ ReadPlan \/ SavePlan \/ StartRun
  \/ \E c \in Cases: ToggleCase(c) \/ OtherEditsPlan(c) \/ OtherArchives(c)
  \/ \E i \in DOMAIN planDraft.cases: MoveCase(i)
  \/ \E s \in saves: CaseSaved(s) \/ PlanSaved(s) \/ PlanCreated(s) \/ RunStarted(s) \/ Refused(s)
  \/ OtherEditsCase \/ ResultReported

Spec == Init /\ [][Next]_vars

-----------------------------------------------------------------------------
(* The history on the page tells the whole story of the compared fields:   *)
(* the first revision's fact changed by every later revision in turn gives *)
(* the newest, whatever was saved by whom ("Later revisions should compare *)
(* against the previous revision snapshot").                               *)
TimelineReplays ==
  LET lines == Timeline(revisionsRead)
  IN /\ Cardinality({i \in DOMAIN lines: lines[i].initial}) = 1
     /\ \A i \in DOMAIN lines: \A c \in lines[i].changes:
          \/ i = Len(lines) - 1 /\ c.before \in lines[i + 1].facts
          \/ \E j \in DOMAIN lines: /\ lines[j].number < lines[i].number
                                    /\ \/ \E d \in lines[j].changes: d.after = c.before
                                       \/ c.before \in lines[j].facts
     /\ revisionsRead[1].snapshot.text \in UNION {{c.after: c \in lines[i].changes} \cup lines[i].facts: i \in DOMAIN lines}

(* What the user has typed in the case form is dropped only by an answer   *)
(* that brings something new, never by a read that finds the case as it    *)
(* was: a window that gets the focus reads again.                          *)
TypingKept == caseDraft.typed /\ ~caseDraft'.typed => caseRead' # caseRead \/ saves' # saves

(* The open plan dialog keeps the user's draft whatever the page reads.    *)
DialogKept == editOpen /\ planRead' # planRead => planDraft' = planDraft

(* Editing the plan in its dialog leaves the environment notes alone: "the *)
(* existing free-text `environment` field remains human notes for the      *)
(* agent".  It fails: the update always sends an empty environment.        *)
EditKeepsNotes == plan.notes

(* Editing a case keeps what it depends on: a case has "dependent cases".  *)
(* It fails: formToInput has no dependencies and the update stores none.   *)
EditKeepsDependencies == case.dependencies
=============================================================================
