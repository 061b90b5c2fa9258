-------------------------------- MODULE Skills --------------------------------
(***************************************************************************)
(* The workflow skills of a workspace: the store's operations on them      *)
(* (memory_store.go and postgres_workspace_skills.go) and the Skills tab   *)
(* of packages/views/src/agents-page.tsx, where admins write, copy, switch *)
(* off and delete them.  One admin's page is modelled, and the requests of *)
(* others.                                                                 *)
(***************************************************************************)
EXTENDS Naturals, FiniteSets

CONSTANTS
    Ids, Builtins,      \* skills, those of the workspace and those of the server
    Slugs, Names, Texts,
    None,
    Database,           \* the Postgres store; otherwise the memory store
    Does,               \* bound: the operations asked for
    MaxAsks, MaxOthers, MaxEdits, MaxFails    \* bounds: of the page, of others, ...

\* What the constants must satisfy.
SkillsAssumption ==
    /\ Builtins \subseteq Ids /\ Database \in BOOLEAN
    /\ None \notin Ids \cup Slugs \cup Names \cup Texts
    /\ {MaxAsks, MaxOthers, MaxEdits, MaxFails} \subseteq Nat

VARIABLES
    skills,     \* workspace_skills, each with its current revision, and the built-in ones
    listed,     \* skillsQuery.data
    modal,      \* skillModalMode, editingSkill and skillForm
    calls,      \* requests under way
    known,      \* history: texts loaded of each skill, or typed for it; None is a new one
    budget

vars == <<skills, listed, modal, calls, known, budget>>

Spend(k) == budget[k] > 0 /\ budget' = [budget EXCEPT ![k] = @ - 1]

Absent == [slug |-> None, live |-> FALSE, enabled |-> FALSE, name |-> None, text |-> None]
ClosedModal == [mode |-> "closed", of |-> None, slug |-> None, name |-> None, text |-> None, enabled |-> TRUE]
Nothing == [slug |-> None, name |-> None, text |-> None, enabled |-> None]

TypeOK ==
    /\ \A k \in Ids : /\ skills[k].slug \in Slugs \cup {None} /\ skills[k].text \in Texts \cup {None}
                      /\ skills[k].enabled => skills[k].live
                      /\ skills[k].live => skills[k].slug # None /\ skills[k].name \in Names
    /\ DOMAIN listed \subseteq Ids /\ modal.mode \in {"closed", "create", "edit", "view"}
    /\ modal.mode = "edit" => modal.of \in Ids \ Builtins
    /\ \A r \in calls : r.pc \in {"sent", "read", "ok", "refetch"}
    /\ \A op \in {"load", "toggle", "delete", "duplicate"} :
          Cardinality({r \in calls : r.op = op /\ r.ours}) <= 1

Init ==
    /\ \E s \in [Ids -> Slugs], X \in SUBSET Ids, t \in Texts, n \in Names :
          /\ Builtins \subseteq X /\ \A j, k \in X : j # k => s[j] # s[k]
          /\ skills = [k \in Ids |-> IF k \in X
                 THEN [slug |-> s[k], live |-> TRUE, enabled |-> TRUE, name |-> n, text |-> t] ELSE Absent]
    /\ listed = <<>> /\ modal = ClosedModal /\ calls = {} /\ known = [k \in Ids \cup {None} |-> {None}]
    /\ budget = [asks |-> MaxAsks, others |-> MaxOthers, edits |-> MaxEdits, fails |-> MaxFails]

-----------------------------------------------------------------------------
\* Requests. "kept" is FALSE once the page has reset the mutation: it no longer
\* waits for it, but its onSuccess still runs.

Request(op, of, body, ours) ==
    [op |-> op, of |-> of, body |-> body, ours |-> ours, kept |-> TRUE, was |-> Absent, pc |-> "sent"]

Ask(op, of, body) ==
    /\ op \in Does /\ Spend("asks") /\ calls' = calls \cup {Request(op, of, body, TRUE)}

Goes(r, pc) == calls' = (calls \ {r}) \cup {[r EXCEPT !.pc = pc]}

OthersUpdate(k, n, t, e) ==
    /\ "others" \in Does /\ Spend("others") /\ skills[k].live /\ (k \in Builtins => t = None)
    /\ n = None <=> t = None
    /\ calls' = calls \cup {Request("update", k, [Nothing EXCEPT !.name = n, !.text = t, !.enabled = e], FALSE)}
    /\ UNCHANGED <<skills, listed, modal, known>>

OthersCreate(s, n, t) ==
    /\ "creates" \in Does /\ Spend("others")
    /\ calls' = calls \cup
          {Request("create", None, [slug |-> s, name |-> n, text |-> t, enabled |-> TRUE], FALSE)}
    /\ UNCHANGED <<skills, listed, modal, known>>

OthersDelete(k) ==
    /\ "others" \in Does /\ Spend("others") /\ skills[k].live /\ k \notin Builtins
    /\ calls' = calls \cup {Request("delete", k, Nothing, FALSE)}
    /\ UNCHANGED <<skills, listed, modal, known>>

-----------------------------------------------------------------------------
\* The store. Each operation reads, and then writes in a transaction of its own;
\* the memory store does both under one lock.

SlugTaken(s) == \E k \in Ids : skills[k].live /\ skills[k].slug = s

Writes == {"update", "toggle", "create", "duplicate", "delete"}
Free(r) == Database \/ \A q \in calls : q.pc = "read" => q = r

ReadExisting(r) ==
    /\ r.op \in {"update", "toggle", "delete"} /\ skills[r.of].live /\ (r.op = "delete" => r.of \notin Builtins)
    /\ calls' = (calls \ {r}) \cup {[r EXCEPT !.pc = "read", !.was = skills[r.of]]}

CheckSlug(r) == r.op = "create" /\ ~SlugTaken(r.body.slug) /\ Goes(r, "read")

\* nextWorkspaceSkillCopySlug, then CreateSkill.
CopySource(r) ==
    /\ r.op = "duplicate" /\ skills[r.of].live
    /\ \E s \in Slugs :
          /\ ~SlugTaken(s)
          /\ calls' = (calls \ {r}) \cup
                {[r EXCEPT !.pc = "read", !.body = [slug |-> s, name |-> skills[r.of].name,
                                                    text |-> skills[r.of].text, enabled |-> TRUE]]}

ReadSkill(r) ==
    /\ r.pc = "sent" /\ Free(r) /\ (ReadExisting(r) \/ CheckSlug(r) \/ CopySource(r))
    /\ UNCHANGED <<skills, listed, modal, known, budget>>

\* The fields that were not sent are those that were read.
Merge(was, body) ==
    [name |-> IF body.name = None THEN was.name ELSE body.name,
     enabled |-> IF body.enabled = None THEN was.enabled ELSE body.enabled]

Updatable_Any(k) == TRUE                \* mutant: the row is written without deleted_at IS NULL

Updatable(k) == skills[k].live

UpdateSkill(r) ==
    /\ r.op \in {"update", "toggle"} /\ r.pc = "read" /\ Updatable(r.of)
    /\ skills' = [skills EXCEPT ![r.of] =
          [@ EXCEPT !.name = Merge(r.was, r.body).name, !.enabled = Merge(r.was, r.body).enabled,
                    !.text = IF r.body.text = None THEN skills[r.of].text ELSE r.body.text]]
    /\ Goes(r, "ok") /\ UNCHANGED <<listed, modal, known, budget>>

DeleteSkill(r) ==
    /\ r.op = "delete" /\ r.pc = "read" /\ skills[r.of].live
    /\ skills' = [skills EXCEPT ![r.of] = [@ EXCEPT !.live = FALSE, !.enabled = FALSE]]
    /\ Goes(r, "ok") /\ UNCHANGED <<listed, modal, known, budget>>

Insertable_Any(s) == TRUE               \* mutant: the slugs have no unique index

Insertable(s) == ~SlugTaken(s)

CreateSkill(r) ==
    /\ r.op \in {"create", "duplicate"} /\ r.pc = "read" /\ Insertable(r.body.slug)
    /\ \E k \in {i \in Ids \ Builtins : skills[i] = Absent} :
          skills' = [skills EXCEPT ![k] = [slug |-> r.body.slug, live |-> TRUE, enabled |-> r.body.enabled,
                                           name |-> r.body.name, text |-> r.body.text]]
    /\ Goes(r, "ok") /\ UNCHANGED <<listed, modal, known, budget>>

GetSkill(r) ==
    /\ r.op = "load" /\ r.pc = "sent" /\ skills[r.of].live
    /\ calls' = (calls \ {r}) \cup {[r EXCEPT !.pc = "ok", !.was = skills[r.of]]}
    /\ UNCHANGED <<skills, listed, modal, known, budget>>

Refused(r) ==
    \/ r.op \in {"load", "update", "toggle", "delete", "duplicate"} /\ r.pc = "sent" /\ ~skills[r.of].live
    \/ r.op \in {"update", "toggle", "delete"} /\ r.pc = "read" /\ ~skills[r.of].live
    \/ r.op = "create" /\ r.pc \in {"sent", "read"} /\ SlugTaken(r.body.slug)
    \/ r.op = "duplicate" /\ r.pc = "read" /\ SlugTaken(r.body.slug)

\* ErrNotFound, ErrConflict; or a request or its answer is lost.
Fails(r) ==
    /\ Refused(r) \/ (budget.fails > 0 /\ r.pc # "refetch" /\ (r.pc # "read" \/ Database))
    /\ budget' = IF Refused(r) THEN budget ELSE [budget EXCEPT !.fails = @ - 1]
    /\ calls' = calls \ {r} /\ UNCHANGED <<skills, listed, modal, known>>

-----------------------------------------------------------------------------
\* The page.

Listing == [k \in {i \in Ids : skills[i].live} |-> [name |-> skills[k].name, enabled |-> skills[k].enabled]]

ListSkills ==
    /\ listed' = Listing /\ UNCHANGED <<skills, modal, calls, known, budget>>

IsMutating_Writes == \E r \in calls : r.ours /\ r.kept /\ r.op # "load"  \* mutant: a load does not count

IsMutating == \E r \in calls : r.ours /\ r.kept
Saving == \E r \in calls : r.ours /\ r.kept /\ r.op \in {"create", "update"}
Offered(k) == modal.mode = "closed" /\ k \in DOMAIN listed /\ ~IsMutating

OpenSkillSettings(k) ==
    /\ Offered(k) /\ Ask("load", k, Nothing) /\ UNCHANGED <<skills, listed, modal, known>>

Duplicate(k) ==
    /\ Offered(k) /\ Ask("duplicate", k, Nothing) /\ UNCHANGED <<skills, listed, modal, known>>

Delete(k) ==
    /\ Offered(k) /\ k \notin Builtins /\ Ask("delete", k, Nothing)
    /\ UNCHANGED <<skills, listed, modal, known>>

ToggleInput_Row(row) == [Nothing EXCEPT !.name = row.name, !.enabled = ~row.enabled]   \* mutant: the whole row

ToggleInput(row) == [Nothing EXCEPT !.enabled = ~row.enabled]

ToggleEnabled(k) ==
    /\ Offered(k) /\ Ask("toggle", k, ToggleInput(listed[k])) /\ UNCHANGED <<skills, listed, modal, known>>

Forget(ops) == {IF r.ours /\ r.op \in ops THEN [r EXCEPT !.kept = FALSE] ELSE r : r \in calls}

\* Not held back by a load that is under way.
OpenCreateSkillModal ==
    /\ modal.mode = "closed" /\ "create" \in Does
    /\ modal' = [ClosedModal EXCEPT !.mode = "create"] /\ calls' = Forget({"create"})
    /\ UNCHANGED <<skills, listed, known, budget>>

CloseSkillModal ==
    /\ modal.mode # "closed" /\ modal' = ClosedModal /\ calls' = Forget({"create", "update"})
    /\ UNCHANGED <<skills, listed, known, budget>>

Type(s, n, t, e) ==
    /\ modal.mode \in {"create", "edit"} /\ Spend("edits") /\ (modal.mode = "edit" => s = modal.slug)
    /\ modal' = [modal EXCEPT !.slug = s, !.name = n, !.text = t, !.enabled = e] /\ modal' # modal
    /\ known' = [known EXCEPT ![modal.of] = @ \cup {t}]
    /\ UNCHANGED <<skills, listed, calls>>

Input == [slug |-> modal.slug, name |-> modal.name, text |-> modal.text, enabled |-> modal.enabled]

SubmitSkill ==
    /\ modal.mode \in {"create", "edit"} /\ ~Saving /\ modal.slug # None /\ modal.name # None /\ modal.text # None
    /\ IF modal.mode = "create" THEN Ask("create", None, Input)
                                ELSE Ask("update", modal.of, Input)
    /\ UNCHANGED <<skills, listed, modal, known>>

Shown_Open(k, was) ==                   \* mutant: a dialog that is open already keeps its mode
    [mode |-> IF modal.mode # "closed" THEN modal.mode ELSE IF k \in Builtins THEN "view" ELSE "edit",
     of |-> IF modal.mode # "closed" THEN modal.of ELSE k,
     slug |-> was.slug, name |-> was.name, text |-> was.text, enabled |-> was.enabled]

Shown(k, was) ==
    [mode |-> IF k \in Builtins THEN "view" ELSE "edit", of |-> k,
     slug |-> was.slug, name |-> was.name, text |-> was.text, enabled |-> was.enabled]

SkillLoaded(r) ==
    /\ r.op = "load" /\ r.pc = "ok" /\ calls' = calls \ {r} /\ modal' = Shown(r.of, r.was)
    /\ known' = [known EXCEPT ![r.of] = @ \cup {r.was.text}]
    /\ UNCHANGED <<skills, listed, budget>>

\* onSuccess; a saved or created skill closes the dialog that is open by then.
Done(r) ==
    /\ r.op \in Writes /\ r.pc = "ok" /\ r.ours /\ Goes(r, "refetch")
    /\ modal' = IF r.op \in {"create", "update"} THEN ClosedModal ELSE modal
    /\ UNCHANGED <<skills, listed, known, budget>>

Refetched(r) ==
    /\ r.pc = "refetch" /\ listed' = Listing /\ calls' = calls \ {r}
    /\ UNCHANGED <<skills, modal, known, budget>>

OthersDone(r) ==
    /\ ~r.ours /\ r.pc = "ok" /\ calls' = calls \ {r}
    /\ UNCHANGED <<skills, listed, modal, known, budget>>

-----------------------------------------------------------------------------
Next ==
    \/ \E k \in Ids : \/ \E n \in Names \cup {None}, t \in Texts \cup {None}, e \in BOOLEAN : OthersUpdate(k, n, t, e)
                      \/ OthersDelete(k) \/ OpenSkillSettings(k) \/ Duplicate(k) \/ Delete(k) \/ ToggleEnabled(k)
    \/ \E s \in Slugs, n \in Names, t \in Texts :
          OthersCreate(s, n, t) \/ \E e \in BOOLEAN : Type(s, n, t, e)
    \/ \E r \in calls : \/ ReadSkill(r) \/ UpdateSkill(r) \/ DeleteSkill(r) \/ CreateSkill(r) \/ GetSkill(r)
                        \/ Fails(r) \/ SkillLoaded(r) \/ Done(r) \/ Refetched(r) \/ OthersDone(r)
    \/ ListSkills \/ OpenCreateSkillModal \/ CloseSkillModal \/ SubmitSkill

Spec == Init /\ [][Next]_vars

-----------------------------------------------------------------------------
\* Live skills have different slugs, however creations and copies overlap: a session
\* asks for its skills by slug (CreateSkill, DuplicateSkill and the unique index).
SlugsDiffer ==
    \A j, k \in Ids : skills[j].live /\ skills[k].live /\ skills[j].slug = skills[k].slug => j = k

\* A skill that was deleted stays deleted and switched off, though an update that
\* read it before may still be under way (UpdateSkill, DeleteSkill).
DeletedStays ==
    \A k \in Ids : skills[k].slug # None /\ ~skills[k].live => skills'[k] = skills[k]

\* The name and the text of a skill change only to what somebody sent: switching a
\* skill on or off takes back no change that another admin made since the page
\* listed the skills (toggleSkill, UpdateSkill).  The one exception is a name that
\* Postgres had read for a request that sends none, and that was changed before the
\* request writes it back.
TogglesKeep ==
    \A k \in Ids : skills[k].live /\ <<skills'[k].name, skills'[k].text>> # <<skills[k].name, skills[k].text>> =>
        \E r \in calls : r.of = k /\
            \/ r.op = "update" /\ <<r.body.name, r.body.text>> = <<skills'[k].name, skills'[k].text>>
            \/ /\ Database /\ r.op \in {"update", "toggle"} /\ r.pc = "read" /\ r.body.name = None
               /\ skills'[k].name = r.was.name /\ skills'[k].text = skills[k].text

\* A save writes a text that was loaded of that skill or typed for it, though loads
\* and saves that the page no longer waits for fill and close its one form.
SavesOwn ==
    \A r \in calls : r.ours /\ r.op \in {"create", "update"} => r.body.text \in known[r.of]
=============================================================================
