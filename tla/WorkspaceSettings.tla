-------------------------- MODULE WorkspaceSettings --------------------------
(***************************************************************************)
(* The settings page of a workspace (packages/views/src/                   *)
(* workspace-settings-page.tsx): the automation form, the identity form,   *)
(* the invitations and the credentials of its workers, while other admins  *)
(* change the same workspace and the user switches to another one without  *)
(* leaving the page.                                                       *)
(***************************************************************************)
EXTENDS Naturals, Sequences, FiniteSets, SequencesExt

CONSTANTS
    Workspaces, Team,          \* workspaces of the user; those that are team workspaces
    Names,                     \* what the identity of a workspace may be
    Does,                      \* bound: the kinds of operations carried out
    MaxEdits, MaxOthers, MaxSwitches, MaxFails, MaxLinks   \* bounds: of the user, of other admins, ...

\* What the constants must satisfy.
WorkspaceSettingsAssumption ==
    /\ Team \subseteq Workspaces /\ Cardinality(Names) > 1
    /\ {MaxEdits, MaxOthers, MaxSwitches, MaxFails, MaxLinks} \subseteq Nat

VARIABLES
    settings,   \* the server's settings of each workspace
    profile,    \* its identity and the user's role in it
    links,      \* the invitations and worker credentials that exist, in the order created
    ws,         \* auth.workspace.id
    me,         \* auth's copy of the profile of each workspace
    loaded,     \* settingsQuery.data, of each workspace
    listed,     \* invitationsQuery.data and tokensQuery.data, of each workspace
    form, draft,      \* the two forms
    touched,    \* history: what the user changed in them since they were filled
    strayed,    \* history: what of them a save of another workspace filled since
    dialog, shown,    \* the open form dialog; the links whose secret is on screen
    posts,      \* requests under way
    budget

server == <<settings, profile, links>>
page == <<form, draft, touched, strayed, dialog, shown>>
vars == <<server, ws, me, loaded, listed, page, posts, budget>>

Fields == {"autoCreateDraftPr", "autoDeployTestEnvironment"}
Settings == [Fields -> BOOLEAN]
Off == [f \in Fields |-> FALSE]                     \* defaultSettingsForm
Managers == {"owner", "admin"}
Profile == [name : Names, role : Managers \cup {"member"}]
Link == [of : Workspaces, kind : {"invitation", "credential"}, state : {"open", "used", "expired", "revoked"}]

TypeOK ==
    /\ settings \in [Workspaces -> Settings]
    /\ profile \in [Workspaces -> Profile]
    /\ links \in Seq(Link) /\ Len(links) <= MaxLinks
    /\ ws \in Workspaces /\ DOMAIN me = Workspaces
    /\ \A w \in Workspaces : Cardinality(loaded[w]) <= 1 /\ listed[w] \subseteq (DOMAIN links) \X {"open", "used", "expired", "revoked"}
    /\ form \in Settings /\ draft \in Names /\ touched \cup strayed \subseteq Fields \cup {"name"}
    /\ dialog \in {"none", "invitation", "credential"}
    /\ \A r, q \in posts : r.op = q.op => r = q

Init ==
    /\ settings = [w \in Workspaces |-> Off]
    /\ profile \in [Workspaces -> [name : {CHOOSE n \in Names : TRUE}, role : {"admin"}]]
    /\ links = <<>> /\ ws \in Workspaces /\ me = profile
    /\ loaded = [w \in Workspaces |-> {}] /\ listed = [w \in Workspaces |-> {}]
    /\ form = Off /\ draft = me[ws].name /\ touched = {} /\ strayed = {}
    /\ dialog = "none" /\ shown = {} /\ posts = {}
    /\ budget = [edits |-> MaxEdits, others |-> MaxOthers, switches |-> MaxSwitches, fails |-> MaxFails]

Spend(k) == budget[k] > 0 /\ budget' = [budget EXCEPT ![k] = @ - 1]

-----------------------------------------------------------------------------
\* Other admins, and time.

OtherSaves(w, s) ==
    /\ "settings" \in Does /\ s # settings[w] /\ Spend("others")
    /\ settings' = [settings EXCEPT ![w] = s]
    /\ UNCHANGED <<profile, links, ws, me, loaded, listed, page, posts>>

OtherRenames(w, n) ==
    /\ "identity" \in Does /\ w \in Team /\ n # profile[w].name /\ Spend("others")
    /\ profile' = [profile EXCEPT ![w].name = n]
    /\ UNCHANGED <<settings, links, ws, me, loaded, listed, page, posts>>

Demoted(w) ==
    /\ "role" \in Does /\ profile[w].role \in Managers /\ Spend("others")
    /\ profile' = [profile EXCEPT ![w].role = "member"]
    /\ UNCHANGED <<settings, links, ws, me, loaded, listed, page, posts>>

\* Somebody joins with the invitation or a host registers; or nobody does in time.
LinkEnds(n, s) ==
    /\ links[n].state = "open" /\ s \in {"used", "expired"} /\ Spend("others")
    /\ links' = [links EXCEPT ![n].state = IF s = "used" /\ links[n].kind = "credential" THEN "open" ELSE s]
    /\ UNCHANGED <<settings, profile, ws, me, loaded, listed, page, posts>>

-----------------------------------------------------------------------------
\* What the page loads.

CanManage == me[ws].role \in Managers

\* Filled while a save of the workspace is under way, its answer may bring anything.
Filled(s, saving) ==
    /\ form' = s /\ strayed' = strayed \ Fields
    /\ touched' = IF saving THEN touched \cup Fields ELSE touched \ Fields

\* The effect on settingsQuery.data: equal data is the same object, and no news.
Fills_First(old, new) == old = {}       \* mutant: the form is only filled once

Fills(old, new) == new # old

Pending(op) == \E r \in posts : r.op = op
Saving(op, w) == \E r \in posts : r.op = op /\ r.of = w

FillsEffect(w, s, saving) ==
    /\ loaded' = [loaded EXCEPT ![w] = {s}]
    /\ IF Fills(loaded[w], {s}) THEN Filled(s, saving) ELSE UNCHANGED <<form, touched, strayed>>

LoadSettings ==
    /\ FillsEffect(ws, settings[ws], Saving("settings", ws))
    /\ UNCHANGED <<server, ws, me, listed, draft, dialog, shown, posts, budget>>

\* refreshAuth, and the effect that fills the identity form with what changed.
Profiled(p) ==
    /\ me' = p
    /\ IF p[ws].name # me[ws].name
       THEN /\ draft' = p[ws].name /\ strayed' = strayed \ {"name"}
            /\ touched' = IF Saving("identity", ws) THEN touched \cup {"name"} ELSE touched \ {"name"}
       ELSE UNCHANGED <<draft, touched, strayed>>

RefreshAuth ==
    /\ Profiled(profile)
    /\ UNCHANGED <<server, ws, loaded, listed, form, dialog, shown, posts, budget>>

Listing(w) == {<<n, links[n].state>> : n \in {k \in DOMAIN links : links[k].of = w}}

\* Every 15 s; members may list neither, and only a team has invitations.
Listed(w) == {p \in Listing(w) : w \in Team \/ links[p[1]].kind = "credential"}

Polls_Once(w) == listed[w] = {}         \* mutant: the lists are loaded once

Polls(w) == TRUE

PollLists ==
    /\ Polls(ws) /\ CanManage /\ profile[ws].role \in Managers
    /\ listed' = [listed EXCEPT ![ws] = Listed(ws)]
    /\ UNCHANGED <<server, ws, me, loaded, page, posts, budget>>

\* The workspace menu; the page stays, and takes what the cache has of the other.
Switch(w) ==
    /\ w # ws /\ dialog = "none" /\ shown = {} /\ Spend("switches")
    /\ ws' = w /\ draft' = me[w].name
    /\ IF loaded[w] # {} THEN form' = CHOOSE s \in loaded[w] : TRUE ELSE UNCHANGED form
    /\ touched' = (IF Saving("settings", w) THEN Fields ELSE {}) \cup (IF Saving("identity", w) THEN {"name"} ELSE {})
    /\ strayed' = {}
    /\ UNCHANGED <<server, me, loaded, listed, dialog, shown, posts>>

-----------------------------------------------------------------------------
\* The forms.

IsDirty == loaded[ws] # {} /\ loaded[ws] # {form}
IdentityDirty == draft # me[ws].name

Free_Always(op) == TRUE                  \* mutant: the buttons are not disabled while a request is under way

Free(op) == ~Pending(op)

Asks(op, body) ==
    /\ Free(op)
    /\ posts' = posts \cup {[op |-> op, of |-> ws, body |-> body, pc |-> "sent"]}

Toggle(f) ==
    /\ "settings" \in Does /\ dialog = "none" /\ shown = {}
    /\ loaded[ws] # {} /\ ~Pending("settings") /\ Spend("edits")
    /\ form' = [form EXCEPT ![f] = ~@] /\ touched' = touched \cup {f}
    /\ UNCHANGED <<server, ws, me, loaded, listed, draft, strayed, dialog, shown, posts>>

PressSave ==
    /\ "settings" \in Does /\ dialog = "none" /\ shown = {} /\ IsDirty
    /\ Asks("settings", form)
    /\ UNCHANGED <<server, ws, me, loaded, listed, page, budget>>

\* The name, the icon and the description, none of them blank or unchanged.
Edit(n) ==
    /\ "identity" \in Does /\ dialog = "none" /\ shown = {}
    /\ ws \in Team /\ CanManage /\ ~Pending("identity") /\ n # draft /\ Spend("edits")
    /\ draft' = n /\ touched' = touched \cup {"name"}
    /\ UNCHANGED <<server, ws, me, loaded, listed, form, strayed, dialog, shown, posts>>

SubmitIdentity ==
    /\ dialog = "none" /\ shown = {} /\ ws \in Team /\ CanManage /\ IdentityDirty
    /\ Asks("identity", draft)
    /\ UNCHANGED <<server, ws, me, loaded, listed, page, budget>>

-----------------------------------------------------------------------------
\* The dialogs.

MayOpen(kind) == CanManage /\ (kind = "invitation" => ws \in Team)

OpenDialog(kind) ==
    /\ kind \in Does /\ dialog = "none" /\ shown = {} /\ MayOpen(kind)
    /\ dialog' = kind
    /\ UNCHANGED <<server, ws, me, loaded, listed, form, draft, touched, strayed, shown, posts, budget>>

CloseDialog ==
    /\ dialog # "none" /\ shown = {} /\ dialog' = "none"
    /\ UNCHANGED <<server, ws, me, loaded, listed, form, draft, touched, strayed, shown, posts, budget>>

SubmitDialog ==
    /\ dialog # "none" /\ shown = {} /\ MayOpen(dialog) /\ Asks(dialog, 0)
    /\ UNCHANGED <<server, ws, me, loaded, listed, page, budget>>

\* Done: the secret is gone for good.
Dismiss(n) ==
    /\ n \in shown /\ shown' = shown \ {n}
    /\ UNCHANGED <<server, ws, me, loaded, listed, form, draft, touched, strayed, dialog, posts, budget>>

\* The lists: an invitation while pending, a credential while active.
RevokeOf(n) == [op |-> IF links[n].kind = "invitation" THEN "revokeInvitation" ELSE "revokeToken"]

Revocable(n) == <<n, "open">> \in listed[ws] /\ (links[n].kind = "invitation" => CanManage)

PressRevoke(n) ==
    /\ dialog = "none" /\ shown = {} /\ Revocable(n) /\ Asks(RevokeOf(n).op, n)
    /\ UNCHANGED <<server, ws, me, loaded, listed, page, budget>>

-----------------------------------------------------------------------------
\* The requests. The server asks for a manager of the workspace.

Allowed(w) == profile[w].role \in Managers
Goes(r, pc, a) == posts' = (posts \ {r}) \cup {[r EXCEPT !.pc = pc, !.body = a]}

\* The request goes to the workspace that was open when it was pressed.
Target_Now(r) == ws                     \* mutant: to the one that is open when it is sent

Target(r) == r.of

Handle(r) ==
    LET w == Target(r)
    IN /\ r.pc = "sent" /\ Allowed(w)
       /\ \/ /\ r.op = "settings" /\ settings' = [settings EXCEPT ![w] = r.body]
             /\ Goes(r, "ok", r.body) /\ UNCHANGED <<profile, links>>
          \/ /\ r.op = "identity" /\ profile' = [profile EXCEPT ![w].name = r.body]
             /\ Goes(r, "ok", r.body) /\ UNCHANGED <<settings, links>>
          \/ /\ r.op \in {"invitation", "credential"} /\ Len(links) < MaxLinks
             /\ links' = Append(links, [of |-> w, kind |-> r.op, state |-> "open"])
             /\ Goes(r, "ok", Len(links')) /\ UNCHANGED <<settings, profile>>
          \/ /\ r.op \in {"revokeInvitation", "revokeToken"}
             /\ links' = [links EXCEPT ![r.body].state = "revoked"]
             /\ Goes(r, "ok", r.body) /\ UNCHANGED <<settings, profile>>
    /\ UNCHANGED <<ws, me, loaded, listed, page, budget>>

\* Refused by the server, or lost on the way there or back: the page shows an error.
Refused(r) ==
    /\ r.pc = "sent" /\ (~Allowed(r.of) \/ Len(links) = MaxLinks) /\ posts' = posts \ {r}
    /\ UNCHANGED <<server, ws, me, loaded, listed, page, budget>>

Lost(r) ==
    /\ Spend("fails") /\ posts' = posts \ {r}
    /\ UNCHANGED <<server, ws, me, loaded, listed, page>>

\* onSuccess, and the refetch it waits for: of the workspace that is open by now.
SettingsSaved(r) ==
    /\ r.op = "settings"
    /\ Goes(r, "refetch", r.body) /\ form' = r.body
    /\ strayed' = IF r.of = ws THEN strayed ELSE strayed \cup Fields
    /\ UNCHANGED <<me, loaded, listed, draft, touched, dialog, shown>>

SettingsRefetched(r) ==
    /\ r.pc = "refetch" /\ posts' = posts \ {r} /\ FillsEffect(ws, settings[ws], FALSE)
    /\ UNCHANGED <<server, ws, me, listed, draft, dialog, shown, budget>>

IdentitySaved(r) ==
    /\ r.op = "identity" /\ posts' = posts \ {r} /\ me' = profile
    /\ IF profile[ws].name # me[ws].name
       THEN draft' = profile[ws].name /\ touched' = touched \ {"name"} /\ strayed' = strayed \ {"name"}
       ELSE /\ draft' = r.body /\ UNCHANGED touched
            /\ strayed' = IF r.of = ws THEN strayed ELSE strayed \cup {"name"}
    /\ UNCHANGED <<loaded, listed, form, dialog, shown>>

\* setCreatedInvitation and setCreatedWorkerInstallation; the form's dialog closes.
Created(r) ==
    /\ r.op \in {"invitation", "credential"} /\ posts' = posts \ {r}
    /\ shown' = {n \in shown : links[n].kind # r.op} \cup {r.body}
    /\ dialog' = IF dialog = r.op THEN "none" ELSE dialog
    /\ listed' = [listed EXCEPT ![ws] = IF CanManage /\ Allowed(ws) THEN Listed(ws) ELSE @]
    /\ UNCHANGED <<me, loaded, form, draft, touched, strayed>>

Revoked(r) ==
    /\ r.op \in {"revokeInvitation", "revokeToken"} /\ posts' = posts \ {r}
    /\ listed' = [listed EXCEPT ![ws] = IF CanManage /\ Allowed(ws) THEN Listed(ws) ELSE @]
    /\ UNCHANGED <<me, loaded, form, draft, touched, strayed, dialog, shown>>

Succeeds(r) ==
    /\ r.pc = "ok"
    /\ SettingsSaved(r) \/ IdentitySaved(r) \/ Created(r) \/ Revoked(r)
    /\ UNCHANGED <<server, ws, budget>>

-----------------------------------------------------------------------------
Next ==
    \/ \E w \in Workspaces : \/ \E s \in Settings : OtherSaves(w, s)
                             \/ \E n \in Names : OtherRenames(w, n)
                             \/ Demoted(w) \/ Switch(w)
    \/ \E n \in DOMAIN links : \/ \E s \in {"used", "expired"} : LinkEnds(n, s)
                               \/ Dismiss(n) \/ PressRevoke(n)
    \/ LoadSettings \/ RefreshAuth \/ PollLists
    \/ \E f \in Fields : Toggle(f)
    \/ \E n \in Names : Edit(n)
    \/ PressSave \/ SubmitIdentity
    \/ \E k \in {"invitation", "credential"} : OpenDialog(k)
    \/ CloseDialog \/ SubmitDialog
    \/ \E r \in posts : Handle(r) \/ Refused(r) \/ Lost(r) \/ Succeeds(r) \/ SettingsRefetched(r)

\* The list is polled, auth refreshed and every request answered or lost.
Spec ==
    /\ Init /\ [][Next]_vars
    /\ WF_vars(PollLists) /\ WF_vars(RefreshAuth) /\ WF_vars(LoadSettings)

-----------------------------------------------------------------------------
\* Apart from what the user changed in them since, the forms show what the page
\* has loaded of the workspace on screen, so that Save writes nothing the user
\* did not choose; whoever else changes it and whichever workspace the user goes
\* on to, except in the course of a save (the effects that fill the forms, and
\* the answers of the saves). The one exception is the answer to a save of
\* another workspace: it fills the form on screen, until the form is filled again.
OnlyChosen ==
    /\ \A s \in loaded[ws], f \in Fields \ (touched \cup strayed) : form[f] = s[f]
    /\ "name" \notin touched \cup strayed => draft = me[ws].name

\* What was chosen in one workspace is saved in that workspace, also when the
\* user has gone on to another one before it is sent (the mutations' closures).
SavedWhereChosen ==
    \A w \in Workspaces : settings'[w] # settings[w] =>
        \/ budget'.others < budget.others
        \/ \E r \in posts : r.op = "settings" /\ r.of = w /\ r.body = settings'[w]

\* An invitation or a credential that was used up, expired or revoked, here or
\* elsewhere, is in the end no longer offered for revocation to a manager who
\* stays in the workspace (the polls).
ListCatchesUp ==
    \A n \in 1..MaxLinks :
        (n \in DOMAIN links /\ links[n].state = "revoked") ~>
            (<<n, "open">> \notin listed[ws] \/ links[n].of # ws \/ ~Allowed(ws))
=============================================================================
