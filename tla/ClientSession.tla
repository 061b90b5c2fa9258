--------------------------- MODULE ClientSession ---------------------------
(***************************************************************************)
(* The root of the desktop's renderer (apps/desktop/src/renderer/src/      *)
(* main.tsx): which server it talks to, who is signed in, which workspace  *)
(* is selected, and the invitation a link asked it to accept.  Every       *)
(* request is answered in two steps, what the server does and what the     *)
(* renderer does with the answer, and the user goes on in between.         *)
(***************************************************************************)
EXTENDS Naturals, FiniteSets

CONSTANTS
    Servers, Home,    \* the servers, and the local one among them
    Compatible,       \* the servers that pass hasExpectedServerHealth
    Inviter,          \* the server of the invitation link
    Locked,           \* serverBaseUrlLocked: the environment fixes the address
    NoToken, NoWs,
    MaxLogin, MaxLink, MaxSave, MaxOut, MaxFail   \* bounds: what the user and the network do

\* What the constants must satisfy.
ClientSessionAssumption ==
    /\ {Home, Inviter} \subseteq Servers /\ Compatible \subseteq Servers
    /\ Locked \in BOOLEAN
    /\ {MaxLogin, MaxLink, MaxSave, MaxOut, MaxFail} \subseteq Nat

VARIABLES
    base,       \* serverBaseUrl
    token,      \* authToken: the server that issued it, and a number
    selected,   \* selectedWorkspaceId
    me,         \* meQuery for the current token and address
    pending,    \* pendingInviteToken is set
    accepted,   \* acceptedInviteToken is set
    main,       \* the main process's pendingInviteToken: none, bare, or the link
    hash,       \* the route: the invite page or another
    login,      \* the password login in flight
    github,     \* the GitHub login: being started, or polled for
    switching,  \* the invitation's setServerBaseUrl is in flight
    save,       \* handleSaveServerUrl and handleResetServerUrl
    accept,     \* acceptWorkspaceInvitation: of the root, and of the invite page
    joined,     \* the server: the account is a member of the invited workspace
    wanted,     \* ghost: a link was opened, not accepted yet and not left by the user
    arrived,    \* ghost: accepted, and the user has not gone elsewhere
    budget

shell == <<base, token, selected, me>>
invite == <<pending, accepted, main, hash, switching>>
ghosts == <<wanted, arrived>>
vars == <<shell, invite, login, github, save, accept, joined, ghosts, budget>>

Personal(s) == <<s, "personal">>
Invited == <<Inviter, "team">>
Idle == [pc |-> "idle"]
Tokens == Servers \X (0..MaxLogin)
Spend(k) == budget[k] > 0 /\ budget' = [budget EXCEPT ![k] = @ - 1]

\* A query whose key has just changed: fetched anew when it is enabled.
MeOf(tok) == [fetch |-> IF tok = NoToken THEN "idle" ELSE "sent",
              answer |-> {}, loaded |-> FALSE, list |-> {}, error |-> "none"]

Init ==
    /\ base = Home
    /\ token \in {NoToken, <<Home, 0>>}
    /\ selected = NoWs /\ me = MeOf(token)
    /\ pending = FALSE /\ accepted = FALSE /\ main = "none" /\ hash = "inbox"
    /\ login = Idle /\ github = Idle /\ switching = FALSE /\ save = Idle
    /\ accept = [by \in {"root", "page"} |-> Idle]
    /\ joined = FALSE /\ wanted = FALSE /\ arrived = FALSE
    /\ budget = [login |-> MaxLogin, link |-> MaxLink, save |-> MaxSave, out |-> MaxOut, fail |-> MaxFail]

-----------------------------------------------------------------------------
\* What is shown, and the buttons that work.

Accepting == accept["root"].pc # "idle"
SignedIn == token # NoToken /\ me.loaded /\ ~(pending /\ Accepting)
Busy ==
    \/ pending /\ Accepting
    \/ login.pc # "idle"
    \/ github.pc # "idle"
CanLogin == ~SignedIn /\ ~Busy
CanSave == ~SignedIn /\ ~Locked /\ save.pc = "idle"

\* currentWorkspace
Current == IF selected \in me.list THEN selected ELSE Personal(base)

Cleared_Cached == me                    \* mutant: the query cache is not cleared

Cleared == MeOf(NoToken)

\* clearAuthState, and the address it is left with.
ClearAuth(s) ==
    /\ token' = NoToken /\ selected' = NoWs /\ me' = Cleared
    /\ base' = s
    /\ github' = IF github.pc = "wait" THEN Idle ELSE github

-----------------------------------------------------------------------------
\* meQuery

\* The server looks the token up: a list of workspaces, or 401.
MeServed ==
    /\ me.fetch = "sent"
    /\ me' = IF base \in Compatible /\ token[1] = base
             THEN [me EXCEPT !.fetch = "list", !.answer = {Personal(base)} \cup
                                        IF joined /\ base = Inviter THEN {Invited} ELSE {}]
             ELSE [me EXCEPT !.fetch = IF base \in Compatible THEN "invalid" ELSE "failed"]
    /\ UNCHANGED <<base, token, selected, invite, login, github, save, accept, joined, ghosts, budget>>

MeFails ==
    /\ me.fetch = "sent" /\ Spend("fail")
    /\ me' = [me EXCEPT !.fetch = "failed"]
    /\ UNCHANGED <<base, token, selected, invite, login, github, save, accept, joined, ghosts>>

MeAnswered ==
    /\ me.fetch \in {"list", "invalid", "failed"}
    /\ me' = IF me.fetch = "list"
             THEN [me EXCEPT !.fetch = "idle", !.loaded = TRUE, !.list = me.answer, !.answer = {}, !.error = "none"]
             ELSE [me EXCEPT !.fetch = "idle", !.error = me.fetch]
    /\ UNCHANGED <<base, token, selected, invite, login, github, save, accept, joined, ghosts, budget>>

\* The window gets the focus.
Refetch ==
    /\ token # NoToken /\ me.fetch = "idle" /\ me.error # "invalid"
    /\ me' = [me EXCEPT !.fetch = "sent"]
    /\ UNCHANGED <<base, token, selected, invite, login, github, save, accept, joined, ghosts, budget>>

Refused_Ignored == FALSE                                   \* mutant: the effect is missing

Refused == token # NoToken /\ me.error = "invalid"

\* The effect on an invalid authorization.
DropSession ==
    /\ Refused
    /\ ClearAuth(base)
    /\ UNCHANGED <<invite, login, save, accept, joined, ghosts, budget>>

Corrected_Never == selected                                \* mutant: the effect is missing

Corrected == Current

\* The effect that selects a workspace of the list.
CorrectSelection ==
    /\ me.loaded /\ selected # Current
    /\ selected' = Corrected
    /\ UNCHANGED <<base, token, me, invite, login, github, save, accept, joined, ghosts, budget>>

SignOut ==
    /\ SignedIn /\ Spend("out")
    /\ ClearAuth(base)
    /\ arrived' = FALSE
    /\ UNCHANGED <<invite, login, save, accept, joined, wanted>>

SelectWorkspace ==
    /\ SignedIn
    /\ selected' \in me.list
    /\ arrived' = FALSE
    /\ UNCHANGED <<base, token, me, invite, login, github, save, accept, joined, wanted, budget>>

-----------------------------------------------------------------------------
\* Signing in.

Issued_Missing(s) == NoWs               \* mutant: the answer's token is not kept

Issued(s) == <<s, MaxLogin - budget.login>>

\* applyAuthResult with the answer of server s.
ApplyAuth(s) ==
    LET tok == Issued(s)
        join == pending /\ ~accepted
    IN /\ token' = tok /\ me' = MeOf(tok)
       /\ selected' = IF join THEN selected ELSE Personal(s)
       /\ IF join
          THEN /\ ~Accepting
               /\ hash' = "inbox"
               /\ accept' = [accept EXCEPT !["root"] = [pc |-> "sent", token |-> tok, at |-> base]]
          ELSE UNCHANGED <<hash, accept>>
       /\ UNCHANGED <<base, pending, accepted, main, switching>>

SubmitPassword ==
    /\ CanLogin /\ Spend("login")
    /\ login' = [pc |-> "sent", at |-> base]
    /\ UNCHANGED <<shell, invite, github, save, accept, joined, ghosts>>

PasswordAccepted ==
    /\ login.pc = "sent" /\ login.at \in Compatible
    /\ ApplyAuth(login.at)
    /\ login' = Idle
    /\ github' = IF github.pc = "wait" THEN Idle ELSE github
    /\ UNCHANGED <<save, joined, ghosts, budget>>

PasswordRefused ==
    /\ login.pc = "sent"
    /\ login' = Idle
    /\ UNCHANGED <<shell, invite, github, save, accept, joined, ghosts, budget>>

\* Only a configured, compatible server offers GitHub.
StartGitHub ==
    /\ CanLogin /\ token = NoToken /\ base # Home /\ base \in Compatible /\ Spend("login")
    /\ github' = [pc |-> "start", at |-> base]
    /\ UNCHANGED <<shell, invite, login, save, accept, joined, ghosts>>

GitHubStarted ==
    /\ github.pc = "start"
    /\ github' \in {[github EXCEPT !.pc = "wait"], Idle}
    /\ UNCHANGED <<shell, invite, login, save, accept, joined, ghosts, budget>>

\* A poll finds the result, which only the server that made the state has.
GitHubDone ==
    /\ github.pc = "wait" /\ github.at = base
    /\ ApplyAuth(base)
    /\ github' = Idle
    /\ UNCHANGED <<login, save, joined, ghosts, budget>>

-----------------------------------------------------------------------------
\* The address of the server.

SaveServer ==
    /\ CanSave /\ Spend("save")
    /\ \E s \in Servers \ {base} : save' = [pc |-> IF s = Home THEN "set" ELSE "check", url |-> s]
    /\ UNCHANGED <<shell, invite, login, github, accept, joined, ghosts>>

ServerChecked ==
    /\ save.pc = "check"
    /\ save' = IF save.url \in Compatible THEN [save EXCEPT !.pc = "set"] ELSE Idle
    /\ UNCHANGED <<shell, invite, login, github, accept, joined, ghosts, budget>>

\* The main process has stored the address: applyServerConfig.
ServerApplied ==
    /\ save.pc = "set"
    /\ save' = Idle
    /\ ClearAuth(save.url)
    /\ arrived' = FALSE
    /\ UNCHANGED <<invite, login, accept, joined, wanted, budget>>

-----------------------------------------------------------------------------
\* The invitation.

\* updatePendingInviteToken, with the link or the bare token.
UpdateInvite(link, navigate) ==
    /\ accepted' = FALSE /\ main' = "bare"
    /\ IF link /\ Inviter # base
       THEN switching' = TRUE /\ UNCHANGED <<pending, hash>>
       ELSE /\ pending' = ~navigate
            /\ hash' = IF navigate THEN "invite" ELSE "inbox"
            /\ UNCHANGED switching

\* The operating system hands the app a link (or the page has just been loaded
\* and asks the main process for one).
OpenLink ==
    /\ ~switching /\ Spend("link")
    /\ UpdateInvite(TRUE, token # NoToken)
    /\ wanted' = TRUE /\ arrived' = FALSE
    /\ UNCHANGED <<shell, login, github, save, accept, joined>>

\* setServerBaseUrl has answered, or refused because the address is locked.
Switched ==
    /\ switching
    /\ switching' = FALSE /\ pending' = TRUE
    /\ IF Locked THEN UNCHANGED <<shell, github>> ELSE ClearAuth(Inviter)
    /\ UNCHANGED <<accepted, main, hash, login, save, accept, joined, ghosts, budget>>

\* The effect on the token in the route.
InviteEffect ==
    /\ hash = "invite" /\ ~pending /\ token = NoToken
    /\ UpdateInvite(FALSE, FALSE)
    /\ UNCHANGED <<shell, login, github, save, accept, joined, ghosts, budget>>

LeaveInvitePage ==
    /\ hash = "invite" /\ SignedIn
    /\ hash' = "inbox" /\ wanted' = FALSE
    /\ UNCHANGED <<shell, pending, accepted, main, switching, login, github, save, accept, joined, arrived, budget>>

\* canAccept: the preview of the current server says the invitation is pending.
CanAccept == hash = "invite" /\ SignedIn /\ base = Inviter /\ ~joined

PageAccept ==
    /\ CanAccept /\ accept["page"].pc = "idle"
    /\ accept' = [accept EXCEPT !["page"] = [pc |-> "sent", token |-> token, at |-> base]]
    /\ UNCHANGED <<shell, invite, login, github, save, joined, ghosts, budget>>

\* The server accepts a one-time invitation of its own, once.
AcceptServed(by) ==
    /\ accept[by].pc = "sent"
    /\ LET ok == accept[by].at = Inviter /\ Inviter \in Compatible /\ accept[by].token[1] = Inviter /\ ~joined
       IN /\ joined' = (joined \/ ok)
          /\ accept' = [accept EXCEPT ![by].pc = IF ok THEN "joined" ELSE "refused"]
    /\ UNCHANGED <<shell, invite, login, github, save, ghosts, budget>>

\* setQueriesData, then invalidateQueries: a fetch that has data is cancelled
\* and started again, a first fetch in flight is only joined.
MeJoined(by) ==
    IF accept[by].token # token THEN me
    ELSE IF me.loaded THEN [me EXCEPT !.list = @ \cup {Invited}, !.fetch = "sent", !.error = "none"]
    ELSE IF me.fetch # "idle" THEN me
    ELSE [me EXCEPT !.fetch = "sent", !.error = "none"]

\* onSuccess, up to its await.
AcceptJoined(by) ==
    /\ accept[by].pc = "joined"
    /\ selected' = Invited
    /\ me' = MeJoined(by)
    /\ main' = "none"
    /\ IF by = "root" THEN accepted' = TRUE /\ pending' = FALSE ELSE UNCHANGED <<accepted, pending>>
    /\ wanted' = FALSE
    /\ accept' = [accept EXCEPT ![by].pc = "refresh"]
    /\ UNCHANGED <<base, token, hash, switching, login, github, save, joined, arrived, budget>>

\* The rest of onSuccess.
AcceptRefreshed(by) ==
    /\ accept[by].pc = "refresh"
    /\ accept[by].token # token \/ me.fetch = "idle"
    /\ selected' = Invited
    /\ hash' = "inbox"
    /\ arrived' = (accept[by].token = token)
    /\ accept' = [accept EXCEPT ![by] = Idle]
    /\ UNCHANGED <<base, token, me, pending, accepted, main, switching, login, github, save, joined, wanted, budget>>

Returns_Nowhere(by) == hash            \* mutant: the route of the invitation is not restored

Returns(by) == IF by = "root" THEN "invite" ELSE hash

\* onError
AcceptRefused(by) ==
    /\ accept[by].pc = "refused"
    /\ accept' = [accept EXCEPT ![by] = Idle]
    /\ hash' = Returns(by)
    /\ IF by = "root" THEN pending' = FALSE /\ main' = "none" ELSE UNCHANGED <<pending, main>>
    /\ UNCHANGED <<shell, accepted, switching, login, github, save, joined, ghosts, budget>>

-----------------------------------------------------------------------------
AcceptStep(by) == AcceptServed(by) \/ AcceptJoined(by) \/ AcceptRefreshed(by) \/ AcceptRefused(by)

Next ==
    \/ MeServed \/ MeFails \/ MeAnswered \/ Refetch \/ DropSession \/ CorrectSelection
    \/ SignOut \/ SelectWorkspace
    \/ SubmitPassword \/ PasswordAccepted \/ PasswordRefused \/ StartGitHub \/ GitHubStarted \/ GitHubDone
    \/ SaveServer \/ ServerChecked \/ ServerApplied
    \/ OpenLink \/ Switched \/ InviteEffect \/ LeaveInvitePage \/ PageAccept
    \/ \E by \in {"root", "page"} : AcceptStep(by)

Spec == Init /\ [][Next]_vars

\* Requests are answered and effects run.
Fairness ==
    /\ WF_vars(MeServed) /\ WF_vars(MeAnswered)
    /\ WF_vars(DropSession) /\ WF_vars(CorrectSelection) /\ WF_vars(InviteEffect)
    /\ WF_vars(Switched)
    /\ \A by \in {"root", "page"} : WF_vars(AcceptStep(by))

FairSpec == Spec /\ Fairness

-----------------------------------------------------------------------------

\* Every variable has its type.
TypeOK ==
    /\ base \in Servers
    /\ token \in Tokens \cup {NoToken}
    /\ selected \in (Servers \X {"personal", "team"}) \cup {NoWs}
    /\ me.fetch \in {"idle", "sent", "list", "invalid", "failed"} /\ me.loaded \in BOOLEAN
    /\ me.error \in {"none", "invalid", "failed"}
    /\ {pending, accepted, switching, joined, wanted, arrived} \subseteq BOOLEAN
    /\ main \in {"none", "bare"} /\ hash \in {"inbox", "invite"}
    /\ login.pc \in {"idle", "sent"} /\ github.pc \in {"idle", "start", "wait"}
    /\ save.pc \in {"idle", "check", "set"}
    /\ \A by \in DOMAIN accept : accept[by].pc \in {"idle", "sent", "joined", "refused", "refresh"}

\* What the pages are given belongs together: a list of workspaces is shown only
\* with the address and the account it was fetched from, whatever logins, links
\* and changes of the address overtake one another.
ShownTogether == me.loaded => token # NoToken /\ token[1] = base /\ \A w \in me.list : w[1] = base

\* A link the user opened is not forgotten: until it is accepted, or the user
\* leaves its page, the renderer holds the token, is on its page, is changing
\* the server for it or is accepting it.
InviteKept == wanted /\ ~joined => pending \/ hash = "invite" \/ switching \/ Accepting

\* After an acceptance the invited workspace is the current one.
OpensInvited == arrived /\ me.loaded => Current = Invited

\* The address changes only to a server whose health has been checked.
ChecksServer == base # Home => base \in Compatible
=============================================================================
