-------------------------------- MODULE Inbox --------------------------------
(***************************************************************************)
(* The workspace inbox: issue events and the receipts of their readers in  *)
(* the stores (server/internal/control), and the page that lists them and  *)
(* marks what was opened (packages/views/src/inbox-page.tsx).              *)
(*                                                                         *)
(* The in-memory store writes the instant of an event as text and compares *)
(* the texts; Postgres compares instants, which are those at which the     *)
(* transactions began.  No code of the repository adds watchers, and fewer *)
(* than a hundred issues have unread events, so neither is modelled.       *)
(***************************************************************************)
EXTENDS Integers, Sequences, FiniteSets

CONSTANTS
    None,           \* no actor
    Users, Issues,  \* members of the workspace, and its issues
    Database,       \* the store is Postgres
    Team,           \* the workspace is a team workspace
    Instants,       \* bound: when events are created, in hundredths of one second
    Does,           \* what happens besides the page: "change", "refused", "read one"
    MaxFails        \* bound: requests of the page that fail

\* What the constants must satisfy.
InboxAssumption ==
    /\ None \notin Users
    /\ Database \in BOOLEAN /\ Team \in BOOLEAN
    /\ Instants \subseteq 0..99 /\ MaxFails \in Nat
    /\ Does \subseteq {"change", "refused", "read one"}

VARIABLES
    changed,    \* history: issues that were changed since they were created
    events,     \* issue events: the n-th to begin, with the readers of its receipts
    unread,     \* unread[u]: events with an unread receipt of u
    listing,    \* listing[u]: the answer that is on its way to u's page
    page,       \* page[u]: the entries u's page shows, one for an issue
    clicks,     \* read-through requests on their way
    fails,      \* requests that have failed
    appeared,   \* history: appeared[u]: events counted by an entry u's page has shown
    cleared     \* history: cleared[u]: events that u's read-through requests marked

store == <<changed, events, unread, cleared>>
client == <<listing, page, appeared>>
vars == <<store, client, clicks, fails>>

\* "begun" until its transaction commits; "vain" if it was refused.
Event == [issue : Issues, at : Instants, to : SUBSET Users, state : {"begun", "written", "vain"}]
Entry(e, counted) == [issue |-> events[e].issue, event |-> e, counted |-> counted]

TypeOK ==
    /\ changed \subseteq Issues
    /\ events \in Seq(Event)
    /\ \A u \in Users : unread[u] \cup cleared[u] \subseteq DOMAIN events
    /\ \A u \in Users : \A d \in page[u] \cup UNION listing[u] :
         d.event \in d.counted /\ \A e \in d.counted : events[e].issue = d.issue
    /\ \A u \in Users : Cardinality(listing[u]) <= 1
    /\ \A r \in clicks : r.user \in Users
    /\ fails \in 0..MaxFails

Init ==
    /\ changed = {} /\ events = <<>> /\ clicks = {} /\ fails = 0
    /\ unread = [u \in Users |-> {}] /\ cleared = unread
    /\ listing = unread /\ page = unread /\ appeared = unread

-----------------------------------------------------------------------------
\* Instants.

\* RFC 3339 with nanoseconds: the fraction loses its trailing zeros, then its dot.
Dot == -1
Zulu == 10
Text(n) == CASE n = 0      -> <<Zulu>>
             [] n % 10 = 0 -> <<Dot, n \div 10, Zulu>>
             [] OTHER      -> <<Dot, n \div 10, n % 10, Zulu>>

TextLater(s, t) ==
    \E k \in DOMAIN s \cap DOMAIN t : s[k] > t[k] /\ \A j \in 1..k-1 : s[j] = t[j]

After(a, b) == IF Database THEN a > b ELSE TextLater(Text(a), Text(b))
Later(d, e) ==
    \/ After(events[d].at, events[e].at)
    \/ events[d].at = events[e].at /\ d > e

-----------------------------------------------------------------------------
\* The stores.  Events are posted by integrations, through the API.

Written == {e \in DOMAIN events : events[e].state = "written"}

\* The given recipients or else all members, never the actor.
Recipients(given, actor) == (IF given = {} THEN Users ELSE given) \ {actor}

Now(at) == at \in Instants /\ \A e \in DOMAIN events : events[e].at < at

Delivered(e, to) == unread' = [u \in Users |-> IF u \in to THEN unread[u] \cup {e} ELSE unread[u]]

CreateIssueEvent(i, given, actor, at) ==
    LET to == Recipients(given, actor) IN
    /\ Now(at)
    /\ events' = Append(events, [issue |-> i, at |-> at, to |-> to,
                                 state |-> IF Database THEN "begun" ELSE "written"])
    /\ IF Database THEN UNCHANGED unread ELSE Delivered(Len(events'), to)
    /\ UNCHANGED <<changed, cleared, client, clicks, fails>>

CommitIssueEvent(e) ==
    /\ events[e].state = "begun"
    /\ events' = [events EXCEPT ![e].state = "written"]
    /\ Delivered(e, events[e].to)
    /\ UNCHANGED <<changed, cleared, client, clicks, fails>>

\* One recipient is no member: the in-memory store has written the event by then.
RefuseIssueEvent(i, at) ==
    /\ "refused" \in Does
    /\ Now(at)
    /\ events' = Append(events, [issue |-> i, at |-> at, to |-> {},
                                 state |-> IF Database THEN "vain" ELSE "written"])
    /\ UNCHANGED <<changed, unread, cleared, client, clicks, fails>>

\* What the product itself does to an issue: its handlers post no events.
UpdateIssue(i) ==
    /\ "change" \in Does
    /\ changed' = changed \cup {i}
    /\ UNCHANGED <<events, unread, cleared, client, clicks, fails>>

UnreadOf(u, i) == {e \in unread[u] : events[e].issue = i}

Latest_Any(u, i) ==             \* mutant: the issue's latest event, read or not
    {e \in Written : events[e].issue = i /\ UnreadOf(u, i) # {}
                       /\ \A d \in Written \ {e} : events[d].issue = i => Later(e, d)}

Latest_Written(u, i) ==         \* mutant: the issue's latest event, if that is unread
    {e \in UnreadOf(u, i) : \A d \in Written \ {e} : events[d].issue = i => Later(e, d)}

Latest(u, i) == {e \in UnreadOf(u, i) : \A d \in UnreadOf(u, i) \ {e} : Later(e, d)}

ListInbox(u) == UNION {{Entry(e, UnreadOf(u, i)) : e \in Latest(u, i)} : i \in Issues}

\* The in-memory store keeps the inbox for team workspaces.
Listed == Team \/ Database

MarkIssueEventRead(u, e) ==
    /\ "read one" \in Does
    /\ e \in unread[u]
    /\ unread' = [unread EXCEPT ![u] = @ \ {e}]
    /\ UNCHANGED <<changed, events, cleared, client, clicks, fails>>

Marked_Before(r) ==             \* mutant: the boundary itself is left out
    {e \in UnreadOf(r.user, r.issue) : After(events[r.event].at, events[e].at)}
Marked_All(r) == UnreadOf(r.user, r.issue)      \* mutant: the boundary is ignored

Marked(r) == {e \in UnreadOf(r.user, r.issue) : ~After(events[e].at, events[r.event].at)}

MarkIssueReadThrough(r) ==
    /\ unread' = [unread EXCEPT ![r.user] = @ \ Marked(r)]
    /\ cleared' = [cleared EXCEPT ![r.user] = @ \cup Marked(r)]
    /\ clicks' = clicks \ {r}
    /\ UNCHANGED <<changed, events, client, fails>>

-----------------------------------------------------------------------------
\* The page.

\* It asks every five seconds and after a click; a new request replaces the old one.
Poll(u) ==
    /\ Listed
    /\ listing' = [listing EXCEPT ![u] = {ListInbox(u)}]
    /\ UNCHANGED <<store, page, appeared, clicks, fails>>

Show(u) ==
    /\ \E list \in listing[u] :
         /\ page' = [page EXCEPT ![u] = list]
         /\ appeared' = [appeared EXCEPT ![u] = @ \cup UNION {d.counted : d \in list}]
    /\ listing' = [listing EXCEPT ![u] = {}]
    /\ UNCHANGED <<store, clicks, fails>>

\* Opening an entry's issue marks the events up to the one the entry names.
Open(u, d) ==
    /\ clicks' = clicks \cup {[user |-> u, issue |-> d.issue, event |-> d.event, counted |-> d.counted]}
    /\ UNCHANGED <<store, client, fails>>

Lose(r) ==
    /\ fails < MaxFails
    /\ fails' = fails + 1
    /\ clicks' = clicks \ {r}
    /\ UNCHANGED <<store, client>>

-----------------------------------------------------------------------------

Stores ==
    \/ \E i \in Issues, given \in SUBSET Users, actor \in Users \cup {None}, at \in Instants :
         CreateIssueEvent(i, given, actor, at)
    \/ \E e \in DOMAIN events : CommitIssueEvent(e)
    \/ \E i \in Issues, at \in Instants : RefuseIssueEvent(i, at)
    \/ \E i \in Issues : UpdateIssue(i)
    \/ \E u \in Users, e \in DOMAIN events : MarkIssueEventRead(u, e)
    \/ \E r \in clicks : MarkIssueReadThrough(r)

Pages ==
    \/ \E u \in Users : Poll(u) \/ Show(u) \/ \E d \in page[u] : Open(u, d)
    \/ \E r \in clicks : Lose(r)

Next == Stores \/ Pages

Spec == Init /\ [][Next]_vars

(* An open page keeps polling, an answer reaches it before the next        *)
(* request replaces it, and transactions end.                              *)
FairSpec ==
    /\ Spec
    /\ \A u \in Users : WF_vars(Poll(u)) /\ WF_vars(Show(u))
    /\ \A e \in 1..Cardinality(Instants) : WF_vars(e \in DOMAIN events /\ CommitIssueEvent(e))

-----------------------------------------------------------------------------
\* Properties.

(* What opening an entry marked as read had appeared in the reader's inbox *)
(* before (src/docs/ia.md:130, "Inbox is where unread issue updates appear *)
(* for review"): the boundary keeps what came after the list was read.     *)
ReadHadAppeared == \A u \in Users : cleared[u] \subseteq appeared[u]

(* Opening an entry marks all the events that the entry counted: the list  *)
(* and the boundary order the events alike.                                *)
OpenedIsRead ==
    [][\A r \in clicks \ clicks' : fails' = fails => r.counted \cap unread'[r.user] = {}]_vars

(* Every unread event appears in its reader's inbox, whatever is read and  *)
(* posted beside it.                                                       *)
UnreadAppears ==
    \A u \in Users, e \in 1..Cardinality(Instants) :
      e \in unread[u] ~> e \in appeared[u] \/ e \notin unread[u]

(* A changed issue has an event its readers can review                     *)
(* (src/docs/product.md:156).                                              *)
ChangesAreWritten == \A i \in changed : \E e \in DOMAIN events : events[e].issue = i
=============================================================================
