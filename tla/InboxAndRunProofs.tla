-------------------------- MODULE InboxAndRunProofs --------------------------
(***************************************************************************)
(* Of the inbox (the module Inbox): in the in-memory store, while the      *)
(* texts of instants sort as the instants do, opening an entry marks       *)
(* nothing that has not appeared.  And what the server keeps true of a     *)
(* test run (Run), for any number of items, batches, users and retries,    *)
(* and whatever pages press late.                                          *)
(***************************************************************************)
EXTENDS Inbox, FiniteSetTheorems, FunctionTheorems, SequenceTheorems, TLAPS

CONSTANTS Items, Batches, BatchOf, Buttons, MaxSessions

VARIABLES status, setup, review, item, sessions, strayed, online, runPage, calls

Run == INSTANCE TestRun WITH page <- runPage

(* Fractions that end in zero are what the second condition excludes.      *)
Ordered ==
    /\ ~Database
    /\ \A a, b \in Instants : TextLater(Text(a), Text(b)) <=> a > b

(* What is unread of the entry's issue came later or is counted by it.     *)
Bounds(u, d) ==
    /\ d.event \in DOMAIN events
    /\ \A e \in UnreadOf(u, d.issue) : events[e].at > events[d.event].at \/ e \in d.counted

ReceiptsOK ==
    /\ events \in Seq(Event) /\ \A e \in DOMAIN events : events[e].state # "begun"
    /\ unread \in [Users -> SUBSET DOMAIN events]
    /\ cleared \in [Users -> SUBSET DOMAIN events]

PagesOK ==
    /\ listing \in [Users -> SUBSET SUBSET [issue : Issues, event : Nat, counted : SUBSET Nat]]
    /\ page \in [Users -> SUBSET [issue : Issues, event : Nat, counted : SUBSET Nat]]
    /\ appeared \in [Users -> SUBSET Nat]
    /\ clicks \subseteq [user : Users, issue : Issues, event : Nat, counted : SUBSET Nat]

EntriesOK ==
    /\ \A u \in Users : \A list \in listing[u] : \A d \in list : Bounds(u, d)
    /\ \A u \in Users : \A d \in page[u] : Bounds(u, d) /\ d.counted \subseteq appeared[u]
    /\ \A r \in clicks : Bounds(r.user, r) /\ r.counted \subseteq appeared[r.user]

InboxInv == ReceiptsOK /\ PagesOK /\ EntriesOK /\ ReadHadAppeared

-----------------------------------------------------------------------------

(* Events are counted from one, and created at an instant.                 *)
LEMMA EventTypes ==
    ASSUME ReceiptsOK
    PROVE  DOMAIN events \subseteq Nat /\ \A e \in DOMAIN events : events[e].at \in Instants
<1>1. events \in Seq(Event)
  BY DEF ReceiptsOK
<1>2. DOMAIN events = 1..Len(events) /\ Len(events) \in Nat
  BY <1>1
<1>3. \A e \in DOMAIN events : events[e] \in Event
  BY <1>1
<1> QED BY <1>2, <1>3 DEF Event

(* Receipts that are marked leave every entry its bound.                   *)
LEMMA FewerUnread ==
    ASSUME InboxInv, UNCHANGED <<events, client>>, clicks' \subseteq clicks,
           unread' \in [Users -> SUBSET DOMAIN events],
           \A u \in Users : unread'[u] \subseteq unread[u]
    PROVE  EntriesOK'
<1>1. \A u \in Users, i \in Issues : UnreadOf(u, i)' \subseteq UnreadOf(u, i)
  BY DEF UnreadOf
<1>2. ASSUME NEW u \in Users, NEW d, d.issue \in Issues, Bounds(u, d) PROVE Bounds(u, d)'
  BY <1>1, <1>2 DEF Bounds
<1>3. \A u \in Users : \A list \in listing[u] : \A d \in list : Bounds(u, d)'
  BY <1>2 DEF InboxInv, PagesOK, EntriesOK
<1>4. \A u \in Users : \A d \in page[u] : Bounds(u, d)'
  BY <1>2 DEF InboxInv, PagesOK, EntriesOK
<1>5. \A r \in clicks : Bounds(r.user, r)'
  BY <1>2 DEF InboxInv, PagesOK, EntriesOK
<1> QED
  BY <1>3, <1>4, <1>5 DEF InboxInv, EntriesOK, client

(* An event that is written later than all others leaves it too.           *)
LEMMA AnotherEvent ==
    ASSUME InboxInv, NEW i \in Issues, NEW at \in Instants, NEW to \in SUBSET Users, Now(at),
           Instants \subseteq Nat,
           events' = Append(events, [issue |-> i, at |-> at, to |-> to, state |-> "written"]),
           \A u \in Users : unread'[u] \subseteq unread[u] \cup {Len(events')},
           UNCHANGED <<client, clicks>>
    PROVE  /\ EntriesOK' /\ events' \in Seq(Event)
           /\ \A e \in DOMAIN events' : events'[e].state # "begun"
           /\ DOMAIN events \subseteq DOMAIN events' /\ Len(events') \in DOMAIN events'
<1> DEFINE new == Len(events')
<1>1. /\ events' \in Seq(Event) /\ DOMAIN events \subseteq DOMAIN events' /\ new \in DOMAIN events'
      /\ \A e \in DOMAIN events : events'[e] = events[e]
      /\ events'[new].at = at
      /\ \A e \in DOMAIN events' : events'[e].state # "begun"
  BY DEF InboxInv, ReceiptsOK, Event
<1>2. \A e \in DOMAIN events : at > events[e].at
  <2> SUFFICES ASSUME NEW e \in DOMAIN events PROVE at > events[e].at
    OBVIOUS
  <2>1. events[e].at < at
    BY DEF Now
  <2>2. events[e].at \in Instants
    BY EventTypes DEF InboxInv
  <2> QED BY <2>1, <2>2
<1>3. ASSUME NEW u \in Users, NEW d, Bounds(u, d) PROVE Bounds(u, d)'
  <2>1. d.event \in DOMAIN events'
    BY <1>1, <1>3 DEF Bounds
  <2>2. ASSUME NEW e \in UnreadOf(u, d.issue)'
        PROVE  events'[e].at > events'[d.event].at \/ e \in d.counted
    <3>1. CASE e = new
      BY <3>1, <1>1, <1>2, <1>3 DEF Bounds
    <3>2. CASE e # new
      <4>1. e \in unread[u] /\ e \in DOMAIN events
        BY <2>2, <3>2 DEF UnreadOf, InboxInv, ReceiptsOK
      <4>2. e \in UnreadOf(u, d.issue)
        BY <2>2, <4>1, <1>1 DEF UnreadOf
      <4> QED BY <4>1, <4>2, <1>1, <1>3 DEF Bounds
    <3> QED BY <3>1, <3>2
  <2> QED BY <2>1, <2>2 DEF Bounds
<1>4. \A u \in Users : \A list \in listing[u] : \A d \in list : Bounds(u, d)'
  BY <1>3 DEF InboxInv, EntriesOK
<1>5. \A u \in Users : \A d \in page[u] : Bounds(u, d)'
  BY <1>3 DEF InboxInv, EntriesOK
<1>6. \A r \in clicks : Bounds(r.user, r)'
  BY <1>3 DEF InboxInv, EntriesOK, PagesOK
<1> QED
  BY <1>1, <1>4, <1>5, <1>6 DEF InboxInv, EntriesOK, client

-----------------------------------------------------------------------------

(* Every step keeps the invariant: one case for each action.               *)
LEMMA InboxStep ==
    ASSUME InboxAssumption, Ordered, InboxInv, [Next]_vars
    PROVE  InboxInv'
<1>n. Instants \subseteq Nat
  <2>1. Instants \subseteq 0..99
    BY DEF InboxAssumption
  <2> QED BY <2>1
<1>1. ASSUME NEW i \in Issues, NEW given \in SUBSET Users, NEW actor \in Users \cup {None},
             NEW at \in Instants, CreateIssueEvent(i, given, actor, at)
      PROVE  InboxInv'
  <2> DEFINE to == Recipients(given, actor)
  <2>0. to \in SUBSET Users
    BY DEF Recipients
  <2>1. /\ events' = Append(events, [issue |-> i, at |-> at, to |-> to, state |-> "written"])
        /\ Delivered(Len(events'), to) /\ Now(at)
        /\ UNCHANGED <<cleared, client, clicks>>
    BY <1>1 DEF CreateIssueEvent, Ordered
  <2>2. \A u \in Users : unread'[u] \subseteq unread[u] \cup {Len(events')}
    BY <2>1 DEF Delivered
  <2>3. /\ EntriesOK' /\ events' \in Seq(Event)
        /\ \A e \in DOMAIN events' : events'[e].state # "begun"
        /\ DOMAIN events \subseteq DOMAIN events' /\ Len(events') \in DOMAIN events'
    BY <2>0, <2>1, <2>2, <1>n, AnotherEvent
  <2>4. ReceiptsOK'
    BY <2>1, <2>2, <2>3 DEF ReceiptsOK, Delivered, InboxInv
  <2> QED BY <2>1, <2>3, <2>4 DEF InboxInv, PagesOK, client, ReadHadAppeared
<1>2. ASSUME NEW e \in DOMAIN events, CommitIssueEvent(e) PROVE InboxInv'
  <2>1. events[e].state = "begun"
    BY <1>2 DEF CommitIssueEvent
  <2> QED BY <2>1 DEF InboxInv, ReceiptsOK
<1>3. ASSUME NEW i \in Issues, NEW at \in Instants, RefuseIssueEvent(i, at) PROVE InboxInv'
  <2>1. /\ events' = Append(events, [issue |-> i, at |-> at, to |-> {}, state |-> "written"])
        /\ Now(at) /\ UNCHANGED <<unread, cleared, client, clicks>>
    BY <1>3 DEF RefuseIssueEvent, Ordered
  <2>2. /\ EntriesOK' /\ events' \in Seq(Event)
        /\ \A e \in DOMAIN events' : events'[e].state # "begun"
        /\ DOMAIN events \subseteq DOMAIN events'
    <3>1. {} \in SUBSET Users /\ \A u \in Users : unread'[u] \subseteq unread[u] \cup {Len(events')}
      BY <2>1
    <3> QED BY <2>1, <3>1, <1>n, AnotherEvent
  <2>3. ReceiptsOK'
    BY <2>1, <2>2 DEF ReceiptsOK, InboxInv
  <2> QED BY <2>1, <2>2, <2>3 DEF InboxInv, PagesOK, client, ReadHadAppeared
<1>4. ASSUME NEW i \in Issues, UpdateIssue(i) PROVE InboxInv'
  BY <1>4 DEF UpdateIssue, InboxInv, ReceiptsOK, PagesOK, EntriesOK, Bounds, UnreadOf,
              ReadHadAppeared, client
<1>5. ASSUME NEW u \in Users, NEW e \in DOMAIN events, MarkIssueEventRead(u, e) PROVE InboxInv'
  <2>1. /\ unread' \in [Users -> SUBSET DOMAIN events]
        /\ \A v \in Users : unread'[v] \subseteq unread[v]
    BY <1>5 DEF MarkIssueEventRead, InboxInv, ReceiptsOK
  <2>2. UNCHANGED <<events, cleared, client, clicks>>
    BY <1>5 DEF MarkIssueEventRead
  <2>3. EntriesOK'
    BY <2>1, <2>2, FewerUnread
  <2> QED BY <2>1, <2>2, <2>3 DEF InboxInv, ReceiptsOK, PagesOK, client, ReadHadAppeared
<1>6. ASSUME NEW r \in clicks, MarkIssueReadThrough(r) PROVE InboxInv'
  <2>1. UNCHANGED <<events, client>> /\ clicks' \subseteq clicks
    BY <1>6 DEF MarkIssueReadThrough
  <2>2. r.user \in Users /\ Marked(r) \subseteq unread[r.user]
    BY DEF InboxInv, PagesOK, Marked, UnreadOf
  <2>3. /\ unread' \in [Users -> SUBSET DOMAIN events]
        /\ \A v \in Users : unread'[v] \subseteq unread[v]
    BY <1>6 DEF MarkIssueReadThrough, InboxInv, ReceiptsOK
  <2>4. EntriesOK'
    BY <2>1, <2>3, FewerUnread
  <2>5. Marked(r) \subseteq r.counted
    <3> SUFFICES ASSUME NEW e \in Marked(r) PROVE e \in r.counted
      OBVIOUS
    <3>1. e \in UnreadOf(r.user, r.issue) /\ ~After(events[e].at, events[r.event].at)
      BY DEF Marked
    <3>2. Bounds(r.user, r)
      BY DEF InboxInv, EntriesOK
    <3>3. e \in DOMAIN events /\ r.event \in DOMAIN events
      BY <3>1, <3>2, <2>2 DEF UnreadOf, Bounds, InboxInv, ReceiptsOK
    <3>4. events[e].at \in Instants /\ events[r.event].at \in Instants
      BY <3>3, EventTypes DEF InboxInv
    <3>5. ~(events[e].at > events[r.event].at)
      BY <3>1, <3>4 DEF After, Ordered
    <3> QED BY <3>1, <3>2, <3>5 DEF Bounds
  <2>6. r.counted \subseteq appeared[r.user]
    BY DEF InboxInv, EntriesOK
  <2>7. ReadHadAppeared' /\ cleared' \in [Users -> SUBSET DOMAIN events]
    BY <1>6, <2>1, <2>2, <2>5, <2>6 DEF MarkIssueReadThrough, InboxInv, ReceiptsOK,
                                        ReadHadAppeared, client
  <2> QED BY <2>1, <2>3, <2>4, <2>7 DEF InboxInv, ReceiptsOK, PagesOK, client
<1>7. ASSUME NEW u \in Users, Poll(u) PROVE InboxInv'
  <2>1. UNCHANGED <<events, unread, cleared, page, appeared, clicks>>
        /\ listing' = [listing EXCEPT ![u] = {ListInbox(u)}]
    BY <1>7 DEF Poll, store
  <2>2. ASSUME NEW d \in ListInbox(u)
        PROVE  d \in [issue : Issues, event : Nat, counted : SUBSET Nat] /\ Bounds(u, d)
    <3>0. PICK i \in Issues : d \in {Entry(e, UnreadOf(u, i)) : e \in Latest(u, i)}
      BY <2>2 DEF ListInbox
    <3>1. PICK e \in Latest(u, i) : d = Entry(e, UnreadOf(u, i))
      BY <3>0
    <3>2. e \in UnreadOf(u, i) /\ UnreadOf(u, i) \subseteq DOMAIN events /\ events[e].issue = i
      BY <3>1 DEF Latest, UnreadOf, InboxInv, ReceiptsOK
    <3>3. DOMAIN events \subseteq Nat
      BY EventTypes DEF InboxInv
    <3> QED BY <3>1, <3>2, <3>3 DEF Entry, Bounds
  <2>3. PagesOK'
    BY <2>1, <2>2 DEF InboxInv, PagesOK
  <2>4. ASSUME NEW v \in Users, NEW list \in listing'[v], NEW d \in list PROVE Bounds(v, d)
    <3>1. CASE v = u
      BY <2>1, <2>2, <3>1 DEF InboxInv, PagesOK
    <3>2. CASE v # u
      BY <2>1, <3>2 DEF InboxInv, PagesOK, EntriesOK
    <3> QED BY <3>1, <3>2
  <2>5. EntriesOK'
    BY <2>1, <2>4 DEF InboxInv, EntriesOK, Bounds, UnreadOf
  <2> QED BY <2>1, <2>3, <2>5 DEF InboxInv, ReceiptsOK, ReadHadAppeared
<1>8. ASSUME NEW u \in Users, Show(u) PROVE InboxInv'
  <2>1. PICK list \in listing[u] :
          /\ page' = [page EXCEPT ![u] = list]
          /\ appeared' = [appeared EXCEPT ![u] = @ \cup UNION {d.counted : d \in list}]
    BY <1>8 DEF Show
  <2>2. UNCHANGED <<events, unread, cleared, clicks>> /\ listing' = [listing EXCEPT ![u] = {}]
    BY <1>8 DEF Show, store
  <2>3. list \in SUBSET [issue : Issues, event : Nat, counted : SUBSET Nat]
    BY DEF InboxInv, PagesOK
  <2>a. appeared' \in [Users -> SUBSET Nat]
    <3>1. UNION {d.counted : d \in list} \in SUBSET Nat
      BY <2>3
    <3>2. appeared \in [Users -> SUBSET Nat]
      BY DEF InboxInv, PagesOK
    <3> QED BY <2>1, <3>1, <3>2
  <2>4. PagesOK'
    BY <2>1, <2>2, <2>3, <2>a DEF InboxInv, PagesOK
  <2>5. \A v \in Users : appeared[v] \subseteq appeared'[v]
    BY <2>1 DEF InboxInv, PagesOK
  <2>6. ASSUME NEW v \in Users, NEW d \in page'[v]
        PROVE  Bounds(v, d) /\ d.counted \subseteq appeared'[v]
    <3>1. CASE v = u
      <4>1. d \in list /\ appeared'[v] = appeared[u] \cup UNION {c.counted : c \in list}
        BY <2>1, <2>6, <3>1 DEF InboxInv, PagesOK
      <4>2. Bounds(v, d)
        BY <4>1, <3>1 DEF InboxInv, EntriesOK
      <4> QED BY <4>1, <4>2
    <3>2. CASE v # u
      BY <2>1, <2>5, <2>6, <3>2 DEF InboxInv, PagesOK, EntriesOK
    <3> QED BY <3>1, <3>2
  <2>7. \A v \in Users : listing'[v] \subseteq listing[v]
    BY <2>2 DEF InboxInv, PagesOK
  <2>8. EntriesOK'
    <3>1. \A r \in clicks : r.user \in Users
      BY DEF InboxInv, PagesOK
    <3> QED BY <2>2, <2>5, <2>6, <2>7, <3>1 DEF InboxInv, EntriesOK, Bounds, UnreadOf
  <2> QED BY <2>2, <2>4, <2>5, <2>8 DEF InboxInv, ReceiptsOK, ReadHadAppeared
<1>9. ASSUME NEW u \in Users, NEW d \in page[u], Open(u, d) PROVE InboxInv'
  <2> DEFINE r == [user |-> u, issue |-> d.issue, event |-> d.event, counted |-> d.counted]
  <2>1. UNCHANGED <<events, unread, cleared, client>> /\ clicks' = clicks \cup {r}
    BY <1>9 DEF Open, store
  <2>2. d \in [issue : Issues, event : Nat, counted : SUBSET Nat]
        /\ Bounds(u, d) /\ d.counted \subseteq appeared[u]
    BY DEF InboxInv, PagesOK, EntriesOK
  <2>3. PagesOK'
    <3>1. r \in [user : Users, issue : Issues, event : Nat, counted : SUBSET Nat]
      BY <2>2
    <3> QED BY <2>1, <3>1 DEF InboxInv, PagesOK, client
  <2>4. Bounds(r.user, r) /\ r.counted \subseteq appeared[r.user]
    BY <2>2 DEF Bounds
  <2>5. EntriesOK'
    BY <2>1, <2>4 DEF InboxInv, EntriesOK, Bounds, UnreadOf, client
  <2> QED BY <2>1, <2>3, <2>5 DEF InboxInv, ReceiptsOK, ReadHadAppeared, client
<1>10. ASSUME NEW r \in clicks, Lose(r) PROVE InboxInv'
  BY <1>10 DEF Lose, store, client, InboxInv, ReceiptsOK, PagesOK, EntriesOK, Bounds, UnreadOf,
               ReadHadAppeared
<1>11. CASE UNCHANGED vars
  BY <1>11 DEF vars, store, client, InboxInv, ReceiptsOK, PagesOK, EntriesOK, Bounds, UnreadOf,
               ReadHadAppeared
<1> QED
  BY <1>1, <1>2, <1>3, <1>4, <1>5, <1>6, <1>7, <1>8, <1>9, <1>10, <1>11 DEF Next, Stores, Pages

(* In the in-memory store, for any readers, issues and number of events,   *)
(* what is marked as read had appeared, as long as text keeps the order of *)
(* instants.                                                               *)
THEOREM OpenedHadAppeared ==
    ASSUME InboxAssumption, Ordered
    PROVE  Spec => []ReadHadAppeared
<1>1. Init => InboxInv
  BY DEF Init, InboxInv, ReceiptsOK, PagesOK, EntriesOK, ReadHadAppeared
<1>2. InboxInv /\ [Next]_vars => InboxInv'
  BY InboxStep
<1>3. InboxInv => ReadHadAppeared
  BY DEF InboxInv
<1> QED
  BY <1>1, <1>2, <1>3, PTL DEF Spec

-----------------------------------------------------------------------------
(* The test run.                                                           *)

(* TestRun counts with the operator of FiniteSets.                         *)
LEMMA RunCounts ==
  ASSUME NEW S
  PROVE  Run!Cardinality(S) = Cardinality(S) /\ (Run!IsFiniteSet(S) <=> IsFiniteSet(S))
BY DEF Cardinality, Run!Cardinality, IsFiniteSet, Run!IsFiniteSet

Session == [batch: Batches \cup {0}, state: {"active", "over"}]
ItemState == [status: Run!Final \cup {"queued", "running"}, session: 0 .. MaxSessions]
Types(items, base) ==
  /\ items \in [Items -> ItemState]
  /\ base \in Seq(Session) /\ Len(base) <= MaxSessions

(* An item waits without a session or is with one of its own batch, and    *)
(* one that was cancelled is with none that goes on.                       *)
WaitingOrWithin(items, base) == \A i \in Items:
  /\ items[i].session <= Len(base)
  /\ items[i].status = "queued" => items[i].session = 0
  /\ items[i].status = "running" => /\ items[i].session \in DOMAIN base
                                    /\ base[items[i].session].batch = BatchOf[i]
  /\ items[i].status = "cancelled" /\ items[i].session # 0 => base[items[i].session].state # "active"

(* But for the batches in stray: beside an item that waits none may be     *)
(* retried; who is at work has an item, and beside it none waits or may be *)
(* retried; and no two are at work.                                        *)
Waits(items, stray) == \A i, j \in Items:
  BatchOf[i] = BatchOf[j] /\ BatchOf[i] \notin stray /\ items[i].status = "queued" =>
    items[j].status \notin Run!Retriable
AtWork(base, k, stray) == k \in DOMAIN base /\ base[k].state = "active" /\ base[k].batch \notin stray
Busy(items, base, stray) == \A k \in DOMAIN base: AtWork(base, k, stray) /\ base[k].batch # 0 =>
  /\ \E i \in Items: items[i].session = k /\ items[i].status \notin Run!Final
  /\ \A i \in Items: BatchOf[i] = base[k].batch => items[i].status \notin Run!Retriable \cup {"queued"}
Alone(base, stray) == \A k, l \in DOMAIN base:
  AtWork(base, k, stray) /\ AtWork(base, l, stray) /\ base[k].batch = base[l].batch => k = l
Good(items, base, stray) ==
  WaitingOrWithin(items, base) /\ Waits(items, stray) /\ Busy(items, base, stray) /\ Alone(base, stray)

(* While the setup is at work everything waits for it.                     *)
SetupFirst == strayed = {} /\ (\E k \in DOMAIN sessions: sessions[k] = [batch |-> 0, state |-> "active"]) =>
  \A i \in Items: item[i].status = "queued"

(* The types of what is not in Types.                                      *)
Labels ==
  /\ status \in Run!RunStatuses
  /\ setup \in {"not_required", "running", "passed", "failed", "cancelled"}
  /\ review \in {"pending"} \cup Run!Reviews
  /\ online \subseteq Batches /\ strayed \subseteq Batches
  /\ runPage \in [Users -> SUBSET Buttons]
  /\ calls \in [Users -> SUBSET Buttons]

Stopped == status = "cancelled" =>
  /\ Run!Settled(item)
  /\ \A k \in DOMAIN sessions: sessions[k].state = "active" => sessions[k].batch \in strayed

(* The inductive invariant.                                                *)
RunInv == /\ Labels /\ Types(item, sessions) /\ Good(item, sessions, strayed)
          /\ SetupFirst /\ Run!ReviewedWhole /\ Stopped

LEMMA RunTypes == RunInv => Run!TypeOK
BY DEF RunInv, Labels, Types, Session, ItemState, Run!TypeOK

(* What a session can report on runs, and is of its batch.                 *)
LEMMA MineRuns ==
  ASSUME Types(item, sessions), Good(item, sessions, strayed), NEW k \in DOMAIN sessions, NEW i \in Run!Mine(k)
  PROVE  i \in Items /\ item[i].session = k /\ item[i].status = "running" /\ BatchOf[i] = sessions[k].batch
<1>1. sessions \in Seq(Session) /\ item \in [Items -> ItemState]
  BY DEF Types
<1>2. k # 0 /\ i \in Items /\ item[i].session = k /\ item[i].status \notin Run!Final
  BY <1>1 DEF Run!Mine, Run!Open
<1>3. item[i].status \in {"queued", "running"}
  BY <1>1, <1>2 DEF ItemState
<1> QED
  BY <1>2, <1>3 DEF Good, WaitingOrWithin

-----------------------------------------------------------------------------
(* Numbering the batches that start.                                       *)

(* Rank numbers a finite set of naturals from 1, without gaps.             *)
LEMMA RankNumbers ==
  ASSUME NEW S \in SUBSET Nat, IsFiniteSet(S)
  PROVE  /\ Cardinality(S) \in Nat
         /\ \A b \in S: Run!Rank(b, S) \in 1 .. Cardinality(S)
         /\ \A b, c \in S: Run!Rank(b, S) = Run!Rank(c, S) => b = c
         /\ \A k \in 1 .. Cardinality(S): \E b \in S: Run!Rank(b, S) = k
<1> DEFINE Below(b) == {c \in S: c <= b}
           f == [b \in S |-> Run!Rank(b, S)]
<1>0. \A b : Run!Rank(b, S) = Cardinality(Below(b))
  BY RunCounts DEF Run!Rank
<1>1. Cardinality(S) \in Nat
  BY FS_CardinalityType
<1>2. ASSUME NEW b \in S PROVE Run!Rank(b, S) \in 1 .. Cardinality(S)
  <2>1. IsFiniteSet(Below(b)) /\ Cardinality(Below(b)) <= Cardinality(S)
    BY FS_Subset
  <2>2. b \in Below(b)
    OBVIOUS
  <2>3. Cardinality(Below(b)) \in Nat /\ Cardinality(Below(b)) # 0
    BY <2>1, <2>2, FS_CardinalityType, FS_EmptySet
  <2> QED
    BY <1>0, <1>1, <2>1, <2>3
<1>3. ASSUME NEW b \in S, NEW c \in S, b < c PROVE Run!Rank(b, S) < Run!Rank(c, S)
  <2>1. /\ \A d \in Below(b): d \in Below(c)
        /\ c \in Below(c) /\ c \notin Below(b)
    BY <1>3, SMT
  <2>2. IsFiniteSet(Below(c))
    BY FS_Subset
  <2>3. /\ Cardinality(Below(b)) <= Cardinality(Below(c))
        /\ Cardinality(Below(b)) # Cardinality(Below(c))
    BY <2>1, <2>2, FS_Subset
  <2> QED
    BY <1>0, <1>1, <1>2, <2>3
<1>4. \A b, c \in S: Run!Rank(b, S) = Run!Rank(c, S) => b = c
  <2> SUFFICES ASSUME NEW b \in S, NEW c \in S, Run!Rank(b, S) = Run!Rank(c, S) PROVE b = c
    OBVIOUS
  <2>1. Run!Rank(b, S) \in Nat /\ Run!Rank(c, S) \in Nat
    BY <1>1, <1>2
  <2>2. ~(b < c) /\ ~(c < b)
    BY <1>3, <2>1
  <2> QED
    BY <2>2
<1>5. ASSUME NEW k \in 1 .. Cardinality(S) PROVE \E b \in S: Run!Rank(b, S) = k
  <2>1. f \in Injection(S, 1 .. Cardinality(S))
    BY <1>2, <1>4, SMT DEF Injection, IsInjective
  <2>2. /\ IsFiniteSet(1 .. Cardinality(S))
        /\ Cardinality(1 .. Cardinality(S)) = Cardinality(S)
    BY <1>1, FS_Interval
  <2>3. f \in Surjection(S, 1 .. Cardinality(S))
    BY <2>1, <2>2, FS_Injection
  <2> QED
    BY <2>3 DEF Surjection
<1> QED
  BY <1>1, <1>2, <1>4, <1>5

LEMMA BatchesFinite == ASSUME Run!RunAssumption PROVE IsFiniteSet(Batches)
<1>1. BatchOf \in Surjection(Items, Batches)
  BY DEF Run!RunAssumption, Surjection
<1>2. IsFiniteSet(Items)
  BY RunCounts DEF Run!RunAssumption
<1> QED
  BY <1>1, <1>2, FS_Surjection

(* The sessions that start, one for each batch, in order.                  *)
LEMMA NewOnes ==
  ASSUME Run!RunAssumption, NEW items, NEW S, S = Run!Startable(items)
  PROVE  /\ S \subseteq Batches /\ S \subseteq Run!Queued(items) /\ Cardinality(S) \in Nat
         /\ Run!NewSessions(items) \in Seq(Session) /\ Len(Run!NewSessions(items)) = Cardinality(S)
         /\ \A b \in S: /\ Run!Rank(b, S) \in 1 .. Cardinality(S)
                        /\ Run!NewSessions(items)[Run!Rank(b, S)] = [batch |-> b, state |-> "active"]
         /\ \A k \in 1 .. Cardinality(S): \E b \in S: Run!Rank(b, S) = k
<1>1. S \subseteq Run!Queued(items) /\ S \subseteq Batches
  BY DEF Run!Startable, Run!Queued, Run!RunAssumption
<1>2. S \subseteq Nat /\ IsFiniteSet(S)
  BY <1>1, BatchesFinite, FS_Subset DEF Run!RunAssumption
<1>3. /\ Cardinality(S) \in Nat
      /\ \A b \in S: Run!Rank(b, S) \in 1 .. Cardinality(S)
      /\ \A b, c \in S: Run!Rank(b, S) = Run!Rank(c, S) => b = c
      /\ \A k \in 1 .. Cardinality(S): \E b \in S: Run!Rank(b, S) = k
  BY <1>2, RankNumbers
<1> DEFINE Nth(k) == CHOOSE b \in S: Run!Rank(b, S) = k
<1>4. \A k \in 1 .. Cardinality(S): Nth(k) \in S /\ Run!Rank(Nth(k), S) = k
  BY <1>3
<1>5. \A b \in S: Nth(Run!Rank(b, S)) = b
  BY <1>3, <1>4
<1> HIDE DEF Nth
<1>6. Run!NewSessions(items) = [k \in 1 .. Cardinality(S) |-> [batch |-> Nth(k), state |-> "active"]]
  BY RunCounts DEF Run!NewSessions, Nth
<1>7. Run!NewSessions(items) \in Seq(Session) /\ Len(Run!NewSessions(items)) = Cardinality(S)
  <2>1. \A k \in 1 .. Cardinality(S): [batch |-> Nth(k), state |-> "active"] \in Session
    BY <1>1, <1>4 DEF Session
  <2> QED
    BY <1>3, <1>6, <2>1
<1> QED
  BY <1>1, <1>3, <1>5, <1>6, <1>7

(* The items and sessions that starting sessions for what waits leaves;    *)
(* what waited is not over then, and there is no new setup.                *)
StartedFrom(items, base, now, all) ==
  /\ Len(base) + Cardinality(Run!Startable(items)) <= MaxSessions
  /\ all = base \o Run!NewSessions(items)
  /\ now = [i \in Items |->
              IF items[i].status = "queued" /\ BatchOf[i] \in Run!Startable(items)
              THEN [status |-> "running", session |-> Len(base) + Run!Rank(BatchOf[i], Run!Startable(items))]
              ELSE items[i]]
OpenAndNoSetup(items, base, now, all) ==
  /\ \A i \in Items: items[i].status = "queued" => now[i].status \notin Run!Final
  /\ \A k \in DOMAIN all: all[k].batch = 0 => k \in DOMAIN base /\ all[k] = base[k]

(* Whatever items and sessions there are, starting sessions keeps them in  *)
(* order.                                                                  *)
LEMMA Started ==
  ASSUME Run!RunAssumption, NEW stray,
         NEW items, NEW base, Types(items, base), Good(items, base, stray),
         NEW now, NEW all, StartedFrom(items, base, now, all)
  PROVE  Types(now, all) /\ Good(now, all, stray) /\ OpenAndNoSetup(items, base, now, all)
<1> DEFINE S == Run!Startable(items)
           new == Run!NewSessions(items)
           starts(i) == items[i].status = "queued" /\ BatchOf[i] \in S
<1>1. /\ S \subseteq Batches /\ S \subseteq Run!Queued(items) /\ Cardinality(S) \in Nat
      /\ new \in Seq(Session) /\ Len(new) = Cardinality(S)
      /\ \A b \in S: /\ Run!Rank(b, S) \in 1 .. Cardinality(S)
                     /\ new[Run!Rank(b, S)] = [batch |-> b, state |-> "active"]
      /\ \A k \in 1 .. Cardinality(S): \E b \in S: Run!Rank(b, S) = k
  BY NewOnes
<1>2. /\ Len(base) + Cardinality(S) <= MaxSessions
      /\ all = base \o new
      /\ now = [i \in Items |-> IF starts(i)
                                  THEN [status |-> "running", session |-> Len(base) + Run!Rank(BatchOf[i], S)]
                                  ELSE items[i]]
  BY DEF StartedFrom
<1> HIDE DEF S, new
<1>3. /\ base \in Seq(Session) /\ Len(base) \in Nat /\ DOMAIN base = 1 .. Len(base)
      /\ MaxSessions \in Nat /\ items \in [Items -> ItemState]
  BY DEF Types, Run!RunAssumption
<1>4. /\ all \in Seq(Session) /\ Len(all) = Len(base) + Cardinality(S)
      /\ DOMAIN all = 1 .. Len(base) + Cardinality(S)
      /\ \A k \in 1 .. Len(base): all[k] = base[k]
      /\ \A k \in 1 .. Cardinality(S): all[Len(base) + k] = new[k]
  <2>1. /\ base \o new \in Seq(Session) /\ Len(base \o new) = Len(base) + Len(new)
        /\ \A k \in 1 .. Len(base) + Len(new):
             (base \o new)[k] = IF k <= Len(base) THEN base[k] ELSE new[k - Len(base)]
    BY <1>1, <1>3, ConcatProperties
  <2>2. DOMAIN (base \o new) = 1 .. Len(base) + Cardinality(S)
    BY <1>1, <2>1
  <2>3. \A k \in 1 .. Len(base): (base \o new)[k] = base[k]
    BY <1>1, <1>3, <2>1
  <2>4. \A k \in 1 .. Cardinality(S): (base \o new)[Len(base) + k] = new[k]
    BY <1>1, <1>3, <2>1
  <2> QED
    BY <1>1, <1>2, <2>1, <2>2, <2>3, <2>4
<1>5. ASSUME NEW i \in Items
      PROVE  /\ ~starts(i) => now[i] = items[i]
             /\ starts(i) => /\ now[i].status = "running"
                             /\ now[i].session = Len(base) + Run!Rank(BatchOf[i], S)
                             /\ now[i].session \in Len(base) + 1 .. Len(base) + Cardinality(S)
                             /\ all[now[i].session] = [batch |-> BatchOf[i], state |-> "active"]
                             /\ items[i].session = 0
  BY <1>1, <1>2, <1>3, <1>4 DEF Good, WaitingOrWithin
<1>6. ASSUME NEW i \in Items
      PROVE  now[i] \in ItemState
  <2>1. CASE starts(i)
    <3>1. Len(base) + Run!Rank(BatchOf[i], S) \in 0 .. MaxSessions
      <4>1. BatchOf[i] \in S /\ Run!Rank(BatchOf[i], S) \in 1 .. Cardinality(S)
        BY <1>1, <2>1
      <4> HIDE DEF starts
      <4> QED
        BY <1>1, <1>2, <1>3, <4>1
    <3>2. now[i] = [status |-> "running", session |-> Len(base) + Run!Rank(BatchOf[i], S)]
      BY <1>2, <2>1
    <3> QED
      BY <3>1, <3>2 DEF ItemState
  <2>2. CASE ~starts(i)
    BY <1>3, <1>5, <2>2
  <2> QED
    BY <2>1, <2>2
<1>7. Types(now, all)
  BY <1>2, <1>4, <1>6 DEF Types
<1>8. WaitingOrWithin(now, all)
  <2> SUFFICES ASSUME NEW i \in Items
               PROVE  /\ now[i].session <= Len(all)
                      /\ now[i].status = "queued" => now[i].session = 0
                      /\ now[i].status = "running" =>
                           /\ now[i].session \in DOMAIN all
                           /\ all[now[i].session].batch = BatchOf[i]
                      /\ now[i].status = "cancelled" /\ now[i].session # 0 =>
                           all[now[i].session].state # "active"
    BY DEF WaitingOrWithin
  <2>1. CASE starts(i)
    <3>1. /\ now[i].status = "running"
          /\ now[i].session \in Len(base) + 1 .. Len(base) + Cardinality(S)
          /\ all[now[i].session] = [batch |-> BatchOf[i], state |-> "active"]
      BY <1>5, <2>1
    <3>2. now[i].session \in DOMAIN all /\ now[i].session <= Len(all)
      BY <1>1, <1>3, <1>4, <3>1
    <3> QED
      BY <3>1, <3>2
  <2>2. CASE ~starts(i)
    <3>1. now[i] = items[i]
      BY <1>5, <2>2
    <3>2. /\ items[i].session \in 0 .. MaxSessions /\ items[i].session <= Len(base)
          /\ items[i].status = "queued" => items[i].session = 0
          /\ items[i].status = "running" =>
               items[i].session \in 1 .. Len(base) /\ base[items[i].session].batch = BatchOf[i]
          /\ items[i].status = "cancelled" /\ items[i].session # 0 => base[items[i].session].state # "active"
      BY <1>3 DEF Good, WaitingOrWithin, ItemState
    <3>3. items[i].session # 0 => items[i].session \in 1 .. Len(base)
      BY <1>3, <3>2
    <3> QED
      BY <1>1, <1>3, <1>4, <3>1, <3>2, <3>3
  <2> QED
    BY <2>1, <2>2
<1>9. Waits(now, stray)
  <2> SUFFICES ASSUME NEW i \in Items, NEW j \in Items, BatchOf[i] = BatchOf[j], BatchOf[i] \notin stray,
                      now[i].status = "queued"
               PROVE  now[j].status \notin Run!Retriable
    BY DEF Waits
  <2>1. items[i].status = "queued"
    BY <1>5
  <2>2. items[j].status \notin Run!Retriable
    BY <2>1 DEF Good, Waits
  <2> QED
    BY <1>5, <2>2 DEF Run!Retriable
<1>10. ASSUME NEW k \in DOMAIN all, k \notin 1 .. Len(base)
       PROVE  \E b \in S: k = Len(base) + Run!Rank(b, S) /\ all[k] = [batch |-> b, state |-> "active"]
  <2>1. PICK n \in 1 .. Cardinality(S): k = Len(base) + n
    <3>1. k - Len(base) \in 1 .. Cardinality(S) /\ k = Len(base) + (k - Len(base))
      BY <1>1, <1>3, <1>4, <1>10
    <3> QED BY <3>1
  <2>2. PICK b \in S: Run!Rank(b, S) = n
    BY <1>1
  <2> QED
    BY <1>1, <1>4, <2>1, <2>2
<1>11. Busy(now, all, stray)
  <2> SUFFICES ASSUME NEW k \in DOMAIN all, AtWork(all, k, stray), all[k].batch # 0
               PROVE  /\ \E i \in Items: now[i].session = k /\ now[i].status \notin Run!Final
                      /\ \A i \in Items: BatchOf[i] = all[k].batch =>
                           now[i].status \notin Run!Retriable \cup {"queued"}
    BY DEF Busy
  <2>1. CASE k \in 1 .. Len(base)
    <3>1. k \in DOMAIN base /\ AtWork(base, k, stray) /\ base[k].batch # 0 /\ all[k] = base[k]
      BY <1>3, <1>4, <2>1 DEF AtWork
    <3>2. PICK i \in Items: items[i].session = k /\ items[i].status \notin Run!Final
      BY <3>1 DEF Good, Busy
    <3>3. now[i] = items[i]
      <4>1. items[i].session # 0
        BY <1>3, <2>1, <3>2
      <4> QED
        BY <1>5, <4>1
    <3>4. ASSUME NEW j \in Items, BatchOf[j] = all[k].batch
          PROVE  now[j].status \notin Run!Retriable \cup {"queued"}
      <4>1. items[j].status \notin Run!Retriable \cup {"queued"}
        BY <3>1, <3>4 DEF Good, Busy
      <4> QED
        BY <1>5, <4>1
    <3> QED
      BY <3>2, <3>3, <3>4
  <2>2. CASE k \notin 1 .. Len(base)
    <3>1. PICK b \in S: k = Len(base) + Run!Rank(b, S) /\ all[k] = [batch |-> b, state |-> "active"]
      BY <1>10, <2>2
    <3>2. PICK i \in Items: items[i].status = "queued" /\ BatchOf[i] = b
      BY <1>1 DEF Run!Queued
    <3>3. now[i].session = k /\ now[i].status \notin Run!Final
      BY <1>5, <3>1, <3>2 DEF Run!Final, Run!Results
    <3>4. ASSUME NEW j \in Items, BatchOf[j] = b
          PROVE  now[j].status \notin Run!Retriable \cup {"queued"}
      <4>1. items[j].status \notin Run!Retriable
        BY <3>1, <3>2, <3>4 DEF Good, Waits, AtWork
      <4> QED
        BY <1>5, <3>4, <4>1 DEF Run!Retriable
    <3> QED
      BY <3>1, <3>3, <3>4
  <2> QED
    BY <2>1, <2>2
<1>12. Alone(all, stray)
  <2> SUFFICES ASSUME NEW k \in DOMAIN all, NEW l \in DOMAIN all, AtWork(all, k, stray), AtWork(all, l, stray),
                      all[k].batch = all[l].batch
               PROVE  k = l
    BY DEF Alone
  <2>1. ASSUME NEW m \in DOMAIN all, NEW n \in DOMAIN all, AtWork(all, m, stray), all[m].batch = all[n].batch,
               m \in 1 .. Len(base), n \notin 1 .. Len(base)
        PROVE  FALSE
    <3>1. PICK b \in S: all[n] = [batch |-> b, state |-> "active"]
      BY <1>10, <2>1
    <3>2. PICK i \in Items: items[i].status = "queued" /\ BatchOf[i] = b
      BY <1>1 DEF Run!Queued
    <3>3. m \in DOMAIN base /\ AtWork(base, m, stray) /\ base[m].batch = b /\ b # 0
      BY <1>1, <1>3, <1>4, <2>1, <3>1 DEF AtWork, Run!RunAssumption
    <3> QED
      BY <3>2, <3>3 DEF Good, Busy
  <2>2. CASE k \in 1 .. Len(base) /\ l \in 1 .. Len(base)
    <3>1. k \in DOMAIN base /\ l \in DOMAIN base /\ AtWork(base, k, stray) /\ AtWork(base, l, stray)
          /\ base[k].batch = base[l].batch
      BY <1>3, <1>4, <2>2 DEF AtWork
    <3> QED
      BY <3>1 DEF Good, Alone
  <2>3. CASE k \notin 1 .. Len(base) /\ l \notin 1 .. Len(base)
    <3>1. PICK b \in S: k = Len(base) + Run!Rank(b, S) /\ all[k] = [batch |-> b, state |-> "active"]
      BY <1>10, <2>3
    <3>2. PICK c \in S: l = Len(base) + Run!Rank(c, S) /\ all[l] = [batch |-> c, state |-> "active"]
      BY <1>10, <2>3
    <3> QED
      BY <3>1, <3>2
  <2> QED
    BY <2>1, <2>2, <2>3
<1>13. ASSUME NEW i \in Items, items[i].status = "queued" PROVE now[i].status \notin Run!Final
  BY <1>5, <1>13 DEF Run!Final, Run!Results
<1>14. ASSUME NEW k \in DOMAIN all, all[k].batch = 0 PROVE k \in DOMAIN base /\ all[k] = base[k]
  <2>1. ASSUME k \notin 1 .. Len(base) PROVE FALSE
    <3>1. PICK b \in S: all[k] = [batch |-> b, state |-> "active"]
      BY <1>10, <2>1
    <3>2. b # 0
      BY <1>1 DEF Run!RunAssumption
    <3> QED
      BY <1>14, <3>1, <3>2
  <2> QED
    BY <1>3, <1>4, <2>1
<1> QED
  BY <1>7, <1>8, <1>9, <1>11, <1>12, <1>13, <1>14 DEF Good, OpenAndNoSetup

-----------------------------------------------------------------------------
(* What follows from the order of items and sessions.                      *)
LEMMA OneSession ==
  ASSUME Types(item, sessions), Good(item, sessions, strayed)
  PROVE  Run!OneSessionPerItem
<1>1. sessions \in Seq(Session) /\ item \in [Items -> ItemState]
  BY DEF Types
<1> SUFFICES ASSUME NEW k \in DOMAIN sessions, sessions[k].state = "active", sessions[k].batch # 0
             PROVE  /\ \A i \in Run!Mine(k): BatchOf[i] = sessions[k].batch
                    /\ sessions[k].batch \notin strayed =>
                         /\ Run!Mine(k) # {}
                         /\ \A l \in DOMAIN sessions:
                              l # k /\ sessions[l].state = "active" => sessions[l].batch # sessions[k].batch
  BY DEF Run!OneSessionPerItem
<1>2. ASSUME NEW i \in Run!Mine(k)
      PROVE  BatchOf[i] = sessions[k].batch
  BY MineRuns
<1>3. ASSUME sessions[k].batch \notin strayed PROVE Run!Mine(k) # {}
  BY <1>3 DEF Good, Busy, AtWork, Run!Mine, Run!Open
<1>4. ASSUME sessions[k].batch \notin strayed, NEW l \in DOMAIN sessions, l # k, sessions[l].state = "active"
      PROVE  sessions[l].batch # sessions[k].batch
  BY <1>4 DEF Good, Alone, AtWork
<1> QED
  BY <1>2, <1>3, <1>4

(* Closing a session keeps the order.                                      *)
LEMMA ClosedGood ==
  ASSUME Types(item, sessions), Good(item, sessions, strayed), NEW k \in DOMAIN sessions
  PROVE  /\ Types(item, Run!Closed(k)) /\ Good(item, Run!Closed(k), strayed)
         /\ DOMAIN Run!Closed(k) = DOMAIN sessions
         /\ \A l \in DOMAIN sessions:
              /\ Run!Closed(k)[l].batch = sessions[l].batch
              /\ Run!Closed(k)[l].state = "active" => l # k /\ sessions[l].state = "active"
<1> DEFINE after == Run!Closed(k)
<1>1. sessions \in Seq(Session)
  BY DEF Types
<1>2. [sessions[k] EXCEPT !.state = "over"] \in Session
  <2>1. sessions[k] \in Session
    BY <1>1
  <2> QED
    BY <2>1 DEF Session
<1>3. /\ after \in Seq(Session) /\ Len(after) = Len(sessions)
      /\ DOMAIN after = DOMAIN sessions
      /\ \A l \in DOMAIN sessions: l # k => after[l] = sessions[l]
      /\ after[k] = [sessions[k] EXCEPT !.state = "over"]
  BY <1>1, <1>2 DEF Run!Closed
<1>4. after[k].batch = sessions[k].batch /\ after[k].state = "over"
  BY <1>1, <1>3 DEF Session
<1>5. \A l \in DOMAIN sessions:
        /\ after[l].batch = sessions[l].batch
        /\ after[l].state = "active" => l # k /\ sessions[l].state = "active"
  BY <1>3, <1>4
<1> HIDE DEF after
<1>6. Types(item, after)
  BY <1>3 DEF Types
<1>7. \A l \in DOMAIN after: AtWork(after, l, strayed) =>
        l \in DOMAIN sessions /\ AtWork(sessions, l, strayed) /\ after[l].batch = sessions[l].batch
  BY <1>3, <1>5 DEF AtWork
<1>8. WaitingOrWithin(item, after)
  <2> SUFFICES ASSUME NEW i \in Items
               PROVE  /\ item[i].session <= Len(after)
                      /\ item[i].status = "queued" => item[i].session = 0
                      /\ item[i].status = "running" => /\ item[i].session \in DOMAIN after
                                                       /\ after[item[i].session].batch = BatchOf[i]
                      /\ item[i].status = "cancelled" /\ item[i].session # 0 =>
                           after[item[i].session].state # "active"
    BY DEF WaitingOrWithin
  <2>1. /\ item[i].session <= Len(sessions)
        /\ item[i].status = "queued" => item[i].session = 0
        /\ item[i].status = "running" => /\ item[i].session \in DOMAIN sessions
                                         /\ sessions[item[i].session].batch = BatchOf[i]
        /\ item[i].status = "cancelled" /\ item[i].session # 0 =>
             sessions[item[i].session].state # "active"
    BY DEF Good, WaitingOrWithin
  <2>2. item[i].session # 0 => item[i].session \in DOMAIN sessions
    BY <1>1, <2>1 DEF Types, ItemState
  <2> QED
    BY <1>3, <1>5, <2>1, <2>2
<1>9. Busy(item, after, strayed)
  <2> SUFFICES ASSUME NEW l \in DOMAIN after, AtWork(after, l, strayed), after[l].batch # 0
               PROVE  /\ \E i \in Items: item[i].session = l /\ item[i].status \notin Run!Final
                      /\ \A i \in Items: BatchOf[i] = after[l].batch =>
                           item[i].status \notin Run!Retriable \cup {"queued"}
    BY DEF Busy
  <2> QED
    BY <1>7 DEF Good, Busy
<1>10. Alone(after, strayed)
  BY <1>7 DEF Good, Alone
<1> QED
  BY <1>3, <1>5, <1>6, <1>8, <1>9, <1>10 DEF after, Good

-----------------------------------------------------------------------------
(* The invariant holds at first and is kept by every step.                 *)
LEMMA RunInit == ASSUME Run!RunAssumption PROVE Run!Init => RunInv
<1> SUFFICES ASSUME Run!Init PROVE RunInv
  OBVIOUS
<1>1. Labels /\ strayed = {}
  BY Run!RunAssumption DEF Run!Init, Labels, Run!RunStatuses, Run!Cancellable, Run!Reviews
<1>2. /\ Run!NewItems \in [Items -> ItemState]
      /\ \A i \in Items: Run!NewItems[i] = [status |-> "queued", session |-> 0]
  BY DEF Run!NewItems, ItemState, Run!RunAssumption
<1>3. CASE status = "setup_running" /\ item = Run!NewItems /\ sessions = <<[batch |-> 0, state |-> "active"]>>
  <2>1. Types(item, sessions)
    BY <1>2, <1>3 DEF Types, Session, Run!RunAssumption
  <2>2. DOMAIN sessions = {1} /\ sessions[1].batch = 0 /\ Len(sessions) = 1
    BY <1>3
  <2>3. Good(item, sessions, strayed)
    BY <1>2, <1>3, <2>2 DEF Good, WaitingOrWithin, Waits, Busy, Alone, Run!Retriable
  <2>4. SetupFirst /\ Run!ReviewedWhole /\ Stopped
    BY <1>2, <1>3 DEF SetupFirst, Run!ReviewedWhole, Stopped
  <2> QED
    BY <1>1, <2>1, <2>3, <2>4 DEF RunInv
<1>4. CASE /\ status = "running" /\ sessions = Run!NewSessions(Run!NewItems)
           /\ item = [i \in Items |-> [status |-> "running", session |-> Run!Rank(BatchOf[i], Batches)]]
  <2>1. Run!Queued(Run!NewItems) = Batches /\ Run!Startable(Run!NewItems) = Batches
    <3>1. Run!Queued(Run!NewItems) = Batches
      BY <1>2 DEF Run!Queued, Run!RunAssumption
    <3> QED
      BY <3>1 DEF Run!Startable, Run!Init
  <2>2. Types(Run!NewItems, <<>>) /\ Good(Run!NewItems, <<>>, strayed)
    <3>1. <<>> \in Seq(Session) /\ Len(<<>>) = 0 /\ DOMAIN <<>> = {}
      OBVIOUS
    <3>2. Types(Run!NewItems, <<>>)
      BY <1>2, <3>1 DEF Types, Run!RunAssumption
    <3>3. Good(Run!NewItems, <<>>, strayed)
      BY <1>2, <3>1 DEF Good, WaitingOrWithin, Waits, Busy, Alone, Run!Retriable
    <3> QED
      BY <3>2, <3>3
  <2>3. Cardinality(Batches) \in Nat /\ Run!NewSessions(Run!NewItems) \in Seq(Session)
    BY NewOnes, <2>1
  <2>4. Len(<<>>) = 0 /\ sessions = <<>> \o Run!NewSessions(Run!NewItems)
    BY <1>4, <2>3
  <2>5. \A b \in Batches: Run!Rank(b, Batches) \in Nat
    <3>1. \A b \in Batches: Run!Rank(b, Batches) \in 1 .. Cardinality(Batches)
      BY NewOnes, <2>1
    <3> QED
      BY <2>3, <3>1
  <2>6. item = [i \in Items |-> IF Run!NewItems[i].status = "queued" /\ BatchOf[i] \in Run!Startable(Run!NewItems)
                                THEN [status |-> "running",
                                      session |-> Len(<<>>) + Run!Rank(BatchOf[i], Run!Startable(Run!NewItems))]
                                ELSE Run!NewItems[i]]
    <3>1. \A i \in Items: /\ Run!NewItems[i].status = "queued" /\ BatchOf[i] \in Run!Startable(Run!NewItems)
                          /\ Len(<<>>) + Run!Rank(BatchOf[i], Run!Startable(Run!NewItems)) = Run!Rank(BatchOf[i], Batches)
      <4>1. \A i \in Items: BatchOf[i] \in Batches
        BY DEF Run!RunAssumption
      <4>2. \A n \in Nat: Len(<<>>) + n = n
        BY <2>4
      <4>3. \A i \in Items: Run!NewItems[i].status = "queued"
        BY <1>2
      <4> SUFFICES ASSUME NEW i \in Items
                   PROVE  /\ BatchOf[i] \in Run!Startable(Run!NewItems)
                          /\ Len(<<>>) + Run!Rank(BatchOf[i], Run!Startable(Run!NewItems)) = Run!Rank(BatchOf[i], Batches)
        BY <4>3
      <4>4. Run!Rank(BatchOf[i], Run!Startable(Run!NewItems)) = Run!Rank(BatchOf[i], Batches)
        BY <2>1
      <4>5. Run!Rank(BatchOf[i], Batches) \in Nat
        BY <2>5, <4>1
      <4> QED
        BY <2>1, <4>1, <4>2, <4>4, <4>5
    <3> QED
      BY <1>4, <3>1, Zenon
  <2>7. Len(<<>>) + Cardinality(Run!Startable(Run!NewItems)) <= MaxSessions
    BY <2>1, <2>3, <2>4, RunCounts DEF Run!RunAssumption
  <2>8. /\ Types(item, sessions) /\ Good(item, sessions, strayed)
        /\ OpenAndNoSetup(Run!NewItems, <<>>, item, sessions)
    <3>1. StartedFrom(Run!NewItems, <<>>, item, sessions)
      BY <2>4, <2>6, <2>7 DEF StartedFrom
    <3> QED
      BY Started, <2>2, <3>1
  <2>9. SetupFirst
    <3>1. DOMAIN <<>> = {}
      OBVIOUS
    <3> QED
      BY <2>8, <3>1 DEF SetupFirst, OpenAndNoSetup
  <2>10. Run!ReviewedWhole /\ Stopped
    BY <1>4 DEF Run!ReviewedWhole, Run!Settled, Run!Final, Run!Results, Stopped, Run!RunAssumption
  <2> QED
    BY <1>1, <2>8, <2>9, <2>10 DEF RunInv
<1> QED
  BY <1>3, <1>4 DEF Run!Init

(* What a server action that starts sessions leaves.                       *)
LEMMA StartKeeps ==
  ASSUME Run!RunAssumption, NEW items, NEW base, Types(items, base), Good(items, base, strayed),
         Run!StartSessions(items, base)
  PROVE  /\ Types(item', sessions') /\ Good(item', sessions', strayed)
         /\ OpenAndNoSetup(items, base, item', sessions')
<1>1. StartedFrom(items, base, item', sessions')
  BY RunCounts DEF Run!StartSessions, StartedFrom
<1> QED
  BY <1>1, Started

LEMMA SetupPassedKeeps ==
  ASSUME Run!RunAssumption, RunInv, NEW k \in DOMAIN sessions, Run!SetupPassed(k)
  PROVE  RunInv'
<1>1. /\ Labels /\ Types(item, sessions) /\ Good(item, sessions, strayed)
      /\ SetupFirst /\ Run!ReviewedWhole /\ Stopped
  BY DEF RunInv
<1>2. /\ Types(item, Run!Closed(k)) /\ Good(item, Run!Closed(k), strayed)
      /\ DOMAIN Run!Closed(k) = DOMAIN sessions
      /\ \A l \in DOMAIN sessions: /\ Run!Closed(k)[l].batch = sessions[l].batch
                                   /\ Run!Closed(k)[l].state = "active" => l # k /\ sessions[l].state = "active"
  BY <1>1, ClosedGood
<1>3. /\ sessions[k].batch = 0 /\ sessions[k].state = "active" /\ sessions[k] = [batch |-> 0, state |-> "active"]
      /\ status' \in {"running", "setup_failed"} /\ setup' \in {"passed", "failed"}
      /\ UNCHANGED <<review, strayed, online, runPage, calls>>
      /\ strayed \in SUBSET Batches
  BY <1>1 DEF Run!SetupPassed, Labels
<1>4. /\ Types(item', sessions') /\ Good(item', sessions', strayed)
      /\ \A i \in Items: item[i].status = "queued" => item'[i].status \notin Run!Final
      /\ \A l \in DOMAIN sessions': sessions'[l].batch = 0 =>
           l \in DOMAIN sessions /\ sessions'[l] = Run!Closed(k)[l]
  BY <1>2, <1>3, StartKeeps DEF Run!SetupPassed, OpenAndNoSetup
<1>5. SetupFirst'
  <2>1. ASSUME NEW l \in DOMAIN sessions', sessions'[l] = [batch |-> 0, state |-> "active"] PROVE FALSE
    <3>1. l \in DOMAIN sessions /\ Run!Closed(k)[l].batch = 0 /\ Run!Closed(k)[l].state = "active"
      BY <1>4, <2>1
    <3>2. l # k /\ sessions[l].state = "active" /\ sessions[l].batch = 0
      BY <1>2, <3>1
    <3>3. 0 \notin strayed
      BY <1>3 DEF Run!RunAssumption
    <3> QED
      BY <1>1, <1>3, <3>1, <3>2, <3>3 DEF Good, Alone, AtWork
  <2> QED
    BY <2>1 DEF SetupFirst
<1>6. Run!ReviewedWhole'
  <2>1. ASSUME strayed = {} PROVE ~Run!Settled(item')
    <3>1. \A i \in Items: item[i].status = "queued"
      BY <1>1, <1>3, <2>1 DEF SetupFirst
    <3> QED
      BY <1>4, <3>1 DEF Run!Settled, Run!RunAssumption
  <2> QED
    BY <1>3, <2>1 DEF Run!ReviewedWhole, Run!Settled
<1>7. Labels' /\ Stopped'
  BY <1>1, <1>3 DEF Labels, Run!RunStatuses, Run!Cancellable, Stopped
<1> QED
  BY <1>3, <1>4, <1>5, <1>6, <1>7 DEF RunInv

LEMMA SessionEndsKeeps ==
  ASSUME Run!RunAssumption, RunInv, NEW k \in DOMAIN sessions, sessions' = Run!Closed(k), Labels',
         UNCHANGED <<item, strayed>>, status' \in {status, "setup_failed"}
  PROVE  RunInv'
<1>1. /\ Types(item, sessions) /\ Good(item, sessions, strayed)
      /\ SetupFirst /\ Run!ReviewedWhole /\ Stopped
  BY DEF RunInv
<1>2. /\ Types(item', sessions') /\ Good(item', sessions', strayed')
      /\ DOMAIN sessions' = DOMAIN sessions
      /\ \A l \in DOMAIN sessions: /\ sessions'[l].batch = sessions[l].batch
                                   /\ sessions'[l].state = "active" => sessions[l].state = "active"
  BY <1>1, ClosedGood
<1>3. SetupFirst'
  <2>1. ASSUME NEW l \in DOMAIN sessions', sessions'[l] = [batch |-> 0, state |-> "active"]
        PROVE  l \in DOMAIN sessions /\ sessions[l] = [batch |-> 0, state |-> "active"]
    <3>1. l \in DOMAIN sessions /\ sessions[l].batch = 0 /\ sessions[l].state = "active" /\ sessions[l] \in Session
      BY <1>1, <1>2, <2>1 DEF Types
    <3> QED
      BY <3>1 DEF Session
  <2> QED
    BY <1>1, <2>1 DEF SetupFirst
<1>4. Run!ReviewedWhole' /\ Stopped'
  BY <1>1, <1>2 DEF Run!ReviewedWhole, Run!Settled, Stopped
<1> QED
  BY <1>2, <1>3, <1>4 DEF RunInv

(* A report, by whomever: what is listed and open is over, and of the      *)
(* batches none is left with a session that has nothing more to do but     *)
(* those it strays into.                                                   *)
LEMMA TakeKeeps ==
  ASSUME Run!RunAssumption, strayed \in SUBSET Batches,
         NEW listed \in SUBSET Items, NEW own \in SUBSET Items, Run!Take(listed, own),
         NEW base, Types(item, base), Good(item, base, strayed),
         \A i \in own: BatchOf[i] \notin strayed =>
           /\ \A l \in DOMAIN base: base[l].state = "active" => base[l].batch # BatchOf[i]
           /\ \A j \in Items: BatchOf[j] = BatchOf[i] => item[j].status # "queued"
  PROVE  /\ Types(item', base) /\ Good(item', base, strayed')
         /\ strayed' \in SUBSET Batches /\ strayed \subseteq strayed'
         /\ \A i \in Run!Listed(listed): i \in own \/ BatchOf[i] \in strayed'
         /\ \A i \in Items: i \notin Run!Listed(listed) => item'[i] = item[i]
         /\ status' \in {"needs_acceptance", "running"} /\ (status' = "needs_acceptance" <=> Run!Settled(item'))
<1> DEFINE L == Run!Listed(listed)
<1>1. PICK results \in [L -> Run!Results]:
        item' = [i \in Items |-> IF i \in L THEN [item[i] EXCEPT !.status = results[i]] ELSE item[i]]
  BY DEF Run!Take
<1>2. strayed' = strayed \cup {BatchOf[i]: i \in L \ own}
  BY DEF Run!Take
<1>3. L \subseteq Items /\ \A i \in L: item[i].status \notin Run!Final
  BY DEF Run!Listed, Run!Open
<1> HIDE DEF L
<1>4. ASSUME NEW i \in Items
      PROVE  /\ item'[i] \in ItemState /\ item'[i].session = item[i].session
             /\ i \in L => item'[i].status \in Run!Results
             /\ i \notin L => item'[i] = item[i]
  <2>1. item[i] \in ItemState
    BY DEF Types
  <2>2. CASE i \in L
    <3>1. item'[i] = [item[i] EXCEPT !.status = results[i]] /\ results[i] \in Run!Results
      BY <1>1, <2>2
    <3> QED
      BY <2>1, <2>2, <3>1 DEF ItemState, Run!Final
  <2>3. CASE i \notin L
    BY <1>1, <2>1, <2>3
  <2> QED
    BY <2>2, <2>3
<1>5. Types(item', base)
  BY <1>1, <1>4 DEF Types
<1>6. /\ strayed' \in SUBSET Batches /\ strayed \subseteq strayed'
      /\ \A i \in L: i \in own \/ BatchOf[i] \in strayed'
  BY <1>2, <1>3 DEF Run!RunAssumption
<1>7. WaitingOrWithin(item', base)
  <2> SUFFICES ASSUME NEW i \in Items
               PROVE  /\ item'[i].session <= Len(base)
                      /\ item'[i].status = "queued" => item'[i].session = 0
                      /\ item'[i].status = "running" => /\ item'[i].session \in DOMAIN base
                                                        /\ base[item'[i].session].batch = BatchOf[i]
                      /\ item'[i].status = "cancelled" /\ item'[i].session # 0 =>
                           base[item'[i].session].state # "active"
    BY DEF WaitingOrWithin
  <2>1. item'[i].status \in Run!Results \/ item'[i] = item[i]
    BY <1>4
  <2> QED
    BY <1>4, <2>1 DEF Good, WaitingOrWithin, Run!Results
<1>8. Waits(item', strayed')
  <2> SUFFICES ASSUME NEW i \in Items, NEW j \in Items, BatchOf[i] = BatchOf[j], BatchOf[i] \notin strayed',
                      item'[i].status = "queued"
               PROVE  item'[j].status \notin Run!Retriable
    BY DEF Waits
  <2>1. i \notin L /\ item[i].status = "queued"
    BY <1>4 DEF Run!Results
  <2>2. j \notin L
    BY <1>6, <2>1
  <2>3. item[j].status \notin Run!Retriable
    BY <1>6, <2>1 DEF Good, Waits
  <2> QED
    BY <1>4, <2>2, <2>3
<1>9. \A l \in DOMAIN base: AtWork(base, l, strayed') => AtWork(base, l, strayed)
  BY <1>6 DEF AtWork
<1>10. Busy(item', base, strayed')
  <2> SUFFICES ASSUME NEW l \in DOMAIN base, AtWork(base, l, strayed'), base[l].batch # 0
               PROVE  /\ \E i \in Items: item'[i].session = l /\ item'[i].status \notin Run!Final
                      /\ \A i \in Items: BatchOf[i] = base[l].batch =>
                           item'[i].status \notin Run!Retriable \cup {"queued"}
    BY DEF Busy
  <2>1. ASSUME NEW i \in Items, BatchOf[i] = base[l].batch PROVE i \notin L
    BY <1>6, <2>1 DEF AtWork
  <2>2. PICK i \in Items: item[i].session = l /\ item[i].status \notin Run!Final
    BY <1>9 DEF Good, Busy
  <2>3. BatchOf[i] = base[l].batch
    <3>1. l # 0 /\ item[i].status \in {"queued", "running"}
      BY <2>2 DEF Types, ItemState
    <3> QED
      BY <2>2, <3>1 DEF Good, WaitingOrWithin
  <2>4. item'[i].session = l /\ item'[i].status \notin Run!Final
    BY <1>4, <2>1, <2>2, <2>3
  <2>5. ASSUME NEW j \in Items, BatchOf[j] = base[l].batch
        PROVE  item'[j].status \notin Run!Retriable \cup {"queued"}
    BY <1>4, <1>9, <2>1, <2>5 DEF Good, Busy
  <2> QED
    BY <2>4, <2>5
<1>11. Alone(base, strayed')
  BY <1>9 DEF Good, Alone
<1>12. status' \in {"needs_acceptance", "running"} /\ (status' = "needs_acceptance" <=> Run!Settled(item'))
  BY DEF Run!Take, Run!AfterReport
<1> QED
  BY <1>4, <1>5, <1>6, <1>7, <1>8, <1>10, <1>11, <1>12 DEF Good, L

LEMMA ReportResultsKeeps ==
  ASSUME Run!RunAssumption, RunInv, NEW k \in DOMAIN sessions, Run!ReportResults(k)
  PROVE  RunInv'
<1>1. /\ Labels /\ Types(item, sessions) /\ Good(item, sessions, strayed)
      /\ SetupFirst /\ Run!ReviewedWhole /\ Stopped
  BY DEF RunInv
<1>2. CASE UNCHANGED <<status, item, strayed>>
  <2>1. Labels' /\ sessions' = Run!Closed(k)
    BY <1>1, <1>2 DEF Run!ReportResults, Labels
  <2> QED
    BY <1>2, <2>1, SessionEndsKeeps
<1>3. ASSUME NEW listed \in SUBSET Items, Run!Take(listed, Run!Mine(k)) PROVE RunInv'
  <2>1. /\ Types(item, sessions') /\ Good(item, sessions', strayed)
        /\ DOMAIN sessions' = DOMAIN sessions
        /\ \A l \in DOMAIN sessions: /\ sessions'[l].batch = sessions[l].batch
                                     /\ sessions'[l].state = "active" => l # k /\ sessions[l].state = "active"
    BY <1>1, ClosedGood DEF Run!ReportResults
  <2>2. sessions[k].batch # 0 /\ sessions[k].state = "active" /\ strayed \in SUBSET Batches /\ Run!Mine(k) \in SUBSET Items
    BY <1>1 DEF Run!ReportResults, Labels, Run!Mine, Run!Open
  <2>3. ASSUME NEW i \in Run!Mine(k), BatchOf[i] \notin strayed
        PROVE  /\ \A l \in DOMAIN sessions': sessions'[l].state = "active" => sessions'[l].batch # BatchOf[i]
               /\ \A j \in Items: BatchOf[j] = BatchOf[i] => item[j].status # "queued"
    <3>1. BatchOf[i] = sessions[k].batch
      BY <1>1, MineRuns
    <3>2. AtWork(sessions, k, strayed)
      BY <2>2, <2>3, <3>1 DEF AtWork
    <3>3. ASSUME NEW l \in DOMAIN sessions', sessions'[l].state = "active", sessions'[l].batch = BatchOf[i] PROVE FALSE
      <4>1. l # k /\ AtWork(sessions, l, strayed) /\ sessions[l].batch = sessions[k].batch
        BY <2>1, <2>3, <3>1, <3>3 DEF AtWork
      <4> QED
        BY <1>1, <3>2, <4>1 DEF Good, Alone, AtWork
    <3>4. ASSUME NEW j \in Items, BatchOf[j] = BatchOf[i] PROVE item[j].status # "queued"
      BY <1>1, <2>2, <3>1, <3>2, <3>4 DEF Good, Busy
    <3> QED
      BY <3>3, <3>4
  <2>4. /\ Types(item', sessions') /\ Good(item', sessions', strayed')
        /\ strayed' \in SUBSET Batches /\ strayed \subseteq strayed'
        /\ status' \in {"needs_acceptance", "running"} /\ (status' = "needs_acceptance" <=> Run!Settled(item'))
    BY <1>3, <2>1, <2>2, <2>3, TakeKeeps
  <2>5. SetupFirst'
    <3>1. ASSUME strayed' = {}, NEW l \in DOMAIN sessions', sessions'[l] = [batch |-> 0, state |-> "active"] PROVE FALSE
      <4>1. strayed = {}
        BY <2>4, <3>1
      <4>2. sessions[l].batch = 0 /\ sessions[l].state = "active" /\ l \in DOMAIN sessions /\ sessions[l] \in Session
        BY <1>1, <2>1, <3>1 DEF Types
      <4>3. sessions[l] = [batch |-> 0, state |-> "active"]
        BY <4>2 DEF Session
      <4>4. \A i \in Items: item[i].status = "queued"
        BY <1>1, <4>1, <4>2, <4>3 DEF SetupFirst
      <4>5. PICK i \in Items: item[i].session = k
        BY <1>1, <2>2, <4>1 DEF Good, Busy, AtWork
      <4>6. item[i].session = 0 /\ k # 0
        BY <1>1, <4>4, <4>5 DEF Good, WaitingOrWithin, Types
      <4> QED
        BY <4>5, <4>6
    <3> QED
      BY <3>1 DEF SetupFirst
  <2>6. Run!ReviewedWhole' /\ Stopped'
    BY <2>4 DEF Run!ReviewedWhole, Run!Settled, Stopped
  <2>7. Labels'
    BY <1>1, <2>4 DEF Run!ReportResults, Labels, Run!RunStatuses, Run!Cancellable
  <2> QED
    BY <2>4, <2>5, <2>6, <2>7 DEF RunInv
<1> QED
  BY <1>2, <1>3 DEF Run!ReportResults

LEMMA OthersReportKeeps ==
  ASSUME Run!RunAssumption, RunInv, Run!OthersReport
  PROVE  RunInv'
<1>1. /\ Labels /\ Types(item, sessions) /\ Good(item, sessions, strayed)
      /\ SetupFirst /\ Run!ReviewedWhole /\ Stopped
  BY DEF RunInv
<1>2. PICK listed \in SUBSET Items: Run!Take(listed, {})
  BY DEF Run!OthersReport
<1>3. UNCHANGED <<setup, review, sessions, online, runPage, calls>> /\ strayed \in SUBSET Batches
  BY <1>1 DEF Run!OthersReport, Labels
<1>4. /\ Types(item', sessions) /\ Good(item', sessions, strayed')
      /\ strayed' \in SUBSET Batches /\ strayed \subseteq strayed'
      /\ \A i \in Run!Listed(listed): BatchOf[i] \in strayed'
      /\ \A i \in Items: i \notin Run!Listed(listed) => item'[i] = item[i]
      /\ status' \in {"needs_acceptance", "running"} /\ (status' = "needs_acceptance" <=> Run!Settled(item'))
  <2>1. {} \in SUBSET Items
    OBVIOUS
  <2> QED
    BY <1>1, <1>2, <1>3, <2>1, TakeKeeps
<1>5. SetupFirst'
  <2>1. ASSUME strayed' = {} PROVE strayed = {} /\ \A i \in Items: item'[i] = item[i]
    BY <1>4, <2>1
  <2> QED
    BY <1>1, <1>3, <2>1 DEF SetupFirst
<1>6. Run!ReviewedWhole' /\ Stopped'
  BY <1>4 DEF Run!ReviewedWhole, Run!Settled, Stopped
<1>7. Labels'
  BY <1>1, <1>3, <1>4 DEF Labels, Run!RunStatuses, Run!Cancellable
<1> QED
  BY <1>3, <1>4, <1>5, <1>6, <1>7 DEF RunInv

LEMMA RetryKeeps ==
  ASSUME Run!RunAssumption, RunInv, NEW u \in Users, Run!Retry(u)
  PROVE  RunInv'
<1>1. /\ Labels /\ Types(item, sessions) /\ Good(item, sessions, strayed) /\ SetupFirst
  BY DEF RunInv
<1>2. \A i \in Items: /\ item[i].status \in Run!Retriable => Run!Reset[i] = [status |-> "queued", session |-> 0]
                      /\ item[i].status \notin Run!Retriable => Run!Reset[i] = item[i]
  BY DEF Run!Reset
<1>3. Types(Run!Reset, sessions)
  <2>1. [status |-> "queued", session |-> 0] \in ItemState
    BY DEF ItemState, Run!RunAssumption
  <2> QED
    BY <1>1, <2>1 DEF Types, Run!Reset
<1>4. Good(Run!Reset, sessions, strayed)
  <2>1. WaitingOrWithin(Run!Reset, sessions)
    <3> SUFFICES ASSUME NEW i \in Items
                 PROVE  /\ Run!Reset[i].session <= Len(sessions)
                        /\ Run!Reset[i].status = "queued" => Run!Reset[i].session = 0
                        /\ Run!Reset[i].status = "running" =>
                             /\ Run!Reset[i].session \in DOMAIN sessions
                             /\ sessions[Run!Reset[i].session].batch = BatchOf[i]
                        /\ Run!Reset[i].status = "cancelled" /\ Run!Reset[i].session # 0 =>
                             sessions[Run!Reset[i].session].state # "active"
      BY DEF WaitingOrWithin
    <3>1. 0 <= Len(sessions)
      BY <1>1 DEF Types
    <3> QED
      BY <1>1, <1>2, <3>1 DEF Good, WaitingOrWithin
  <2>2. Waits(Run!Reset, strayed)
    BY <1>2 DEF Waits, Run!Retriable
  <2>3. Busy(Run!Reset, sessions, strayed)
    <3> SUFFICES ASSUME NEW k \in DOMAIN sessions, AtWork(sessions, k, strayed), sessions[k].batch # 0
                 PROVE  /\ \E i \in Items: Run!Reset[i].session = k /\ Run!Reset[i].status \notin Run!Final
                        /\ \A i \in Items: BatchOf[i] = sessions[k].batch =>
                             Run!Reset[i].status \notin Run!Retriable \cup {"queued"}
      BY DEF Busy
    <3>1. PICK i \in Items: item[i].session = k /\ item[i].status \notin Run!Final
      BY <1>1 DEF Good, Busy
    <3>2. Run!Reset[i] = item[i]
      BY <1>2, <3>1 DEF Run!Final, Run!Results, Run!Retriable
    <3>3. ASSUME NEW j \in Items, BatchOf[j] = sessions[k].batch
          PROVE  Run!Reset[j].status \notin Run!Retriable \cup {"queued"}
      BY <1>1, <1>2, <3>3 DEF Good, Busy
    <3> QED
      BY <3>1, <3>2, <3>3
  <2> QED
    BY <1>1, <2>1, <2>2, <2>3 DEF Good
<1>5. /\ status' = "running" /\ review' = "pending" /\ UNCHANGED <<setup, strayed, online, runPage>>
      /\ calls' = [calls EXCEPT ![u] = @ \ {"retry"}] /\ strayed \in SUBSET Batches
  BY <1>1 DEF Run!Retry, Run!Served, Labels
<1>6. /\ Types(item', sessions') /\ Good(item', sessions', strayed)
      /\ \A i \in Items: Run!Reset[i].status = "queued" => item'[i].status \notin Run!Final
      /\ \A k \in DOMAIN sessions': sessions'[k].batch = 0 => k \in DOMAIN sessions /\ sessions'[k] = sessions[k]
  BY <1>3, <1>4, <1>5, StartKeeps DEF Run!Retry, OpenAndNoSetup
<1>7. PICK i \in Items: item[i].status \in Run!Retriable
  BY DEF Run!Retry
<1>8. SetupFirst'
  <2>1. item[i].status # "queued"
    BY <1>7 DEF Run!Retriable
  <2> QED
    BY <1>1, <1>5, <1>6, <2>1 DEF SetupFirst
<1>9. Run!ReviewedWhole'
  <2>1. item'[i].status \notin Run!Final
    BY <1>2, <1>6, <1>7
  <2> QED
    BY <1>5, <2>1 DEF Run!ReviewedWhole, Run!Settled
<1>10. Labels' /\ Stopped'
  BY <1>1, <1>5 DEF Labels, Run!RunStatuses, Run!Cancellable, Stopped
<1> QED
  BY <1>5, <1>6, <1>8, <1>9, <1>10 DEF RunInv

LEMMA CancelKeeps ==
  ASSUME Run!RunAssumption, RunInv, NEW u \in Users, Run!Cancel(u)
  PROVE  RunInv'
<1>1. /\ Labels /\ Types(item, sessions) /\ Good(item, sessions, strayed)
  BY DEF RunInv
<1>2. ASSUME NEW k \in DOMAIN sessions
      PROVE  /\ sessions'[k] \in Session /\ sessions'[k].batch = sessions[k].batch
             /\ sessions'[k].state = "active" => k \notin Run!ToStop /\ sessions[k].state = "active"
  <2>1. sessions[k] \in Session
    BY <1>1 DEF Types
  <2>2. sessions'[k] = IF k \in Run!ToStop /\ sessions[k].state = "active"
                       THEN [sessions[k] EXCEPT !.state = "over"] ELSE sessions[k]
    BY DEF Run!Cancel
  <2> QED
    BY <2>1, <2>2 DEF Session
<1>3. sessions' \in Seq(Session) /\ Len(sessions') = Len(sessions) /\ DOMAIN sessions' = DOMAIN sessions
  <2>1. DOMAIN sessions' = DOMAIN sessions /\ sessions' = [k \in DOMAIN sessions |-> sessions'[k]]
    BY DEF Run!Cancel
  <2>2. DOMAIN sessions = 1 .. Len(sessions) /\ Len(sessions) \in Nat
    BY <1>1 DEF Types
  <2> QED
    BY <1>2, <2>1, <2>2
<1>4. ASSUME NEW i \in Items
      PROVE  /\ item'[i] \in ItemState /\ item'[i].status \in Run!Final /\ item'[i].session = item[i].session
             /\ item'[i] = item[i] \/ item[i].session \in Run!ToStop
  <2>1. item[i] \in ItemState
    BY <1>1 DEF Types
  <2>2. CASE item[i].status \in {"queued", "running"}
    <3>1. item'[i] = [item[i] EXCEPT !.status = "cancelled"]
      BY <2>2 DEF Run!Cancel
    <3>2. item[i].session \in Run!ToStop
      BY <2>2 DEF Run!ToStop
    <3> QED
      BY <2>1, <3>1, <3>2 DEF ItemState, Run!Final
  <2>3. CASE item[i].status \notin {"queued", "running"}
    BY <2>1, <2>3 DEF Run!Cancel, ItemState
  <2> QED
    BY <2>2, <2>3
<1>5. Types(item', sessions')
  <2>1. item' \in [Items -> ItemState]
    BY <1>4 DEF Run!Cancel
  <2> QED
    BY <1>1, <1>3, <2>1 DEF Types
<1>6. UNCHANGED <<strayed, online, runPage>> /\ status' = "cancelled"
  BY DEF Run!Cancel
<1>7. ASSUME NEW k \in DOMAIN sessions', sessions'[k].state = "active"
      PROVE  sessions'[k].batch \in strayed /\ sessions'[k].batch # 0
  <2>1. k \in DOMAIN sessions /\ k \notin Run!ToStop /\ sessions[k].state = "active"
        /\ sessions'[k].batch = sessions[k].batch
    BY <1>2, <1>3, <1>7
  <2>2. sessions[k].batch # 0
    BY <2>1 DEF Run!ToStop
  <2>3. ASSUME sessions[k].batch \notin strayed PROVE FALSE
    <3>1. PICK i \in Items: item[i].session = k /\ item[i].status \notin Run!Final
      BY <1>1, <2>1, <2>2, <2>3 DEF Good, Busy, AtWork
    <3>2. item[i].status \in {"queued", "running"}
      BY <1>1, <3>1 DEF Types, ItemState
    <3> QED
      BY <2>1, <3>1, <3>2 DEF Run!ToStop
  <2> QED
    BY <2>1, <2>2, <2>3
<1>8. WaitingOrWithin(item', sessions')
  <2> SUFFICES ASSUME NEW i \in Items
               PROVE  /\ item'[i].session <= Len(sessions')
                      /\ item'[i].status \notin {"queued", "running"}
                      /\ item'[i].status = "cancelled" /\ item'[i].session # 0 =>
                           sessions'[item'[i].session].state # "active"
    BY DEF WaitingOrWithin
  <2>1. item'[i].session <= Len(sessions')
    BY <1>1, <1>3, <1>4 DEF Good, WaitingOrWithin
  <2>2. item'[i].status \notin {"queued", "running"}
    BY <1>4 DEF Run!Final, Run!Results
  <2>3. ASSUME item'[i].status = "cancelled", item'[i].session # 0
        PROVE  sessions'[item'[i].session].state # "active"
    <3>1. item[i].session \in DOMAIN sessions /\ item[i].session # 0
      BY <1>1, <1>4, <2>3 DEF Good, WaitingOrWithin, Types, ItemState
    <3>2. item[i].session \in Run!ToStop \/ sessions[item[i].session].state # "active"
      BY <1>1, <1>4, <2>3, <3>1 DEF Good, WaitingOrWithin
    <3> QED
      BY <1>2, <1>4, <3>1, <3>2
  <2> QED
    BY <2>1, <2>2, <2>3
<1>9. Good(item', sessions', strayed)
  <2>1. Waits(item', strayed)
    BY <1>4 DEF Waits, Run!Final, Run!Results
  <2>2. Busy(item', sessions', strayed) /\ Alone(sessions', strayed)
    BY <1>7 DEF Busy, Alone, AtWork
  <2> QED
    BY <1>8, <2>1, <2>2 DEF Good
<1>10. SetupFirst'
  BY <1>7 DEF SetupFirst
<1>11. Stopped' /\ Run!ReviewedWhole'
  BY <1>4, <1>6, <1>7 DEF Stopped, Run!ReviewedWhole, Run!Settled
<1>12. Labels'
  BY <1>1 DEF Run!Cancel, Run!Served, Labels, Run!RunStatuses
<1> QED
  BY <1>5, <1>6, <1>9, <1>10, <1>11, <1>12 DEF RunInv

(* A review, a page, a button or a worker touches neither items nor        *)
(* sessions.                                                               *)
LEMMA ElsewhereKeeps ==
  ASSUME Run!RunAssumption, RunInv, UNCHANGED <<item, sessions, strayed>>, Labels',
         status' \in {status, "accepted", "blocked"}
  PROVE  RunInv'
<1>1. Types(item', sessions') /\ Good(item', sessions', strayed')
  BY DEF RunInv
<1>2. SetupFirst' /\ Run!ReviewedWhole' /\ Stopped'
  BY DEF RunInv, SetupFirst, Run!ReviewedWhole, Stopped, Run!Settled
<1> QED
  BY <1>1, <1>2 DEF RunInv

LEMMA RunStep == ASSUME Run!RunAssumption PROVE RunInv /\ [Run!Next]_(Run!vars) => RunInv'
<1> SUFFICES ASSUME RunInv, [Run!Next]_(Run!vars) PROVE RunInv'
  OBVIOUS
<1> USE Run!RunAssumption
<1>1. Labels
  BY DEF RunInv
<1>2. ASSUME NEW k \in DOMAIN sessions, Run!SetupFailed(k) \/ Run!SessionFailed(k) \/ Run!SessionStopped(k)
      PROVE  RunInv'
  <2>1. /\ sessions' = Run!Closed(k) /\ UNCHANGED <<item, strayed>> /\ status' \in {status, "setup_failed"}
        /\ Labels'
    BY <1>1, <1>2 DEF Run!SetupFailed, Run!SessionFailed, Run!SessionStopped, Labels, Run!RunStatuses
  <2> QED
    BY <2>1, SessionEndsKeeps
<1>3. ASSUME Run!Report PROVE RunInv'
  BY <1>2, <1>3, SetupPassedKeeps, ReportResultsKeeps DEF Run!Report
<1>4. ASSUME NEW b \in Batches, Run!WorkerChanges(b) PROVE RunInv'
  <2>1. Labels'
    BY <1>1, <1>4 DEF Labels, Run!WorkerChanges
  <2> QED
    BY <1>4, <2>1, ElsewhereKeeps DEF Run!WorkerChanges
<1>5. ASSUME NEW u \in Users, Run!Read(u) PROVE RunInv'
  <2>1. Labels'
    BY <1>1, <1>5 DEF Labels, Run!Read, Run!Offered
  <2> QED
    BY <1>5, <2>1, ElsewhereKeeps DEF Run!Read
<1>6. ASSUME NEW u \in Users, Run!Retry(u) \/ Run!Cancel(u) PROVE RunInv'
  BY <1>6, RetryKeeps, CancelKeeps
<1>7. ASSUME NEW u \in Users, Run!Review(u, "accept", "accepted") \/ Run!Review(u, "block", "blocked") PROVE RunInv'
  <2>1. Labels' /\ UNCHANGED <<item, sessions, strayed>> /\ status' \in {"accepted", "blocked"}
    BY <1>1, <1>7 DEF Labels, Run!Review, Run!Served, Run!RunStatuses, Run!Reviews
  <2> QED
    BY <2>1, ElsewhereKeeps
<1>8. ASSUME NEW u \in Users, NEW op \in Buttons, Run!Press(u, op) \/ Run!Refused(u, op) PROVE RunInv'
  <2>1. Labels' /\ UNCHANGED <<status, item, sessions, strayed>>
    BY <1>1, <1>8 DEF Labels, Run!Press, Run!Refused
  <2> QED
    BY <2>1, ElsewhereKeeps
<1>9. CASE UNCHANGED Run!vars
  <2>1. Labels' /\ UNCHANGED <<status, item, sessions, strayed>>
    BY <1>1, <1>9 DEF Labels, Run!vars
  <2> QED
    BY <2>1, ElsewhereKeeps
<1> QED
  BY <1>2, <1>3, <1>4, <1>5, <1>6, <1>7, <1>8, <1>9, OthersReportKeeps DEF Run!Next

LEMMA RunAlways == ASSUME Run!RunAssumption PROVE Run!Spec => []RunInv
<1>1. Run!Init => RunInv
  BY RunInit
<1>2. RunInv /\ [Run!Next]_(Run!vars) => RunInv'
  BY RunStep
<1> QED
  BY <1>1, <1>2, PTL DEF Run!Spec

-----------------------------------------------------------------------------
(* Every variable keeps its type: the sessions a start or a retry creates  *)
(* (startTestRunExecutionSessionsLocked) are numbered as they are stored.  *)
THEOREM RunTypesHold == ASSUME Run!RunAssumption PROVE Run!Spec => []Run!TypeOK
<1> QED
  BY RunTypes, RunAlways, PTL

(* A session works on its own batch only; no batch has two sessions at     *)
(* work, or one with nothing to report on, however retries, cancels, late  *)
(* presses and workers' reports, complete or not, cross (memory_store.go), *)
(* but a batch in which another session's report has ended an item.        *)
THEOREM ItemsHaveOneSession == ASSUME Run!RunAssumption PROVE Run!Spec => []Run!OneSessionPerItem
<1>1. RunInv => Run!OneSessionPerItem
  BY OneSession DEF RunInv
<1> QED
  BY <1>1, RunAlways, PTL

(* A run that waits for its review has a result for every item, and one    *)
(* that runs has an item without, unless results have strayed; a cancelled *)
(* one has nothing open, nobody goes on with an item that was cancelled,   *)
(* and who else is still at work is of a batch results have strayed into.  *)
THEOREM ReviewsAreWholeAndCancelsStop == ASSUME Run!RunAssumption PROVE Run!Spec => [](Run!ReviewedWhole /\ Run!CancelStopsAll)
<1>1. RunInv => Run!ReviewedWhole /\ Run!CancelStopsAll
  BY DEF RunInv, Stopped, Run!CancelStopsAll, Good, WaitingOrWithin
<1> QED
  BY <1>1, RunAlways, PTL
=============================================================================
