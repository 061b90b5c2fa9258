--------------------------- MODULE DeliveryProofs ---------------------------
(***************************************************************************)
(* What the issue page and the server keep true of a delivery: of the test *)
(* environment (Env), of the reading of its resources (Res) and of the     *)
(* pull request (Pull), for any windows, sessions, commits and failures.   *)
(***************************************************************************)
EXTENDS Naturals, Sequences, FiniteSets, FiniteSetTheorems, SequenceTheorems,
    WellFoundedInduction, TLAPS

CONSTANTS
    Windows, Database, Does, MaxSessions, MaxLeaves,
    Sections, MaxReads, MaxFails, MaxSteps,
    Branches, NoBranch, MaxNodes

VARIABLES
    env, testEnvironmentSessions, commits, testEnvironmentKnown, form,
    testEnvironmentPosts, checked, seen, visit,
    namespace, environmentResourcesKnown, tab, data, failed, reads, latest, entered,
    budget,
    nodes, pullRequestHandoffSessions, handoff, worker, pullRequestHandoffKnown, branch,
    pullRequestHandoffPosts, fails

Env == INSTANCE TestEnvironment WITH sessions <- testEnvironmentSessions,
    known <- testEnvironmentKnown, posts <- testEnvironmentPosts
Res == INSTANCE EnvironmentResources WITH known <- environmentResourcesKnown
Pull == INSTANCE PullRequestHandoff WITH sessions <- pullRequestHandoffSessions,
    known <- pullRequestHandoffKnown, posts <- pullRequestHandoffPosts

-----------------------------------------------------------------------------
(* The components count with the operator of FiniteSets.                   *)
LEMMA SameCardinality ==
    ASSUME NEW S
    PROVE  /\ Env!Cardinality(S) = Cardinality(S)
           /\ Res!Cardinality(S) = Cardinality(S)
           /\ Pull!Cardinality(S) = Cardinality(S)
BY DEF Cardinality, Env!Cardinality, Res!Cardinality, Pull!Cardinality

(* What holds at most one element is counted as at most one.               *)
LEMMA AtMostOne ==
    ASSUME NEW S, \A x, y \in S : x = y
    PROVE  Cardinality(S) \in Nat /\ Cardinality(S) <= 1
<1>1. CASE S = {}
  BY <1>1, FS_EmptySet
<1>2. ASSUME NEW x \in S PROVE S = {x}
  OBVIOUS
<1>3. \A x \in S : Cardinality({x}) = 1
  BY FS_Singleton
<1> QED
  BY <1>1, <1>2, <1>3

(* Sequences of sessions and of commits grow at the end and change in place. *)
LEMMA Element ==
    ASSUME NEW T, NEW s \in Seq(T)
    PROVE  Len(s) \in Nat /\ DOMAIN s = 1..Len(s) /\ \A n \in 1..Len(s) : s[n] \in T
OBVIOUS

LEMMA Appended ==
    ASSUME NEW T, NEW s \in Seq(T), NEW x \in T, NEW t, t = Append(s, x)
    PROVE  /\ t \in Seq(T) /\ Len(t) = Len(s) + 1 /\ DOMAIN t = 1..(Len(s) + 1)
           /\ t[Len(s) + 1] = x /\ \A n \in 1..Len(s) : t[n] = s[n]
OBVIOUS

LEMMA Replaced ==
    ASSUME NEW T, NEW s \in Seq(T), NEW n \in 1..Len(s), NEW x \in T, NEW t,
           t = [s EXCEPT ![n] = x]
    PROVE  /\ t \in Seq(T) /\ Len(t) = Len(s) /\ DOMAIN t = 1..Len(s)
           /\ t[n] = x /\ \A k \in 1..Len(s) : k # n => t[k] = s[k]
OBVIOUS

-----------------------------------------------------------------------------
(* The Resources tab. A reading lists kinds of objects, or nothing of a    *)
(* kind that could not be read. Readings are numbered as they are asked    *)
(* for, and what is shown is none of the future.                           *)

ListedItems == {{}} \cup {Res!Objects(Sections[k], life) : k \in DOMAIN Sections, life \in Res!Lives}
Listings == {x \in [ok : BOOLEAN, items : ListedItems] : x.ok \/ x.items = {}}
Readings == [n : 0..latest, got : Seq(Listings)]

ReadingsInv ==
    /\ namespace \in Res!Lives /\ environmentResourcesKnown \in BOOLEAN
    /\ tab \in {"overview", "resources"} /\ failed \in BOOLEAN
    /\ latest \in Nat /\ entered \in 0..latest
    /\ data \subseteq Readings /\ reads \subseteq Readings
    /\ \A d, e \in data : d = e
    /\ \A d \in data : Len(d.got) = Len(Sections)
    /\ \A r \in reads : Len(r.got) <= Len(Sections)
    /\ \A r, q \in reads : r.n = q.n => r = q

LEMMA ReadingsInit ==
    ASSUME Res!EnvironmentResourcesAssumption, Res!Init
    PROVE  ReadingsInv
<1>1. data = {} /\ reads = {} /\ latest = 0 /\ entered = 0 /\ failed \in BOOLEAN
      /\ environmentResourcesKnown \in BOOLEAN /\ namespace \in Res!Lives
      /\ tab \in {"overview", "resources"}
  BY DEF Res!Init, Res!Lives
<1>2. latest \in Nat /\ entered \in 0..latest
  BY <1>1
<1> QED
  BY <1>1, <1>2, Zenon DEF ReadingsInv

(* Asking again: the new request has a number of its own.                  *)
LEMMA RefetchKeeps ==
    ASSUME Res!EnvironmentResourcesAssumption, ReadingsInv, Res!Refetch,
           namespace' = namespace, environmentResourcesKnown' \in BOOLEAN,
           tab' \in {"overview", "resources"}, entered' \in {entered, latest}
    PROVE  ReadingsInv'
<1>1. latest' = latest + 1 /\ data' = data /\ failed' = failed
      /\ reads' = reads \cup {[n |-> latest + 1, got |-> <<>>]}
  BY DEF Res!Refetch, Res!Read
<1>2. Readings \subseteq Readings' /\ [n |-> latest + 1, got |-> <<>>] \in Readings'
  BY <1>1 DEF Readings, ReadingsInv, Listings, ListedItems
<1>3. \A r \in Readings : r.n <= latest
  BY DEF Readings, ReadingsInv
<1>4. Len(Sections) \in Nat
  BY DEF Res!EnvironmentResourcesAssumption
<1>5. reads' \subseteq Readings' /\ data' \subseteq Readings'
  BY <1>1, <1>2 DEF ReadingsInv
<1>6. \A r, q \in reads' : r.n = q.n => r = q
  BY <1>1, <1>3 DEF ReadingsInv
<1>7. \A r \in reads' : Len(r.got) <= Len(Sections)
  BY <1>1, <1>4 DEF ReadingsInv
<1> QED
  BY <1>1, <1>5, <1>6, <1>7 DEF ReadingsInv

LEMMA GotReplaced ==
    ASSUME NEW N, NEW G, NEW r \in [n : N, got : G], NEW x
    PROVE  [r EXCEPT !.got = x] = [n |-> r.n, got |-> x]
OBVIOUS

(* One more kind is listed, or could not be read.                          *)
LEMMA ListSectionKeeps ==
    ASSUME Res!EnvironmentResourcesAssumption, ReadingsInv,
           NEW r \in reads, NEW ok \in BOOLEAN, Res!ListSection(r, ok)
    PROVE  /\ ReadingsInv'
           /\ reads' = (reads \ {r}) \cup {[n |-> r.n, got |-> Append(r.got, Res!Listed(r, ok))]}
<1> DEFINE q == [n |-> r.n, got |-> Append(r.got, Res!Listed(r, ok))]
<1>1. r \in Readings /\ r.n \in 0..latest /\ r.got \in Seq(Listings) /\ Len(r.got) \in Nat
  BY DEF ReadingsInv, Readings
<1>2. [r EXCEPT !.got = Append(@, Res!Listed(r, ok))] = q
  BY <1>1, GotReplaced DEF Readings
<1>3. reads' = (reads \ {r}) \cup {q}
  BY <1>2 DEF Res!ListSection
<1>4. Len(Sections) \in Nat /\ DOMAIN Sections = 1..Len(Sections)
  BY DEF Res!EnvironmentResourcesAssumption
<1>5. Len(r.got) + 1 \in DOMAIN Sections
  BY <1>1, <1>4 DEF Res!ListSection
<1>6. Res!Objects(Sections[Len(r.got) + 1], namespace) \in ListedItems
  BY <1>5 DEF ListedItems, ReadingsInv
<1>7. Res!Listed(r, ok) \in Listings
  BY <1>6 DEF Res!Listed, Listings, ListedItems
<1>8. q \in Readings /\ Len(q.got) = Len(r.got) + 1
  BY <1>1, <1>7 DEF Readings
<1>9. UNCHANGED <<namespace, environmentResourcesKnown, tab, entered, data, failed, latest>>
  BY DEF Res!ListSection, Res!page
<1>10. Readings' = Readings
  BY <1>9 DEF Readings
<1>11. \A p, o \in reads' : p.n = o.n => p = o
  <2>1. q.n = r.n /\ \A p, o \in reads : p.n = o.n => p = o
    BY DEF ReadingsInv
  <2> QED
    BY <1>3, <2>1
<1>12. \A p \in reads' : Len(p.got) <= Len(Sections)
  BY <1>1, <1>3, <1>4, <1>8 DEF ReadingsInv, Res!ListSection
<1>13. reads' \subseteq Readings'
  BY <1>3, <1>8, <1>10 DEF ReadingsInv
<1> QED
  BY <1>3, <1>9, <1>10, <1>11, <1>12, <1>13 DEF ReadingsInv

LEMMA ReadingsStep ==
    ASSUME Res!EnvironmentResourcesAssumption, ReadingsInv, [Res!Next]_(Res!vars)
    PROVE  ReadingsInv'
<1> USE DEF Res!page, Res!query
<1>1. ASSUME NEW life \in Res!Lives, Res!NamespaceChanges(life) PROVE ReadingsInv'
  BY <1>1 DEF Res!NamespaceChanges, ReadingsInv, Readings
<1>2. CASE Res!EnvironmentAppears
  BY <1>2, RefetchKeeps DEF Res!EnvironmentAppears, ReadingsInv, Readings
<1>3. CASE Res!EnterTab
  BY <1>3, RefetchKeeps DEF Res!EnterTab, ReadingsInv, Readings
<1>4. CASE Res!LeaveTab
  BY <1>4 DEF Res!LeaveTab, ReadingsInv, Readings
<1>5. CASE Res!PressRefresh
  BY <1>5, RefetchKeeps DEF Res!PressRefresh, ReadingsInv
<1>6. ASSUME NEW r \in reads, Res!Answered(r) PROVE ReadingsInv'
  BY <1>6 DEF Res!Answered, ReadingsInv, Readings
<1>7. ASSUME NEW r \in reads, Res!ReadFails(r) PROVE ReadingsInv'
  BY <1>7 DEF Res!ReadFails, ReadingsInv, Readings
<1>8. CASE UNCHANGED Res!vars
  BY <1>8 DEF Res!vars, ReadingsInv, Readings
<1> QED
  BY <1>1, <1>2, <1>3, <1>4, <1>5, <1>6, <1>7, <1>8, ListSectionKeeps
  DEF Res!Next, Res!Serve

LEMMA ReadingsTyped ==
    ASSUME Res!EnvironmentResourcesAssumption, ReadingsInv
    PROVE  Res!TypeOK
<1>1. Res!Cardinality(data) <= 1
  BY AtMostOne, SameCardinality DEF ReadingsInv
<1>2. \A d \in data : Len(d.got) = Len(Sections) /\ d.n <= latest
  BY DEF ReadingsInv, Readings
<1>3. \A r \in reads : r.n <= latest /\ Len(r.got) <= Len(Sections)
  BY DEF ReadingsInv, Readings
<1>4. \A r \in reads : \A k \in DOMAIN r.got : r.got[k] \in Listings
  BY DEF ReadingsInv, Readings
<1>5. \A x \in Listings : x.ok \/ x.items = {}
  BY DEF Listings
<1> QED
  BY <1>1, <1>2, <1>3, <1>4, <1>5 DEF Res!TypeOK, ReadingsInv

(* What is on the page is never replaced by an older reading, and a kind   *)
(* is called empty only if it was when it was read.                        *)
LEMMA ReadingsTell ==
    ASSUME Res!EnvironmentResourcesAssumption, ReadingsInv, [Res!Next]_(Res!vars)
    PROVE  Res!NeverOlder /\ Res!EmptyIsTold
<1> USE DEF Res!page, Res!query
<1>0. \A r \in reads \cup data : r.n \in 0..latest /\ Len(r.got) \in Nat /\ r.got \in Seq(Listings)
  BY DEF ReadingsInv, Readings
<1>1. Res!NeverOlder
  <2>1. data' = data \/ \E r \in reads : r.n = latest /\ data' = {r}
    BY DEF Res!Next, Res!Serve, Res!vars, Res!NamespaceChanges, Res!EnvironmentAppears,
       Res!EnterTab, Res!LeaveTab, Res!PressRefresh, Res!Refetch, Res!Answered,
       Res!IsLatest, Res!ListSection, Res!ReadFails
  <2>2. latest \in Nat /\ \A d, e \in data : d = e
    BY DEF ReadingsInv
  <2> QED
    BY <1>0, <2>1, <2>2 DEF Res!NeverOlder
<1>2. ASSUME NEW k \in 1..Len(Sections), NEW r \in reads, Len(r.got) = k - 1,
             NEW q \in reads', q.n = r.n, Len(q.got) = k, q.got[k].ok, q.got[k].items = {}
      PROVE  Res!Objects(Sections[k], namespace) = {}
  <2>1. q \notin reads
    BY <1>2 DEF ReadingsInv
  <2>2. q # [n |-> latest + 1, got |-> <<>>]
    BY <1>0, <1>2
  <2>3. PICK p \in reads, ok \in BOOLEAN : Res!ListSection(p, ok)
    <3>1. reads' \subseteq reads \cup {[n |-> latest + 1, got |-> <<>>]}
          \/ \E p \in reads, ok \in BOOLEAN : Res!ListSection(p, ok)
      BY DEF Res!Next, Res!Serve, Res!vars, Res!NamespaceChanges, Res!EnvironmentAppears,
         Res!EnterTab, Res!LeaveTab, Res!PressRefresh, Res!Refetch, Res!Answered,
         Res!ReadFails, Res!Read
    <3> QED
      BY <2>1, <2>2, <3>1
  <2>4. q = [n |-> p.n, got |-> Append(p.got, Res!Listed(p, ok))]
    BY <2>1, <2>3, ListSectionKeeps
  <2>5. p = r
    BY <1>2, <2>4 DEF ReadingsInv
  <2>6. q.got[k] = Res!Listed(r, ok)
    BY <1>0, <1>2, <2>4, <2>5
  <2> QED
    BY <1>2, <2>6 DEF Res!Listed
<1> QED
  BY <1>1, <1>2 DEF Res!EmptyIsTold

(* The types of the Resources tab.                                         *)
THEOREM ResourcesTypeCorrect ==
    ASSUME Res!EnvironmentResourcesAssumption
    PROVE  Res!Spec => []Res!TypeOK
<1>1. Res!Init => ReadingsInv
  BY ReadingsInit
<1>2. ReadingsInv /\ [Res!Next]_(Res!vars) => ReadingsInv'
  BY ReadingsStep
<1>3. ReadingsInv => Res!TypeOK
  BY ReadingsTyped
<1> QED
  BY <1>1, <1>2, <1>3, PTL DEF Res!Spec

(* No reading on the way misleads (listIssueTestEnvironmentResources and   *)
(* the query of the tab): none is replaced by an older one, and a broken   *)
(* kind never passes for an empty one.                                     *)
THEOREM ResourcesNeverMislead ==
    ASSUME Res!EnvironmentResourcesAssumption
    PROVE  Res!Spec => [][Res!EmptyIsTold /\ Res!NeverOlder]_(Res!vars)
<1>1. Res!Init => ReadingsInv
  BY ReadingsInit
<1>2. ReadingsInv /\ [Res!Next]_(Res!vars) => ReadingsInv'
  BY ReadingsStep
<1>3. ReadingsInv /\ [Res!Next]_(Res!vars) => [Res!EmptyIsTold /\ Res!NeverOlder]_(Res!vars)
  BY ReadingsTell
<1> QED
  BY <1>1, <1>2, <1>3, PTL DEF Res!Spec

-----------------------------------------------------------------------------
(* The test environment. A record is backed by the sessions: it names      *)
(* sessions there are, there is a commit to deploy, and its commit is the  *)
(* one its deployment was given. That is true of the record that is saved  *)
(* and of each that a request of Postgres has read or is about to save.    *)

EnvRecords == Env!Envs \cup {Env!NoEnv}
Backed(e, sources, list) ==
    /\ e \in EnvRecords
    /\ e # Env!NoEnv =>
          /\ sources >= 1 /\ e.deploy \in 1..Len(list) /\ e.clean <= Len(list)
          /\ list[e.deploy].kind = "deploy" => e.source = list[e.deploy].commit

(* A source session that is active can add its commit, and is the only one.*)
SessionsInv ==
    /\ testEnvironmentSessions \in Seq(Env!Session)
    /\ Len(testEnvironmentSessions) <= MaxSessions
    /\ commits \in 0..Len(testEnvironmentSessions)
    /\ \A n \in Env!Active({"source"}) : commits < n
    /\ \A n, k \in Env!Active({"source"}) : n = k
    /\ ~Database => \A n, k \in Env!Active({"deploy", "cleanup"}) : n = k
    /\ \A n \in DOMAIN testEnvironmentSessions :
          testEnvironmentSessions[n].kind = "deploy" => testEnvironmentSessions[n].commit \in 1..commits
ServerInv == SessionsInv /\ Backed(env, commits, testEnvironmentSessions)

Details == [env : EnvRecords, active : BOOLEAN, commits : 0..MaxSessions]
PagesInv ==
    /\ testEnvironmentKnown \in [Windows -> SUBSET Details]
    /\ \A w \in Windows : \A d, e \in testEnvironmentKnown[w] : d = e
    /\ form \in [Windows -> 0..MaxSessions]
    /\ visit \in [Windows -> 0..MaxLeaves]

Operations == {"deploy", "cleanup", "retain", "probe"}
Posts == [win : Windows, op : Operations, visit : 0..MaxLeaves, commit : 0..MaxSessions,
          pc : {"sent", "read", "built", "asking", "answered"}, loaded : EnvRecords]
Loaded(r, sources, list) ==
    /\ r.pc \in {"read", "built", "asking"} => Database /\ Backed(r.loaded, sources, list)
    /\ r.pc \in {"built", "asking"} => r.loaded # Env!NoEnv
    /\ r.pc = "read" => /\ r.op \in {"deploy", "cleanup"}
                        /\ r.op = "deploy" => r.commit \in 1..sources
                        /\ r.op = "cleanup" => r.loaded # Env!NoEnv
PostsInv ==
    /\ testEnvironmentPosts \subseteq Posts
    /\ \A r \in testEnvironmentPosts : Loaded(r, commits, testEnvironmentSessions)
    /\ \A r, q \in testEnvironmentPosts : (r.win = q.win /\ r.op = q.op /\ r.visit = q.visit) => r = q

EnvInv == ServerInv /\ PagesInv /\ PostsInv

(* Sessions and commits are only added.                                    *)
Grows ==
    /\ commits' \in Nat /\ commits' >= commits
    /\ Len(testEnvironmentSessions') \in Nat
    /\ Len(testEnvironmentSessions') >= Len(testEnvironmentSessions)
    /\ \A n \in 1..Len(testEnvironmentSessions) :
          /\ testEnvironmentSessions'[n].kind = testEnvironmentSessions[n].kind
          /\ testEnvironmentSessions'[n].commit = testEnvironmentSessions[n].commit

LEMMA ServerCounts ==
    ASSUME Env!TestEnvironmentAssumption, SessionsInv
    PROVE  /\ MaxSessions \in Nat /\ MaxLeaves \in Nat
           /\ commits \in Nat /\ commits <= MaxSessions
           /\ Len(testEnvironmentSessions) \in Nat
           /\ DOMAIN testEnvironmentSessions = 1..Len(testEnvironmentSessions)
BY DEF Env!TestEnvironmentAssumption, SessionsInv

LEMMA RecordTyped ==
    ASSUME NEW e \in Env!Envs, MaxSessions \in Nat
    PROVE  /\ e.deploy \in Nat /\ e.clean \in Nat /\ e.source \in 1..MaxSessions
           /\ e # Env!NoEnv /\ e \in EnvRecords
BY DEF Env!Envs, Env!NoEnv, Env!Statuses, EnvRecords

LEMMA BackedLater ==
    ASSUME Env!TestEnvironmentAssumption, SessionsInv, Grows,
           NEW e, Backed(e, commits, testEnvironmentSessions)
    PROVE  Backed(e, commits', testEnvironmentSessions')
<1>1. CASE e = Env!NoEnv
  BY <1>1 DEF Backed
<1>2. CASE e \in Env!Envs
  <2>1. e.deploy \in Nat /\ e.clean \in Nat /\ e # Env!NoEnv /\ e \in EnvRecords
    BY <1>2, RecordTyped, ServerCounts
  <2>2. /\ commits >= 1 /\ e.deploy \in 1..Len(testEnvironmentSessions)
        /\ e.clean <= Len(testEnvironmentSessions)
        /\ testEnvironmentSessions[e.deploy].kind = "deploy"
              => e.source = testEnvironmentSessions[e.deploy].commit
    BY <2>1 DEF Backed
  <2>3. commits' >= 1 /\ e.deploy \in 1..Len(testEnvironmentSessions')
        /\ e.clean <= Len(testEnvironmentSessions')
    BY <2>1, <2>2, ServerCounts DEF Grows
  <2>4. testEnvironmentSessions'[e.deploy].kind = "deploy"
              => e.source = testEnvironmentSessions'[e.deploy].commit
    BY <2>2 DEF Grows
  <2> QED
    BY <2>1, <2>3, <2>4 DEF Backed
<1> QED
  BY <1>1, <1>2 DEF Backed, EnvRecords

LEMMA ServerStays ==
    ASSUME Env!TestEnvironmentAssumption, ServerInv, UNCHANGED Env!server
    PROVE  ServerInv' /\ Grows
BY ServerCounts DEF Env!server, ServerInv, SessionsInv, Grows, Env!Active

LEMMA NothingLoaded == Env!NoEnv \in EnvRecords
BY DEF EnvRecords

(* The windows' copies and choices do not depend on the server's state.    *)
LEMMA PagesStay ==
    ASSUME PagesInv, UNCHANGED <<testEnvironmentKnown, form, visit>>
    PROVE  PagesInv'
BY DEF PagesInv

(* What a request has loaded stays backed.                                 *)
LEMMA LoadedLater ==
    ASSUME Env!TestEnvironmentAssumption, SessionsInv, Grows,
           NEW r \in Posts, Loaded(r, commits, testEnvironmentSessions)
    PROVE  Loaded(r, commits', testEnvironmentSessions')
<1>1. r.commit \in 1..commits => r.commit \in 1..commits'
  BY ServerCounts DEF Grows
<1>2. Backed(r.loaded, commits, testEnvironmentSessions)
         => Backed(r.loaded, commits', testEnvironmentSessions')
  BY BackedLater
<1> QED
  BY <1>1, <1>2 DEF Loaded

LEMMA PostsStay ==
    ASSUME Env!TestEnvironmentAssumption, SessionsInv, PostsInv, Grows,
           testEnvironmentPosts' \subseteq testEnvironmentPosts
    PROVE  PostsInv'
<1>1. \A r \in testEnvironmentPosts : Loaded(r, commits', testEnvironmentSessions')
  BY LoadedLater DEF PostsInv
<1> QED
  BY <1>1 DEF PostsInv

(* A window asks once until it is answered.                                *)
LEMMA PostsAsked ==
    ASSUME Env!TestEnvironmentAssumption, ServerInv, PagesInv, PostsInv,
           UNCHANGED Env!server, NEW w \in Windows,
           NEW op \in Operations, NEW c \in 0..MaxSessions,
           Env!Asks(w, op, c), ~Env!Pending(w, op)
    PROVE  PostsInv'
<1> DEFINE q == [win |-> w, op |-> op, visit |-> visit[w], commit |-> c, pc |-> "sent",
                 loaded |-> Env!NoEnv]
<1>1. testEnvironmentPosts' = testEnvironmentPosts \cup {q}
  BY DEF Env!Asks, Env!Request
<1>2. q \in Posts
  BY NothingLoaded DEF Posts, PagesInv
<1>3. \A r \in testEnvironmentPosts : ~(r.win = q.win /\ r.op = q.op /\ r.visit = q.visit)
  BY DEF Env!Pending
<1>4. Loaded(q, commits, testEnvironmentSessions)
  BY DEF Loaded
<1>5. UNCHANGED <<commits, testEnvironmentSessions>>
  BY DEF Env!server
<1>6. \A r, p \in testEnvironmentPosts' :
         (r.win = p.win /\ r.op = p.op /\ r.visit = p.visit) => r = p
  BY <1>1, <1>3 DEF PostsInv
<1>7. \A r \in testEnvironmentPosts' : Loaded(r, commits', testEnvironmentSessions')
  BY <1>1, <1>4, <1>5 DEF PostsInv
<1> QED
  BY <1>1, <1>2, <1>6, <1>7 DEF PostsInv

(* A request takes its next step.                                          *)
LEMMA PostsGo ==
    ASSUME Env!TestEnvironmentAssumption, SessionsInv, PostsInv, Grows,
           NEW r \in testEnvironmentPosts, NEW q \in Posts, Env!Goes(r, q),
           q.win = r.win, q.op = r.op, q.visit = r.visit,
           Loaded(q, commits', testEnvironmentSessions')
    PROVE  PostsInv'
<1>1. testEnvironmentPosts' = (testEnvironmentPosts \ {r}) \cup {q}
  BY DEF Env!Goes
<1>2. \A p \in testEnvironmentPosts : Loaded(p, commits', testEnvironmentSessions')
  BY LoadedLater DEF PostsInv
<1>3. \A o, p \in testEnvironmentPosts' :
         (o.win = p.win /\ o.op = p.op /\ o.visit = p.visit) => o = p
  <2>1. \A o, p \in testEnvironmentPosts :
           (o.win = p.win /\ o.op = p.op /\ o.visit = p.visit) => o = p
    BY DEF PostsInv
  <2> QED
    BY <1>1, <2>1
<1>4. \A p \in testEnvironmentPosts' : Loaded(p, commits', testEnvironmentSessions')
  BY <1>1, <1>2
<1> QED
  BY <1>1, <1>3, <1>4 DEF PostsInv

(* A session is queued: no source session beside another, and a deployment *)
(* of a commit there is.                                                   *)
LEMMA QueueGrows ==
    ASSUME Env!TestEnvironmentAssumption, SessionsInv,
           NEW kind \in {"source", "deploy", "cleanup"}, NEW c \in 0..MaxSessions,
           Env!Queue(kind, c), commits' = commits
    PROVE  /\ Grows
           /\ testEnvironmentSessions' \in Seq(Env!Session)
           /\ Len(testEnvironmentSessions) < MaxSessions
           /\ Len(testEnvironmentSessions') = Len(testEnvironmentSessions) + 1
           /\ DOMAIN testEnvironmentSessions' = 1..(Len(testEnvironmentSessions) + 1)
           /\ testEnvironmentSessions'[Len(testEnvironmentSessions) + 1]
                 = [kind |-> kind, state |-> "active", commit |-> c]
           /\ \A n \in 1..Len(testEnvironmentSessions) :
                 testEnvironmentSessions'[n] = testEnvironmentSessions[n]
<1> DEFINE new == [kind |-> kind, state |-> "active", commit |-> c]
<1>1. testEnvironmentSessions' = Append(testEnvironmentSessions, new)
      /\ Len(testEnvironmentSessions) < MaxSessions
  BY DEF Env!Queue
<1>2. new \in Env!Session
  BY DEF Env!Session
<1> QED
  BY <1>1, <1>2, Appended, ServerCounts DEF SessionsInv, Grows

LEMMA QueueKeeps ==
    ASSUME Env!TestEnvironmentAssumption, SessionsInv,
           NEW kind \in {"source", "deploy", "cleanup"}, NEW c \in 0..MaxSessions,
           Env!Queue(kind, c), commits' = commits,
           kind = "source" => Env!Active({"source"}) = {},
           kind = "deploy" => c \in 1..commits,
           kind # "source" /\ ~Database => Env!Active({"deploy", "cleanup"}) = {}
    PROVE  SessionsInv' /\ Grows
<1> DEFINE ses == testEnvironmentSessions
           more == testEnvironmentSessions'
           count == Len(testEnvironmentSessions)
<1>1. /\ Grows /\ more \in Seq(Env!Session) /\ count < MaxSessions /\ Len(more) = count + 1
      /\ DOMAIN more = 1..(count + 1)
      /\ more[count + 1] = [kind |-> kind, state |-> "active", commit |-> c]
      /\ \A n \in 1..count : more[n] = ses[n]
  BY QueueGrows
<1>2. ASSUME NEW kinds PROVE Env!Active(kinds)' =
         Env!Active(kinds) \cup (IF kind \in kinds THEN {count + 1} ELSE {})
  <2>1. Env!Active(kinds)' = {n \in DOMAIN more : more[n].kind \in kinds /\ more[n].state = "active"}
    BY DEF Env!Active
  <2>2. \A n : n \in DOMAIN more <=> n \in DOMAIN ses \/ n = count + 1
    BY <1>1, ServerCounts
  <2>3. Env!Active(kinds) = {n \in DOMAIN ses : ses[n].kind \in kinds /\ ses[n].state = "active"}
    BY DEF Env!Active
  <2> HIDE DEF ses, more, count
  <2>4. more[count + 1].kind = kind /\ more[count + 1].state = "active"
    BY <1>1
  <2>5. DOMAIN ses = 1..count
    BY ServerCounts DEF ses, count
  <2>6. \A n \in DOMAIN ses : more[n] = ses[n]
    BY <1>1, <2>5
  <2> QED
    BY <2>1, <2>2, <2>3, <2>4, <2>6
<1>3. \A kinds : \A n \in Env!Active(kinds) : n \in 1..count
  BY ServerCounts DEF Env!Active
<1>4. commits \in 0..count /\ commits < count + 1 /\ Len(more) <= MaxSessions
      /\ commits' \in 0..Len(more)
  BY <1>1, ServerCounts DEF SessionsInv
<1>5. \A n \in Env!Active({"source"})' : commits' < n
  BY <1>2, <1>4 DEF SessionsInv
<1>6. \A n, k \in Env!Active({"source"})' : n = k
  BY <1>2 DEF SessionsInv
<1>7. ~Database => \A n, k \in Env!Active({"deploy", "cleanup"})' : n = k
  BY <1>2 DEF SessionsInv
<1>8. \A n \in DOMAIN more : more[n].kind = "deploy" => more[n].commit \in 1..commits
  BY <1>1, ServerCounts DEF SessionsInv
<1> QED
  BY <1>1, <1>4, <1>5, <1>6, <1>7, <1>8 DEF SessionsInv, Env!Active

LEMMA EnvShape ==
    ASSUME NEW e \in EnvRecords, MaxSessions \in Nat
    PROVE  e \in [status : Env!Statuses \cup {"none"}, cleanup : Env!Decisions \cup {"none"},
                  deploy : 0..MaxSessions, clean : 0..MaxSessions, source : 0..MaxSessions,
                  url : BOOLEAN]
<1>1. CASE e \in Env!Envs
  BY <1>1 DEF Env!Envs
<1>2. CASE e = Env!NoEnv
  BY <1>2 DEF Env!NoEnv
<1> QED
  BY <1>1, <1>2 DEF EnvRecords

(* What a request makes of a record is backed, once its session is queued. *)
LEMMA RequestedBacked ==
    ASSUME Env!TestEnvironmentAssumption, SessionsInv, NEW r \in Posts,
           r.op \in {"deploy", "cleanup"}, Env!Queue(r.op, r.commit), commits' = commits,
           NEW e, Backed(e, commits, testEnvironmentSessions),
           r.op = "deploy" => r.commit \in 1..commits,
           r.op = "cleanup" => e # Env!NoEnv
    PROVE  /\ Backed(Env!Requested(e, r, Len(testEnvironmentSessions')), commits',
                     testEnvironmentSessions')
           /\ Env!Requested(e, r, Len(testEnvironmentSessions')) \in Env!Envs
           /\ Env!Requested(e, r, Len(testEnvironmentSessions')).status # "active"
<1> DEFINE n == Len(testEnvironmentSessions')
           new == Env!Requested(e, r, n)
<1>1. /\ Grows /\ n = Len(testEnvironmentSessions) + 1
      /\ testEnvironmentSessions'[n] = [kind |-> r.op, state |-> "active", commit |-> r.commit]
      /\ n \in 1..MaxSessions
  BY QueueGrows, ServerCounts DEF Posts
<1>2. Backed(e, commits', testEnvironmentSessions')
  BY <1>1, BackedLater
<1>3. CASE r.op = "deploy"
  <2>1. new = [e EXCEPT !.status = "deploying", !.cleanup = "retained", !.source = r.commit,
                        !.deploy = n]
    BY <1>3 DEF Env!Requested, Env!Deploying
  <2>2. r.commit \in 1..MaxSessions /\ commits' >= 1
    BY <1>3, ServerCounts
  <2>3. e \in [status : Env!Statuses \cup {"none"}, cleanup : Env!Decisions \cup {"none"},
               deploy : 0..MaxSessions, clean : 0..MaxSessions, source : 0..MaxSessions,
               url : BOOLEAN]
    BY <1>2, EnvShape, ServerCounts DEF Backed
  <2>4. e.clean <= n
    <3>1. CASE e = Env!NoEnv
      BY <1>1, <3>1 DEF Env!NoEnv
    <3> QED
      BY <1>2, <3>1 DEF Backed
  <2>5. new \in Env!Envs /\ new.deploy = n /\ new.clean = e.clean /\ new.source = r.commit
        /\ new.status = "deploying"
    BY <1>1, <2>1, <2>2, <2>3, ServerCounts DEF Env!Envs, Env!Statuses, Env!Decisions
  <2>6. new # Env!NoEnv /\ new \in EnvRecords
    BY <2>5, RecordTyped, ServerCounts
  <2> HIDE DEF new
  <2>7. Backed(new, commits', testEnvironmentSessions')
    BY <1>1, <2>2, <2>4, <2>5, <2>6 DEF Backed
  <2> QED
    BY <2>5, <2>7 DEF new
<1>4. CASE r.op = "cleanup"
  <2>1. new = [e EXCEPT !.status = "cleanup_requested", !.cleanup = "cleanup_requested",
                        !.clean = n]
    BY <1>4 DEF Env!Requested, Env!CleaningUp
  <2>2. e \in Env!Envs /\ commits' >= 1 /\ e.deploy \in 1..n
        /\ (testEnvironmentSessions'[e.deploy].kind = "deploy"
               => e.source = testEnvironmentSessions'[e.deploy].commit)
    BY <1>2, <1>4 DEF Backed, EnvRecords
  <2>3. new \in Env!Envs /\ new.deploy = e.deploy /\ new.clean = n /\ new.source = e.source
        /\ new.status = "cleanup_requested"
    <3>1. e \in Env!Envs /\ n \in 0..MaxSessions
      BY <1>1, <2>2, ServerCounts
    <3> HIDE DEF n
    <3> QED
      BY <2>1, <3>1 DEF Env!Envs, Env!Statuses, Env!Decisions
  <2>4. new # Env!NoEnv /\ new \in EnvRecords
    BY <2>3, RecordTyped, ServerCounts
  <2> HIDE DEF new
  <2>5. Backed(new, commits', testEnvironmentSessions')
    BY <1>1, <2>2, <2>3, <2>4, ServerCounts DEF Backed
  <2> QED
    BY <2>3, <2>5 DEF new
<1> QED
  BY <1>3, <1>4

(* The record changes, the sessions and commits do not.                    *)
LEMMA RecordChanges ==
    ASSUME Env!TestEnvironmentAssumption, SessionsInv,
           UNCHANGED <<testEnvironmentSessions, commits>>,
           Backed(env', commits, testEnvironmentSessions)
    PROVE  ServerInv' /\ Grows
BY ServerCounts DEF ServerInv, SessionsInv, Grows, Env!Active

(* Only what is said of the record changes: what it names stays backed.    *)
LEMMA StatusChanges ==
    ASSUME NEW e \in Env!Envs, NEW sources, NEW list, Backed(e, sources, list), MaxSessions \in Nat,
           NEW d \in Env!Envs, d.deploy = e.deploy, d.clean = e.clean, d.source = e.source
    PROVE  Backed(d, sources, list)
<1>1. e # Env!NoEnv /\ d # Env!NoEnv /\ d \in EnvRecords
  BY RecordTyped
<1> QED
  BY <1>1 DEF Backed

(* A session ends; it may have been the deployment, the cleanup, or another*)
(* one that brought a preview.                                             *)
LEMMA EndsGrow ==
    ASSUME Env!TestEnvironmentAssumption, SessionsInv,
           NEW n, NEW state \in {"completed", "failed", "cancelled"}, Env!Ends(n, state)
    PROVE  /\ n \in 1..Len(testEnvironmentSessions) /\ testEnvironmentSessions[n].state = "active"
           /\ testEnvironmentSessions[n] \in Env!Session
           /\ testEnvironmentSessions' \in Seq(Env!Session)
           /\ Len(testEnvironmentSessions') = Len(testEnvironmentSessions)
           /\ DOMAIN testEnvironmentSessions' = 1..Len(testEnvironmentSessions)
           /\ testEnvironmentSessions'[n].state = state
           /\ \A k \in 1..Len(testEnvironmentSessions) :
                 /\ testEnvironmentSessions'[k].kind = testEnvironmentSessions[k].kind
                 /\ testEnvironmentSessions'[k].commit = testEnvironmentSessions[k].commit
                 /\ k # n => testEnvironmentSessions'[k] = testEnvironmentSessions[k]
<1> DEFINE ses == testEnvironmentSessions
           done == [ses[n] EXCEPT !.state = state]
<1>1. n \in 1..Len(ses) /\ ses[n].state = "active" /\ ses' = [ses EXCEPT ![n].state = state]
  BY ServerCounts DEF Env!Ends
<1>2. ses[n] \in Env!Session
  BY <1>1, Element DEF SessionsInv
<1>3. done \in Env!Session /\ done.kind = ses[n].kind /\ done.commit = ses[n].commit
      /\ done.state = state
  BY <1>2 DEF Env!Session
<1>4. ses' = [ses EXCEPT ![n] = done]
  BY <1>1
<1>5. ses' \in Seq(Env!Session) /\ Len(ses') = Len(ses) /\ DOMAIN ses' = 1..Len(ses)
      /\ ses'[n] = done /\ \A k \in 1..Len(ses) : k # n => ses'[k] = ses[k]
  BY <1>1, <1>3, <1>4, Replaced, ServerCounts DEF SessionsInv
<1> QED
  BY <1>1, <1>2, <1>3, <1>5

LEMMA EndsKeeps ==
    ASSUME Env!TestEnvironmentAssumption, SessionsInv,
           NEW n, NEW state \in {"completed", "failed", "cancelled"}, Env!Ends(n, state),
           \/ commits' = commits
           \/ commits' = commits + 1 /\ testEnvironmentSessions[n].kind = "source"
    PROVE  SessionsInv' /\ Grows
<1> DEFINE ses == testEnvironmentSessions
           after == testEnvironmentSessions'
           count == Len(testEnvironmentSessions)
<1>1. /\ n \in 1..count /\ ses[n].state = "active" /\ after \in Seq(Env!Session)
      /\ Len(after) = count /\ DOMAIN after = 1..count /\ after[n].state = state
      /\ \A k \in 1..count : /\ after[k].kind = ses[k].kind /\ after[k].commit = ses[k].commit
                             /\ k # n => after[k] = ses[k]
  BY EndsGrow
<1>2. ASSUME NEW kinds PROVE Env!Active(kinds)' = Env!Active(kinds) \ {n}
  <2>1. Env!Active(kinds)' = {k \in DOMAIN after : after[k].kind \in kinds /\ after[k].state = "active"}
    BY DEF Env!Active
  <2>2. Env!Active(kinds) = {k \in 1..count : ses[k].kind \in kinds /\ ses[k].state = "active"}
    BY ServerCounts DEF Env!Active
  <2> HIDE DEF ses, after, count
  <2> QED
    BY <1>1, <2>1, <2>2
<1>3. commits' = commits + 1 => n \in Env!Active({"source"})
  BY <1>1, ServerCounts DEF Env!Active
<1>4. /\ commits' \in 0..Len(after) /\ commits' >= commits /\ Len(after) <= MaxSessions
      /\ \A k \in Env!Active({"source"})' : commits' < k
  BY <1>1, <1>2, <1>3, ServerCounts DEF SessionsInv
<1>5. /\ \A k, m \in Env!Active({"source"})' : k = m
      /\ ~Database => \A k, m \in Env!Active({"deploy", "cleanup"})' : k = m
  BY <1>2 DEF SessionsInv
<1>6. \A k \in DOMAIN after : after[k].kind = "deploy" => after[k].commit \in 1..commits'
  BY <1>1, <1>4, ServerCounts DEF SessionsInv
<1>7. Grows
  BY <1>1, <1>4, ServerCounts DEF Grows
<1> QED
  BY <1>1, <1>4, <1>5, <1>6, <1>7 DEF SessionsInv, Env!Active

LEMMA SucceedsKeeps ==
    ASSUME Env!TestEnvironmentAssumption, ServerInv, NEW n, NEW preview \in BOOLEAN,
           Env!SessionSucceeds(n, preview)
    PROVE  ServerInv' /\ Grows
<1> DEFINE ses == testEnvironmentSessions
           after == testEnvironmentSessions'
           count == Len(testEnvironmentSessions)
<1>1. Env!Ends(n, "completed")
      /\ \/ commits' = commits
         \/ commits' = commits + 1 /\ ses[n].kind = "source"
  BY DEF Env!SessionSucceeds
<1>2. SessionsInv' /\ Grows
  BY <1>1, EndsKeeps DEF ServerInv
<1>3. /\ n \in 1..count /\ ses[n] \in Env!Session /\ Len(after) = count
      /\ after[n].kind = ses[n].kind /\ after[n].commit = ses[n].commit
  BY <1>1, EndsGrow DEF ServerInv
<1>4. Backed(env, commits', after)
  BY <1>2, BackedLater DEF ServerInv
<1>5. n \in 1..MaxSessions /\ commits' \in 0..MaxSessions /\ MaxSessions \in Nat
  BY <1>2, <1>3, ServerCounts DEF SessionsInv, ServerInv
<1>6. Backed(env', commits', after)
  <2>1. CASE env' = env
    BY <1>4, <2>1
  <2>2. CASE env = Env!NoEnv /\ env' # env
    <3>1. env.deploy = 0 /\ env.clean = 0
      BY <2>2 DEF Env!NoEnv
    <3> QED
      BY <1>3, <2>2, <3>1, ServerCounts DEF Env!SessionSucceeds, Env!Exists, ServerInv
  <2>3. CASE env # Env!NoEnv
    <3>1. env \in Env!Envs /\ commits' >= 1 /\ env.clean <= count
      BY <1>3, <1>4, <2>3 DEF Backed, EnvRecords
    <3>2. CASE env' = [env EXCEPT !.status = "active", !.cleanup = "retained",
                                  !.url = @ \/ preview]
      <4>1. env' \in Env!Envs /\ env'.deploy = env.deploy /\ env'.clean = env.clean
            /\ env'.source = env.source
        BY <3>1, <3>2 DEF Env!Envs, Env!Statuses, Env!Decisions
      <4> QED
        BY <1>4, <1>5, <3>1, <4>1, StatusChanges
    <3>3. CASE env' = [env EXCEPT !.status = "cleaned", !.cleanup = "cleaned"]
      <4>1. env' \in Env!Envs /\ env'.deploy = env.deploy /\ env'.clean = env.clean
            /\ env'.source = env.source
        BY <3>1, <3>3 DEF Env!Envs, Env!Statuses, Env!Decisions
      <4> QED
        BY <1>4, <1>5, <3>1, <4>1, StatusChanges
    <3>4. CASE env' = [env EXCEPT !.status = "active", !.cleanup = "retained", !.url = TRUE,
                                  !.deploy = n, !.source = Env!SourceOf(n)]
      <4>1. /\ Env!SourceOf(n) \in 1..MaxSessions
            /\ ses[n].kind = "deploy" => Env!SourceOf(n) = ses[n].commit
        <5>1. CASE ses[n].kind = "source"
          BY <1>5, <3>1, <5>1 DEF Env!SourceOf
        <5>2. CASE ses[n].kind = "deploy"
          BY <1>3, <5>2, ServerCounts DEF Env!SourceOf, ServerInv, SessionsInv
        <5>3. CASE ses[n].kind = "cleanup"
          BY <1>5, <3>1, <5>3, RecordTyped DEF Env!SourceOf
        <5> QED
          BY <1>3, <5>1, <5>2, <5>3 DEF Env!Session
      <4>2. env' \in Env!Envs /\ env'.deploy = n /\ env'.clean = env.clean
            /\ env'.source = Env!SourceOf(n)
        BY <1>5, <3>1, <3>4, <4>1 DEF Env!Envs, Env!Statuses, Env!Decisions
      <4>3. env' # Env!NoEnv /\ env' \in EnvRecords
        BY <1>5, <4>2, RecordTyped
      <4> QED
        BY <1>3, <3>1, <4>1, <4>2, <4>3 DEF Backed
    <3> QED
      BY <2>1, <3>2, <3>3, <3>4 DEF Env!SessionSucceeds
  <2> QED
    BY <2>1, <2>2, <2>3
<1> QED
  BY <1>2, <1>6 DEF ServerInv

LEMMA StopsKeeps ==
    ASSUME Env!TestEnvironmentAssumption, ServerInv, NEW n, NEW state, Env!SessionStops(n, state)
    PROVE  ServerInv' /\ Grows
<1> DEFINE count == Len(testEnvironmentSessions)
<1>1. state \in {"failed", "cancelled"} /\ Env!Ends(n, state) /\ commits' = commits
  BY DEF Env!SessionStops
<1>2. SessionsInv' /\ Grows
  BY <1>1, EndsKeeps DEF ServerInv
<1>3. n \in 1..count /\ MaxSessions \in Nat
  BY <1>1, EndsGrow, ServerCounts DEF ServerInv
<1>4. Backed(env, commits', testEnvironmentSessions')
  BY <1>2, BackedLater DEF ServerInv
<1>5. Backed(env', commits', testEnvironmentSessions')
  <2>1. CASE env' = env
    BY <1>4, <2>1
  <2>2. CASE env = Env!NoEnv /\ env' # env
    <3>1. env.deploy = 0 /\ env.clean = 0
      BY <2>2 DEF Env!NoEnv
    <3> QED
      BY <1>3, <2>2, <3>1, ServerCounts DEF Env!SessionStops, Env!Exists, ServerInv
  <2>3. CASE env \in Env!Envs /\ env' # env
    <3>1. env' \in Env!Envs /\ env'.deploy = env.deploy /\ env'.clean = env.clean
          /\ env'.source = env.source
      BY <1>1, <2>3 DEF Env!SessionStops, Env!Envs, Env!Statuses, Env!Decisions
    <3> QED
      BY <1>3, <1>4, <2>3, <3>1, StatusChanges
  <2> QED
    BY <1>4, <2>1, <2>2, <2>3 DEF Backed, EnvRecords
<1> QED
  BY <1>2, <1>5 DEF ServerInv

(* A step of the server leaves the pages alone.                            *)
LEMMA ServerMoves ==
    ASSUME Env!TestEnvironmentAssumption, EnvInv, ServerInv', Grows,
           UNCHANGED <<testEnvironmentKnown, Env!ui, testEnvironmentPosts>>
    PROVE  EnvInv'
BY PagesStay, PostsStay DEF EnvInv, ServerInv, Env!ui

LEMMA DetailTyped ==
    ASSUME Env!TestEnvironmentAssumption, EnvInv, NEW w \in Windows,
           testEnvironmentKnown[w] # {}
    PROVE  /\ Env!Detail(w) \in Details
           /\ Env!DefaultCommit(w) \in 0..MaxSessions
<1>1. Env!Detail(w) \in Details
  BY DEF Env!Detail, EnvInv, PagesInv
<1>2. Env!Shown(w) \in EnvRecords /\ Env!Detail(w).commits \in 0..MaxSessions
  BY <1>1 DEF Env!Shown, Details
<1>3. Env!Shown(w).source \in 0..MaxSessions
  BY <1>2, EnvShape, ServerCounts DEF EnvInv, ServerInv
<1> QED
  BY <1>1, <1>2, <1>3 DEF Env!DefaultCommit

LEMMA FormKeeps ==
    ASSUME Env!TestEnvironmentAssumption, EnvInv, NEW w \in Windows,
           NEW c \in 0..MaxSessions, form' = [form EXCEPT ![w] = c],
           UNCHANGED <<Env!server, testEnvironmentKnown, testEnvironmentPosts, visit>>
    PROVE  EnvInv'
<1>1. ServerInv' /\ Grows
  BY ServerStays DEF EnvInv
<1>2. PagesInv'
  BY DEF EnvInv, PagesInv
<1> QED
  BY <1>1, <1>2, PostsStay DEF EnvInv, ServerInv

LEMMA AskKeeps ==
    ASSUME Env!TestEnvironmentAssumption, EnvInv, NEW w \in Windows,
           NEW op \in Operations, NEW c \in 0..MaxSessions,
           Env!Asks(w, op, c), ~Env!Pending(w, op),
           UNCHANGED <<Env!server, testEnvironmentKnown, form, visit>>
    PROVE  EnvInv'
<1>1. ServerInv' /\ Grows
  BY ServerStays DEF EnvInv
<1> QED
  BY <1>1, PostsAsked, PagesStay DEF EnvInv

(* What a window reads is typed, whether by a poll or after its request.   *)
LEMMA ReadKeeps ==
    ASSUME Env!TestEnvironmentAssumption, EnvInv, NEW w \in Windows,
           testEnvironmentKnown' = [testEnvironmentKnown EXCEPT ![w] = Env!Copy],
           form' = form \/ form' = [form EXCEPT ![w] = 0], UNCHANGED <<Env!server, visit>>,
           testEnvironmentPosts' \subseteq testEnvironmentPosts
    PROVE  EnvInv'
<1>1. ServerInv' /\ Grows
  BY ServerStays DEF EnvInv
<1>2. Env!Copy = {[env |-> env, active |-> Env!HasActive, commits |-> commits]}
  BY DEF Env!Copy
<1>3. env \in EnvRecords /\ Env!HasActive \in BOOLEAN /\ commits \in 0..MaxSessions
  BY ServerCounts DEF EnvInv, ServerInv, SessionsInv, Backed, Env!HasActive
<1>4. [env |-> env, active |-> Env!HasActive, commits |-> commits] \in Details
  BY <1>3 DEF Details
<1>5. Env!Copy \subseteq Details /\ \A d, e \in Env!Copy : d = e
  BY <1>2, <1>4
<1>6. MaxSessions \in Nat
  BY ServerCounts DEF EnvInv, ServerInv
<1>7. PagesInv'
  BY <1>5, <1>6 DEF EnvInv, PagesInv
<1> QED
  BY <1>1, <1>7, PostsStay DEF EnvInv, ServerInv

LEMMA PostTyped ==
    ASSUME EnvInv, NEW r \in testEnvironmentPosts,
           NEW pc \in {"sent", "read", "built", "asking", "answered"}
    PROVE  /\ [r EXCEPT !.pc = pc] \in Posts /\ [r EXCEPT !.pc = pc].pc = pc
           /\ [r EXCEPT !.pc = pc].win = r.win /\ [r EXCEPT !.pc = pc].op = r.op
           /\ [r EXCEPT !.pc = pc].visit = r.visit
<1>1. r \in Posts
  BY DEF EnvInv, PostsInv
<1> QED
  BY <1>1 DEF Posts

(* What a request saves: the record as it changes it.                      *)
LEMMA RetainedBacked ==
    ASSUME Env!TestEnvironmentAssumption, ServerInv, env # Env!NoEnv
    PROVE  /\ Env!Retained(env) \in Env!Envs /\ Env!Retained(env).status = env.status
           /\ Env!Retained(env).deploy = env.deploy
           /\ Backed(Env!Retained(env), commits, testEnvironmentSessions)
<1>1. env \in Env!Envs /\ Backed(env, commits, testEnvironmentSessions)
  BY DEF ServerInv, Backed, EnvRecords
<1>2. /\ Env!Retained(env) \in Env!Envs /\ Env!Retained(env).status = env.status
      /\ Env!Retained(env).deploy = env.deploy /\ Env!Retained(env).clean = env.clean
      /\ Env!Retained(env).source = env.source
  BY <1>1 DEF Env!Retained, Env!Envs, Env!Decisions
<1> QED
  BY <1>1, <1>2, StatusChanges, ServerCounts DEF ServerInv

LEMMA HandledKeeps ==
    ASSUME Env!TestEnvironmentAssumption, EnvInv, NEW r \in testEnvironmentPosts, Env!Handled(r)
    PROVE  ServerInv' /\ Grows
<1>1. /\ ~Database /\ Env!Accepts(r) /\ commits' = commits
      /\ env' = Env!Requested(env, r, Len(testEnvironmentSessions'))
  BY DEF Env!Handled
<1>2. r \in Posts /\ r.commit \in 0..MaxSessions
  BY DEF EnvInv, PostsInv, Posts
<1>3. CASE r.op = "retain"
  <2>1. env # Env!NoEnv /\ UNCHANGED testEnvironmentSessions
    BY <1>1, <1>3 DEF Env!Accepts, Env!Exists, Env!Handled
  <2>2. env' = Env!Retained(env)
    BY <1>1, <1>3 DEF Env!Requested
  <2> QED
    BY <1>1, <2>1, <2>2, RetainedBacked, RecordChanges DEF EnvInv, ServerInv
<1>4. CASE r.op # "retain"
  <2>1. r.op \in {"deploy", "cleanup"} /\ Env!Queue(r.op, r.commit)
        /\ Env!Active({"source", "deploy", "cleanup"}) = {}
    BY <1>1, <1>4 DEF Env!Accepts, Env!Handled, Env!HasActive
  <2>2. Env!Active({"deploy", "cleanup"}) = {}
    BY <2>1 DEF Env!Active
  <2>3. /\ r.op = "deploy" => r.commit \in 1..commits
        /\ r.op = "cleanup" => env # Env!NoEnv
    BY <1>1 DEF Env!Accepts, Env!Exists
  <2>4. SessionsInv' /\ Grows
    BY <1>1, <1>2, <2>1, <2>2, <2>3, QueueKeeps DEF EnvInv, ServerInv
  <2>5. Backed(env', commits', testEnvironmentSessions')
    BY <1>1, <1>2, <2>1, <2>3, RequestedBacked DEF EnvInv, ServerInv
  <2> QED
    BY <2>4, <2>5 DEF ServerInv
<1> QED
  BY <1>3, <1>4

(* The three steps of a request in Postgres.                               *)
LEMMA ReadIssueKeeps ==
    ASSUME Env!TestEnvironmentAssumption, EnvInv, NEW r \in testEnvironmentPosts, Env!ReadIssue(r)
    PROVE  ServerInv' /\ PostsInv'
<1> DEFINE kept == [r EXCEPT !.pc = "built", !.loaded = Env!Retained(env)]
           read == [r EXCEPT !.pc = "read", !.loaded = env]
<1>1. /\ Database /\ Env!Accepts(r) /\ UNCHANGED Env!server
      /\ r.op = "retain" => Env!Goes(r, kept)
      /\ r.op # "retain" => Env!Goes(r, read)
  BY DEF Env!ReadIssue
<1>2. ServerInv' /\ Grows /\ commits' = commits /\ testEnvironmentSessions' = testEnvironmentSessions
  BY <1>1, ServerStays DEF EnvInv, Env!server
<1>3. r \in Posts
  BY DEF EnvInv, PostsInv
<1>4. Backed(env, commits, testEnvironmentSessions) /\ env \in EnvRecords
  BY DEF EnvInv, ServerInv, Backed
<1>5. CASE r.op = "retain"
  <2>1. env # Env!NoEnv
    BY <1>1, <1>5 DEF Env!Accepts, Env!Exists
  <2>2. /\ Backed(Env!Retained(env), commits, testEnvironmentSessions)
        /\ Env!Retained(env) # Env!NoEnv /\ Env!Retained(env) \in EnvRecords
    BY <2>1, RetainedBacked, RecordTyped, ServerCounts DEF EnvInv, ServerInv
  <2>3. /\ kept \in Posts /\ kept.pc = "built" /\ kept.loaded = Env!Retained(env)
        /\ kept.win = r.win /\ kept.op = r.op /\ kept.visit = r.visit
    BY <1>3, <2>2 DEF Posts
  <2>4. Loaded(kept, commits, testEnvironmentSessions)
    BY <1>1, <2>2, <2>3 DEF Loaded
  <2> HIDE DEF kept
  <2> QED
    BY <1>1, <1>2, <1>5, <2>3, <2>4, PostsGo DEF EnvInv, ServerInv
<1>6. CASE r.op # "retain"
  <2>1. /\ read \in Posts /\ read.pc = "read" /\ read.loaded = env /\ read.commit = r.commit
        /\ read.win = r.win /\ read.op = r.op /\ read.visit = r.visit
    BY <1>3, <1>4 DEF Posts
  <2>2. /\ r.op \in {"deploy", "cleanup"} /\ Backed(env, commits, testEnvironmentSessions)
        /\ r.op = "deploy" => r.commit \in 1..commits
        /\ r.op = "cleanup" => env # Env!NoEnv
    BY <1>1, <1>6, <1>4 DEF Env!Accepts, Env!Exists
  <2> HIDE DEF read
  <2>3. Loaded(read, commits, testEnvironmentSessions)
    BY <1>1, <2>1, <2>2 DEF Loaded
  <2> QED
    BY <1>1, <1>2, <1>6, <2>1, <2>3, PostsGo DEF EnvInv, ServerInv
<1> QED
  BY <1>2, <1>5, <1>6

LEMMA CreateSessionKeeps ==
    ASSUME Env!TestEnvironmentAssumption, EnvInv, NEW r \in testEnvironmentPosts,
           Env!CreateAgentSession(r)
    PROVE  ServerInv' /\ PostsInv'
<1> DEFINE new == Env!Requested(r.loaded, r, Len(testEnvironmentSessions'))
           built == [r EXCEPT !.pc = "built", !.loaded = new]
<1>1. /\ r.pc = "read" /\ Env!Queue(r.op, r.commit) /\ Env!Goes(r, built)
      /\ env' = env /\ commits' = commits
  BY DEF Env!CreateAgentSession
<1>2. r \in Posts /\ r.commit \in 0..MaxSessions /\ Loaded(r, commits, testEnvironmentSessions)
  BY DEF EnvInv, PostsInv, Posts
<1>3. /\ Database /\ Backed(r.loaded, commits, testEnvironmentSessions)
      /\ r.op \in {"deploy", "cleanup"}
      /\ r.op = "deploy" => r.commit \in 1..commits
      /\ r.op = "cleanup" => r.loaded # Env!NoEnv
  BY <1>1, <1>2 DEF Loaded
<1>4. SessionsInv' /\ Grows
  BY <1>1, <1>2, <1>3, QueueKeeps DEF EnvInv, ServerInv
<1>5. Backed(env', commits', testEnvironmentSessions')
  BY <1>1, <1>4, BackedLater DEF EnvInv, ServerInv
<1>6. Backed(new, commits', testEnvironmentSessions') /\ new \in Env!Envs
  BY <1>1, <1>2, <1>3, RequestedBacked DEF EnvInv, ServerInv
<1>7. new # Env!NoEnv /\ new \in EnvRecords
  BY <1>6, RecordTyped, ServerCounts DEF EnvInv, ServerInv
<1> HIDE DEF new
<1>8. /\ built \in Posts /\ built.pc = "built" /\ built.loaded = new
      /\ built.win = r.win /\ built.op = r.op /\ built.visit = r.visit
  BY <1>2, <1>7 DEF Posts
<1>9. Loaded(built, commits', testEnvironmentSessions')
  BY <1>3, <1>6, <1>7, <1>8 DEF Loaded
<1> HIDE DEF built
<1>10. PostsInv'
  BY <1>1, <1>4, <1>8, <1>9, PostsGo DEF EnvInv, ServerInv
<1> QED
  BY <1>4, <1>5, <1>10 DEF ServerInv

(* A request that ends saves what was backed when it was read.             *)
LEMMA RequestsSave ==
    ASSUME Env!TestEnvironmentAssumption, EnvInv, NEW r \in testEnvironmentPosts,
           UNCHANGED <<testEnvironmentSessions, commits>>,
           Backed(env', commits, testEnvironmentSessions),
           Env!Goes(r, [r EXCEPT !.pc = "answered"])
    PROVE  ServerInv' /\ PostsInv'
<1> DEFINE told == [r EXCEPT !.pc = "answered"]
<1>1. /\ told \in Posts /\ told.pc = "answered" /\ told.win = r.win /\ told.op = r.op
      /\ told.visit = r.visit
  BY PostTyped
<1>2. Loaded(told, commits', testEnvironmentSessions')
  BY <1>1 DEF Loaded
<1>3. ServerInv' /\ Grows
  BY RecordChanges DEF EnvInv, ServerInv
<1> HIDE DEF told
<1> QED
  BY <1>1, <1>2, <1>3, PostsGo DEF EnvInv, ServerInv, told

LEMMA ProbeKeeps ==
    ASSUME Env!TestEnvironmentAssumption, EnvInv, NEW r \in testEnvironmentPosts,
           Env!ProbeIssueTestEnvironment(r)
    PROVE  ServerInv' /\ PostsInv'
<1> DEFINE asks == [r EXCEPT !.pc = "asking", !.loaded = env]
<1>1. UNCHANGED <<testEnvironmentSessions, commits>>
  BY DEF Env!ProbeIssueTestEnvironment
<1>2. Backed(env, commits, testEnvironmentSessions) /\ env \in EnvRecords
  BY DEF EnvInv, ServerInv, Backed
<1>3. env.url => env # Env!NoEnv
  BY DEF Env!NoEnv
<1>4. CASE Database /\ env.url
  <2>1. Env!Goes(r, asks) /\ env' = env
    BY <1>4 DEF Env!ProbeIssueTestEnvironment
  <2>2. ServerInv' /\ Grows
    BY <1>1, <1>2, <2>1, RecordChanges DEF EnvInv, ServerInv
  <2>3. /\ asks \in Posts /\ asks.pc = "asking" /\ asks.loaded = env
        /\ asks.win = r.win /\ asks.op = r.op /\ asks.visit = r.visit
    <3>1. r \in Posts
      BY DEF EnvInv, PostsInv
    <3> QED
      BY <1>2, <3>1 DEF Posts
  <2> HIDE DEF asks
  <2>4. Loaded(asks, commits', testEnvironmentSessions')
    BY <1>1, <1>2, <1>3, <1>4, <2>3 DEF Loaded
  <2> QED
    BY <2>1, <2>2, <2>3, <2>4, PostsGo DEF EnvInv, ServerInv
<1>5. CASE ~(Database /\ env.url)
  <2>1. Env!Goes(r, [r EXCEPT !.pc = "answered"])
        /\ env' = IF env.url THEN [env EXCEPT !.status = Env!Answer] ELSE env
    BY <1>5 DEF Env!ProbeIssueTestEnvironment
  <2>2. CASE env.url
    <3>1. env \in Env!Envs /\ env' = [env EXCEPT !.status = Env!Answer]
      BY <1>2, <1>3, <2>1, <2>2 DEF EnvRecords
    <3>2. env' \in Env!Envs /\ env'.deploy = env.deploy /\ env'.clean = env.clean
          /\ env'.source = env.source
      BY <3>1 DEF Env!Envs, Env!Answer, Env!Statuses
    <3>3. Backed(env', commits, testEnvironmentSessions)
      BY <1>2, <3>1, <3>2, StatusChanges, ServerCounts DEF EnvInv, ServerInv
    <3> QED
      BY <1>1, <2>1, <3>3, RequestsSave
  <2>3. CASE ~env.url
    BY <1>1, <1>2, <2>1, <2>3, RequestsSave
  <2> QED
    BY <2>2, <2>3
<1> QED
  BY <1>4, <1>5

LEMMA RequestsKeep ==
    ASSUME Env!TestEnvironmentAssumption, EnvInv, NEW r \in testEnvironmentPosts, Env!Network(r)
    PROVE  EnvInv'
<1>1. r.win \in Windows /\ r.loaded \in EnvRecords /\ Loaded(r, commits, testEnvironmentSessions)
  BY DEF EnvInv, PostsInv, Posts
<1>2. CASE Env!Handled(r)
  <2>1. Env!Goes(r, [r EXCEPT !.pc = "answered"]) /\ UNCHANGED <<testEnvironmentKnown, form, visit>>
    BY <1>2 DEF Env!Handled, Env!ui
  <2>2. ServerInv' /\ Grows
    BY <1>2, HandledKeeps
  <2> DEFINE told == [r EXCEPT !.pc = "answered"]
  <2>3. /\ told \in Posts /\ told.pc = "answered" /\ told.win = r.win /\ told.op = r.op
        /\ told.visit = r.visit
    BY PostTyped
  <2>4. Loaded(told, commits', testEnvironmentSessions')
    BY <2>3 DEF Loaded
  <2>5. Env!Goes(r, told)
    BY <2>1
  <2> HIDE DEF told
  <2> QED
    BY <2>1, <2>2, <2>3, <2>4, <2>5, PostsGo, PagesStay DEF EnvInv, ServerInv
<1>3. CASE Env!ReadIssue(r)
  BY <1>3, ReadIssueKeeps, PagesStay DEF EnvInv, Env!ReadIssue, Env!ui
<1>4. CASE Env!CreateAgentSession(r)
  BY <1>4, CreateSessionKeeps, PagesStay DEF EnvInv, Env!CreateAgentSession, Env!ui
<1>5. CASE Env!SaveIssueTestEnvironment(r)
  <2>1. /\ r.pc = "built" /\ env' = r.loaded /\ Env!Goes(r, [r EXCEPT !.pc = "answered"])
        /\ UNCHANGED <<testEnvironmentSessions, commits, testEnvironmentKnown, form, visit>>
    BY <1>5 DEF Env!SaveIssueTestEnvironment, Env!ui
  <2>2. Backed(env', commits, testEnvironmentSessions)
    BY <1>1, <2>1 DEF Loaded
  <2> QED
    BY <2>1, <2>2, RequestsSave, PagesStay DEF EnvInv
<1>6. CASE Env!Refused(r)
  <2>1. UNCHANGED <<Env!server, testEnvironmentKnown, form, visit>>
        /\ testEnvironmentPosts' \subseteq testEnvironmentPosts
    BY <1>6 DEF Env!Refused, Env!ui
  <2> QED
    BY <2>1, ServerStays, PagesStay, PostsStay DEF EnvInv, ServerInv
<1>7. CASE Env!ProbeIssueTestEnvironment(r)
  BY <1>7, ProbeKeeps, PagesStay DEF EnvInv, Env!ProbeIssueTestEnvironment, Env!ui
<1>8. CASE Env!Answered(r)
  <2>1. /\ testEnvironmentKnown' = [testEnvironmentKnown EXCEPT ![r.win] = Env!Copy]
        /\ form' = form \/ form' = [form EXCEPT ![r.win] = 0]
        /\ UNCHANGED <<Env!server, visit>>
        /\ testEnvironmentPosts' \subseteq testEnvironmentPosts
    BY <1>8 DEF Env!Answered, Env!None
  <2> QED
    BY <1>1, <2>1, ReadKeeps
<1>9. ASSUME NEW status \in Env!Statuses, Env!PreviewAnswers(r, status) PROVE EnvInv'
  <2>1. /\ r.pc = "asking" /\ env' = [r.loaded EXCEPT !.status = status]
        /\ Env!Goes(r, [r EXCEPT !.pc = "answered"])
        /\ UNCHANGED <<testEnvironmentSessions, commits, testEnvironmentKnown, form, visit>>
    BY <1>9 DEF Env!PreviewAnswers, Env!ui
  <2>2. r.loaded \in Env!Envs /\ Backed(r.loaded, commits, testEnvironmentSessions)
    BY <1>1, <2>1 DEF Loaded, EnvRecords
  <2>3. env' \in Env!Envs /\ env'.deploy = r.loaded.deploy /\ env'.clean = r.loaded.clean
        /\ env'.source = r.loaded.source
    BY <2>1, <2>2 DEF Env!Envs
  <2>4. Backed(env', commits, testEnvironmentSessions)
    BY <2>2, <2>3, StatusChanges, ServerCounts DEF EnvInv, ServerInv
  <2> QED
    BY <2>1, <2>4, RequestsSave, PagesStay DEF EnvInv
<1> QED
  BY <1>2, <1>3, <1>4, <1>5, <1>6, <1>7, <1>8, <1>9 DEF Env!Network

LEMMA EnvInitial ==
    ASSUME Env!TestEnvironmentAssumption, Env!Init
    PROVE  EnvInv
<1>1. MaxSessions \in Nat /\ MaxLeaves \in Nat
  BY DEF Env!TestEnvironmentAssumption
<1>2. testEnvironmentSessions = <<>> /\ commits = 0 /\ env = Env!NoEnv /\ testEnvironmentPosts = {}
      /\ testEnvironmentKnown = [w \in Windows |-> {}] /\ form = [w \in Windows |-> 0]
      /\ visit = [w \in Windows |-> 0]
  BY DEF Env!Init, Env!None
<1>3. ServerInv
  BY <1>1, <1>2 DEF ServerInv, SessionsInv, Backed, EnvRecords, Env!Active
<1>4. PagesInv
  BY <1>1, <1>2 DEF PagesInv
<1>5. PostsInv
  BY <1>2 DEF PostsInv
<1> QED
  BY <1>3, <1>4, <1>5 DEF EnvInv

LEMMA EnvStep ==
    ASSUME Env!TestEnvironmentAssumption, EnvInv, [Env!Next]_(Env!vars)
    PROVE  EnvInv'
<1> USE DEF Env!ui
<1>0. 0 \in 0..MaxSessions
  BY ServerCounts DEF EnvInv, ServerInv
<1>1. CASE Env!SourceSession
  <2>1. Env!Active({"source"}) = {} /\ Env!Queue("source", 0) /\ commits' = commits /\ env' = env
        /\ UNCHANGED <<testEnvironmentKnown, Env!ui, testEnvironmentPosts>>
    BY <1>1 DEF Env!SourceSession
  <2>2. SessionsInv' /\ Grows
    BY <1>0, <2>1, QueueKeeps DEF EnvInv, ServerInv
  <2>3. Backed(env', commits', testEnvironmentSessions')
    BY <2>1, <2>2, BackedLater DEF EnvInv, ServerInv
  <2> QED
    BY <2>1, <2>2, <2>3, ServerMoves DEF ServerInv
<1>2. CASE Env!SessionEnds
  <2>1. ServerInv' /\ Grows
    BY <1>2, SucceedsKeeps, StopsKeeps DEF Env!SessionEnds, EnvInv
  <2>2. UNCHANGED <<testEnvironmentKnown, Env!ui, testEnvironmentPosts>>
    BY <1>2 DEF Env!SessionEnds, Env!SessionSucceeds, Env!SessionStops
  <2> QED
    BY <2>1, <2>2, ServerMoves
<1>3. ASSUME NEW op, Env!Requests(op) PROVE EnvInv'
  BY <1>3, RequestsKeep DEF Env!Requests
<1>4. ASSUME NEW w \in Windows, Env!OpenDialog(w) PROVE EnvInv'
  BY <1>4, DetailTyped, FormKeeps DEF Env!OpenDialog, Env!Shows
<1>5. ASSUME NEW w \in Windows, Env!CloseDialog(w) PROVE EnvInv'
  BY <1>0, <1>5, FormKeeps DEF Env!CloseDialog, Env!None
<1>6. ASSUME NEW w \in Windows, Env!PressDeploy(w) PROVE EnvInv'
  <2>1. form[w] \in 0..MaxSessions
    BY DEF EnvInv, PagesInv
  <2> QED
    BY <1>6, <2>1, AskKeeps DEF Env!PressDeploy, Env!CanDeploy, Operations
<1>7. ASSUME NEW w \in Windows, Env!PressRetry(w) PROVE EnvInv'
  BY <1>7, DetailTyped, AskKeeps DEF Env!PressRetry, Env!CanRetry, Env!CanDeploy, Env!Shows, Operations
<1>8. ASSUME NEW w \in Windows, Env!PressCleanup(w) PROVE EnvInv'
  BY <1>0, <1>8, AskKeeps DEF Env!PressCleanup, Env!CanCleanup, Operations
<1>9. ASSUME NEW w \in Windows, Env!PressRetain(w) PROVE EnvInv'
  BY <1>0, <1>9, AskKeeps DEF Env!PressRetain, Env!CanRetain, Operations
<1>10. ASSUME NEW w \in Windows, Env!AutoCheck(w) PROVE EnvInv'
  <2>1. UNCHANGED <<Env!server, testEnvironmentKnown, form, visit>>
    BY <1>10 DEF Env!AutoCheck
  <2>2. CASE Env!ShouldCheckPreview(w) /\ Env!Asks(w, "probe", 0)
    BY <1>0, <2>1, <2>2, AskKeeps DEF Env!ShouldCheckPreview, Operations
  <2>3. CASE testEnvironmentPosts' = testEnvironmentPosts
    BY <2>1, <2>3, ServerStays, PagesStay, PostsStay DEF EnvInv, ServerInv
  <2> QED
    BY <1>10, <2>2, <2>3 DEF Env!AutoCheck
<1>11. ASSUME NEW w \in Windows, Env!Poll(w) PROVE EnvInv'
  BY <1>11, ReadKeeps DEF Env!Poll
<1>12. ASSUME NEW w \in Windows, Env!Returns(w) PROVE EnvInv'
  <2>1. UNCHANGED <<Env!server, testEnvironmentKnown, testEnvironmentPosts>>
        /\ visit' = [visit EXCEPT ![w] = @ + 1] /\ visit[w] < MaxLeaves
        /\ form' = [form EXCEPT ![w] = 0]
    BY <1>12 DEF Env!Returns, Env!None
  <2>2. ServerInv' /\ Grows
    BY <2>1, ServerStays DEF EnvInv
  <2>3. MaxLeaves \in Nat
    BY ServerCounts DEF EnvInv, ServerInv
  <2>4. visit' \in [Windows -> 0..MaxLeaves] /\ form' \in [Windows -> 0..MaxSessions]
    BY <1>0, <2>1, <2>3 DEF EnvInv, PagesInv
  <2>5. PagesInv'
    BY <2>1, <2>4 DEF EnvInv, PagesInv
  <2> QED
    BY <2>1, <2>2, <2>5, PostsStay DEF EnvInv, ServerInv
<1>13. ASSUME NEW w \in Windows, NEW c \in 1..MaxSessions, Env!ChooseCommit(w, c) PROVE EnvInv'
  <2>1. c \in 0..MaxSessions
    BY ServerCounts DEF EnvInv, ServerInv
  <2>2. /\ form' = [form EXCEPT ![w] = c]
        /\ UNCHANGED <<Env!server, testEnvironmentKnown, testEnvironmentPosts, visit>>
    BY <1>13 DEF Env!ChooseCommit
  <2> QED
    BY <2>1, <2>2, FormKeeps
<1>14. CASE UNCHANGED <<Env!server, testEnvironmentKnown, Env!ui, testEnvironmentPosts>>
  BY <1>14, ServerStays, ServerMoves DEF EnvInv
<1> QED
  BY <1>1, <1>2, <1>3, <1>4, <1>5, <1>6, <1>7, <1>8, <1>9, <1>10, <1>11, <1>12, <1>13, <1>14
  DEF Env!Next, Env!MinutePasses, Env!vars

LEMMA EnvTyped ==
    ASSUME Env!TestEnvironmentAssumption, EnvInv
    PROVE  Env!TypeOK /\ Env!SourceShown
<1>1. env \in Env!Envs \cup {Env!NoEnv} /\ commits \in 0..MaxSessions
  BY ServerCounts DEF EnvInv, ServerInv, SessionsInv, Backed, EnvRecords
<1>2. /\ Env!Cardinality(Env!Active({"source"})) <= 1
      /\ ~Database => Env!Cardinality(Env!Active({"deploy", "cleanup"})) <= 1
  BY AtMostOne, SameCardinality DEF EnvInv, ServerInv, SessionsInv
<1>3. \A w \in Windows : Env!Cardinality(testEnvironmentKnown[w]) <= 1
  <2>1. ASSUME NEW w \in Windows PROVE \A d, e \in testEnvironmentKnown[w] : d = e
    BY DEF EnvInv, PagesInv
  <2> QED
    BY <2>1, AtMostOne, SameCardinality
<1>4. \A w \in Windows : form[w] \in 0..MaxSessions
  BY DEF EnvInv, PagesInv
<1>5. Env!TypeOK
  BY <1>1, <1>2, <1>3, <1>4
  DEF Env!TypeOK, EnvInv, ServerInv, SessionsInv, PagesInv, PostsInv
<1>6. Env!SourceShown
  BY DEF Env!SourceShown, Env!Exists, EnvInv, ServerInv, Backed
<1> QED
  BY <1>5, <1>6

-----------------------------------------------------------------------------
(* Without the detours of the Postgres store, which writes back what it    *)
(* had read before it asked the preview or queued a session, only the      *)
(* success of the session that it names makes an environment active.       *)

LEMMA ActiveInitial ==
    ASSUME Env!Init
    PROVE  Env!ActiveMeansDeployed
BY DEF Env!Init, Env!ActiveMeansDeployed, Env!NoEnv

(* An active environment has a deployment.                                 *)
LEMMA ActiveIsBacked ==
    ASSUME EnvInv, env.status = "active"
    PROVE  env \in Env!Envs /\ env.deploy \in 1..Len(testEnvironmentSessions)
<1>1. env # Env!NoEnv
  BY DEF Env!NoEnv
<1> QED
  BY <1>1 DEF EnvInv, ServerInv, Backed, EnvRecords

LEMMA EndsActive ==
    ASSUME Env!TestEnvironmentAssumption, EnvInv, Env!ActiveMeansDeployed, Env!SessionEnds
    PROVE  Env!ActiveMeansDeployed'
<1>1. env.deploy \in DOMAIN testEnvironmentSessions \/ env.status # "active"
  BY ActiveIsBacked, ServerCounts DEF EnvInv, ServerInv
<1>2. env \in Env!Envs \/ (env = Env!NoEnv /\ env.deploy = 0 /\ env.clean = 0 /\ env.status = "none")
  BY DEF EnvInv, ServerInv, Backed, EnvRecords, Env!NoEnv
<1>3. ASSUME NEW n \in DOMAIN testEnvironmentSessions, NEW preview \in BOOLEAN,
             Env!SessionSucceeds(n, preview)
      PROVE  Env!ActiveMeansDeployed'
  <2>1. Env!Ends(n, "completed")
    BY <1>3 DEF Env!SessionSucceeds
  <2>2. /\ n \in 1..Len(testEnvironmentSessions) /\ testEnvironmentSessions'[n].state = "completed"
        /\ \A k \in DOMAIN testEnvironmentSessions :
              k # n => testEnvironmentSessions'[k] = testEnvironmentSessions[k]
    BY <2>1, EndsGrow, ServerCounts DEF EnvInv, ServerInv
  <2>3. \/ env' = env
        \/ env'.deploy = n
        \/ env'.status = "cleaned"
    BY <1>2, <1>3, <2>2 DEF Env!SessionSucceeds, Env!Envs, Env!Exists
  <2> QED
    BY <1>1, <2>2, <2>3 DEF Env!ActiveMeansDeployed
<1>4. ASSUME NEW n \in DOMAIN testEnvironmentSessions, NEW state \in {"failed", "cancelled"},
             Env!SessionStops(n, state)
      PROVE  Env!ActiveMeansDeployed'
  <2>1. Env!Ends(n, state)
    BY <1>4 DEF Env!SessionStops
  <2>2. /\ n \in 1..Len(testEnvironmentSessions) /\ testEnvironmentSessions[n].state = "active"
        /\ \A k \in DOMAIN testEnvironmentSessions :
              k # n => testEnvironmentSessions'[k] = testEnvironmentSessions[k]
    BY <2>1, EndsGrow, ServerCounts DEF EnvInv, ServerInv
  <2>3. env' = env \/ env'.status \in {"deploy_failed", "deploy_interrupted", "cleanup_failed"}
    BY <1>2, <1>4, <2>2 DEF Env!SessionStops, Env!Envs, Env!Exists
  <2> QED
    BY <1>1, <2>2, <2>3 DEF Env!ActiveMeansDeployed
<1> QED
  BY <1>3, <1>4 DEF Env!SessionEnds

LEMMA ActiveStep ==
    ASSUME Env!TestEnvironmentAssumption, EnvInv, Env!ActiveMeansDeployed, ~Database,
           [Env!Next]_(Env!vars)
    PROVE  Env!ActiveMeansDeployed'
<1> USE DEF Env!server
<1>1. CASE UNCHANGED <<env, testEnvironmentSessions>>
  BY <1>1 DEF Env!ActiveMeansDeployed
<1>2. ASSUME env.status = "active",
             \A n \in 1..Len(testEnvironmentSessions) :
                testEnvironmentSessions'[n] = testEnvironmentSessions[n],
             env'.deploy = env.deploy
      PROVE  Env!ActiveMeansDeployed'
  BY <1>2, ActiveIsBacked DEF Env!ActiveMeansDeployed
<1>3. CASE Env!SourceSession
  <2>1. Env!Queue("source", 0) /\ env' = env /\ commits' = commits /\ 0 \in 0..MaxSessions
    BY <1>3, ServerCounts DEF Env!SourceSession, EnvInv, ServerInv
  <2>2. \A n \in 1..Len(testEnvironmentSessions) :
           testEnvironmentSessions'[n] = testEnvironmentSessions[n]
    BY <2>1, QueueGrows DEF EnvInv, ServerInv
  <2> QED
    BY <1>2, <2>1, <2>2 DEF Env!ActiveMeansDeployed
<1>4. CASE Env!SessionEnds
  BY <1>4, EndsActive
<1>5. ASSUME NEW r \in testEnvironmentPosts, Env!Network(r) PROVE Env!ActiveMeansDeployed'
  <2>1. r \in Posts /\ r.pc \notin {"read", "built", "asking"}
    BY DEF EnvInv, PostsInv, Loaded
  <2>2. CASE Env!Handled(r)
    <3>1. /\ Env!Accepts(r) /\ commits' = commits
          /\ env' = Env!Requested(env, r, Len(testEnvironmentSessions'))
      BY <2>2 DEF Env!Handled
    <3>2. CASE r.op = "retain"
      <4>1. env # Env!NoEnv /\ UNCHANGED testEnvironmentSessions /\ env' = Env!Retained(env)
        BY <2>2, <3>1, <3>2 DEF Env!Accepts, Env!Exists, Env!Handled, Env!Requested
      <4> QED
        BY <4>1, RetainedBacked DEF EnvInv, Env!ActiveMeansDeployed
    <3>3. CASE r.op # "retain"
      <4>1. /\ r.op \in {"deploy", "cleanup"} /\ Env!Queue(r.op, r.commit)
            /\ r.op = "deploy" => r.commit \in 1..commits
            /\ r.op = "cleanup" => env # Env!NoEnv
        BY <2>2, <3>1, <3>3 DEF Env!Accepts, Env!Exists, Env!Handled
      <4>2. env'.status # "active"
        BY <2>1, <3>1, <4>1, RequestedBacked DEF EnvInv, ServerInv
      <4> QED
        BY <4>2 DEF Env!ActiveMeansDeployed
    <3> QED
      BY <3>2, <3>3
  <2>3. CASE Env!ProbeIssueTestEnvironment(r)
    <3>1. UNCHANGED testEnvironmentSessions
          /\ env' = IF env.url THEN [env EXCEPT !.status = "preview_unverified"] ELSE env
      BY <2>3 DEF Env!ProbeIssueTestEnvironment, Env!Answer
    <3>2. CASE env.url
      <4>1. env # Env!NoEnv
        BY <3>2 DEF Env!NoEnv
      <4>2. env \in Env!Envs
        BY <4>1 DEF EnvInv, ServerInv, Backed, EnvRecords
      <4>3. env'.status = "preview_unverified"
        BY <3>1, <3>2, <4>2 DEF Env!Envs
      <4> QED
        BY <4>3 DEF Env!ActiveMeansDeployed
    <3> QED
      BY <1>1, <3>1, <3>2
  <2>4. CASE Env!Refused(r) \/ Env!Answered(r)
    BY <1>1, <2>4 DEF Env!Refused, Env!Answered
  <2> QED
    BY <1>5, <2>1, <2>2, <2>3, <2>4 DEF Env!Network, Env!PreviewAnswers, Env!ReadIssue,
       Env!CreateAgentSession, Env!SaveIssueTestEnvironment
<1>6. ASSUME NEW w \in Windows,
             \/ Env!OpenDialog(w) \/ Env!CloseDialog(w) \/ Env!PressDeploy(w) \/ Env!PressRetry(w)
             \/ Env!PressCleanup(w) \/ Env!PressRetain(w) \/ Env!AutoCheck(w)
             \/ Env!MinutePasses(w) \/ Env!Poll(w) \/ Env!Returns(w)
             \/ \E c \in 1..MaxSessions : Env!ChooseCommit(w, c)
      PROVE  UNCHANGED <<env, testEnvironmentSessions>>
  BY <1>6 DEF Env!OpenDialog, Env!CloseDialog, Env!PressDeploy, Env!PressRetry,
     Env!PressCleanup, Env!PressRetain, Env!AutoCheck, Env!MinutePasses, Env!Poll,
     Env!Returns, Env!ChooseCommit
<1> QED
  BY <1>1, <1>3, <1>4, <1>5, <1>6 DEF Env!Next, Env!Requests, Env!vars

(* The types of the test environment, and the commit it shows: the one its *)
(* deployment was given, in both stores (server_owned_runtime_store.go,    *)
(* memory_store.go), whatever requests and checks have read of the record  *)
(* before others changed it and whatever sessions end in between.          *)
THEOREM EnvironmentTypeCorrect ==
    ASSUME Env!TestEnvironmentAssumption
    PROVE  Env!Spec => [](Env!TypeOK /\ Env!SourceShown)
<1>1. Env!Init => EnvInv
  BY EnvInitial
<1>2. EnvInv /\ [Env!Next]_(Env!vars) => EnvInv'
  BY EnvStep
<1>3. EnvInv => Env!TypeOK /\ Env!SourceShown
  BY EnvTyped
<1> QED
  BY <1>1, <1>2, <1>3, PTL DEF Env!Spec

(* In the in-memory store "Active" is said of an environment whose         *)
(* deployment has succeeded (memory_store.go), whatever windows, checks of *)
(* the preview and other sessions come between.                            *)
THEOREM EnvironmentTold ==
    ASSUME Env!TestEnvironmentAssumption, ~Database
    PROVE  Env!Spec => []Env!ActiveMeansDeployed
<1>1. Env!Init => EnvInv /\ Env!ActiveMeansDeployed
  BY EnvInitial, ActiveInitial
<1>2. EnvInv /\ Env!ActiveMeansDeployed /\ [Env!Next]_(Env!vars)
         => EnvInv' /\ Env!ActiveMeansDeployed'
  BY EnvStep, ActiveStep
<1> QED
  BY <1>1, <1>2, PTL DEF Env!Spec

-----------------------------------------------------------------------------
(* The pull request. Sessions are about commits there are, only the newest *)
(* may be active, and a recorded pull request is of its session's commit.  *)

BranchNames == Branches \cup {NoBranch}
HandoffStates == {"queued", "running", "completed", "empty", "stopped"}
HandoffSessions == [node : Nat, state : HandoffStates]
Copies == [nodes : Seq(BranchNames), handoff : [node : Nat, pr : Nat, error : BOOLEAN],
           active : BOOLEAN]
HandoffPosts == [win : Windows, op : {"create", "refresh"}, node : Nat,
                 pc : {"ready", "sent", "insert", "record", "answered"}]

RecordInv ==
    /\ nodes \in Seq(BranchNames)
    /\ pullRequestHandoffSessions \in Seq(HandoffSessions)
    /\ \A n \in DOMAIN pullRequestHandoffSessions :
          /\ pullRequestHandoffSessions[n].node \in DOMAIN nodes
          /\ pullRequestHandoffSessions[n].state \in {"queued", "running"} =>
                n = Len(pullRequestHandoffSessions)
    /\ handoff \in [node : 0..Len(nodes), pr : 0..Len(pullRequestHandoffSessions), error : BOOLEAN]
    /\ handoff.pr # 0 => handoff.node # 0
    /\ Pull!RightCommit

PanelInv ==
    /\ pullRequestHandoffKnown \in [Windows -> SUBSET Copies]
    /\ \A w \in Windows : \A d, e \in pullRequestHandoffKnown[w] : d = e
    /\ \A w \in Windows : \A d \in pullRequestHandoffKnown[w] : Len(d.nodes) <= Len(nodes)
    /\ branch \in [Windows -> BranchNames]

CallsInv ==
    /\ pullRequestHandoffPosts \subseteq HandoffPosts
    /\ \A r \in pullRequestHandoffPosts :
          /\ r.op = "create" => r.node \in DOMAIN nodes
          /\ r.pc \in {"insert", "record"} => r.op = "create" /\ Database
    /\ \A r, q \in pullRequestHandoffPosts : r.win = q.win /\ r.op = q.op => r = q

PullInv == RecordInv /\ PanelInv /\ CallsInv

LEMMA Greatest ==
    ASSUME NEW N \in Nat, NEW S, S \subseteq 1..N, S # {}
    PROVE  \E m \in S : \A k \in S : k <= m
<1> DEFINE T == {N - k : k \in S}
<1>1. T \subseteq Nat /\ T # {}
  <2>1. \A k \in S : N - k \in Nat
    OBVIOUS
  <2> QED
    BY <2>1
<1>2. PICK x \in T : \A y \in T : <<y, x>> \notin OpToRel(<, Nat)
  BY <1>1, NatLessThanWellFounded, WFMin
<1>3. \A y \in T : ~(y < x)
  BY <1>1, <1>2 DEF OpToRel
<1>4. PICK m \in S : x = N - m
  OBVIOUS
<1>5. \A k \in S : k <= m
  BY <1>3, <1>4
<1> QED
  BY <1>5

LEMMA NewestIn ==
    ASSUME NEW list, Len(list) \in Nat, NEW S, S \subseteq 1..Len(list), S # {}
    PROVE  Pull!Newest(S) \in S
BY Greatest DEF Pull!Newest

(* The branch a panel keeps is one of the list, or none.                   *)
LEMMA KeptIsABranch ==
    ASSUME NEW list \in Seq(BranchNames), NEW b \in BranchNames
    PROVE  Pull!Kept(b, list) \in BranchNames
<1> DEFINE S == Pull!SourceNodes(list)
<1>1. Len(list) \in Nat /\ DOMAIN list = 1..Len(list)
  BY Element
<1>2. S \subseteq 1..Len(list)
  BY <1>1 DEF Pull!SourceNodes
<1>3. CASE S = {}
  BY <1>3 DEF Pull!Kept, BranchNames
<1>4. CASE S # {}
  <2>1. Pull!Newest(S) \in 1..Len(list)
    BY <1>1, <1>2, <1>4, NewestIn
  <2>2. list[Pull!Newest(S)] \in BranchNames
    BY <2>1, Element
  <2> QED
    BY <1>4, <2>2 DEF Pull!Kept
<1> QED
  BY <1>3, <1>4

(* What is selected is a commit the window knows.                          *)
LEMMA SelectedIsACommit ==
    ASSUME PullInv, NEW w \in Windows, pullRequestHandoffKnown[w] # {},
           Pull!SelectedNode(w) # 0
    PROVE  Pull!SelectedNode(w) \in DOMAIN nodes
<1> DEFINE d == Pull!Detail(w)
           S == {n \in Pull!SourceNodes(d.nodes) : d.nodes[n] = branch[w]}
<1>1. d \in Copies /\ Len(d.nodes) <= Len(nodes) /\ nodes \in Seq(BranchNames)
  BY DEF Pull!Detail, PullInv, PanelInv, RecordInv
<1>2. d.nodes \in Seq(BranchNames)
  BY <1>1 DEF Copies
<1>3. Len(d.nodes) \in Nat /\ DOMAIN d.nodes = 1..Len(d.nodes)
      /\ Len(nodes) \in Nat /\ DOMAIN nodes = 1..Len(nodes)
  BY <1>1, <1>2, Element
<1>4. S \subseteq 1..Len(d.nodes)
  BY <1>3 DEF Pull!SourceNodes
<1>5. S # {} /\ Pull!SelectedNode(w) = Pull!Newest(S)
  BY DEF Pull!SelectedNode, Pull!None
<1>6. Pull!Newest(S) \in 1..Len(d.nodes)
  BY <1>3, <1>4, <1>5, NewestIn
<1> QED
  BY <1>1, <1>3, <1>5, <1>6

LEMMA RecordTypes ==
    ASSUME RecordInv
    PROVE  /\ Len(nodes) \in Nat /\ DOMAIN nodes = 1..Len(nodes)
           /\ Len(pullRequestHandoffSessions) \in Nat
           /\ DOMAIN pullRequestHandoffSessions = 1..Len(pullRequestHandoffSessions)
           /\ \A n \in DOMAIN pullRequestHandoffSessions :
                 pullRequestHandoffSessions[n] \in HandoffSessions
           /\ handoff.node \in 0..Len(nodes) /\ handoff.error \in BOOLEAN
           /\ handoff.pr \in 0..Len(pullRequestHandoffSessions)
BY Element DEF RecordInv

(* The record and its sessions stay what they were.                        *)
LEMMA RecordStays ==
    ASSUME RecordInv, UNCHANGED <<nodes, pullRequestHandoffSessions, handoff>>
    PROVE  RecordInv'
BY DEF RecordInv, Pull!RightCommit, Pull!None

LEMMA PanelStays ==
    ASSUME PanelInv, UNCHANGED <<nodes, pullRequestHandoffKnown, branch>>
    PROVE  PanelInv'
BY DEF PanelInv

LEMMA CallsStay ==
    ASSUME CallsInv, UNCHANGED nodes, pullRequestHandoffPosts' \subseteq pullRequestHandoffPosts
    PROVE  CallsInv'
BY DEF CallsInv

LEMMA CallsGo ==
    ASSUME CallsInv, UNCHANGED nodes, NEW r \in pullRequestHandoffPosts,
           NEW pc \in {"ready", "sent", "insert", "record", "answered"}, Pull!Goes(r, pc),
           pc \in {"insert", "record"} => r.op = "create" /\ Database
    PROVE  CallsInv'
<1> DEFINE q == [r EXCEPT !.pc = pc]
<1>1. r \in HandoffPosts /\ (r.op = "create" => r.node \in DOMAIN nodes)
  BY DEF CallsInv
<1>2. q \in HandoffPosts /\ q.win = r.win /\ q.op = r.op /\ q.node = r.node /\ q.pc = pc
  BY <1>1 DEF HandoffPosts
<1>3. pullRequestHandoffPosts' = (pullRequestHandoffPosts \ {r}) \cup {q}
  BY DEF Pull!Goes
<1>4. \A p, o \in pullRequestHandoffPosts' : p.win = o.win /\ p.op = o.op => p = o
  <2>1. \A p, o \in pullRequestHandoffPosts : p.win = o.win /\ p.op = o.op => p = o
    BY DEF CallsInv
  <2>2. \A p \in pullRequestHandoffPosts \ {r} : ~(p.win = r.win /\ p.op = r.op)
    BY <2>1
  <2>3. \A p \in pullRequestHandoffPosts \ {r} : ~(p.win = q.win /\ p.op = q.op)
    BY <1>2, <2>2
  <2> HIDE DEF q
  <2> QED
    BY <1>3, <2>1, <2>3
<1>5. \A p \in pullRequestHandoffPosts' :
         /\ p.op = "create" => p.node \in DOMAIN nodes'
         /\ p.pc \in {"insert", "record"} => p.op = "create" /\ Database
  BY <1>1, <1>2, <1>3 DEF CallsInv
<1>6. pullRequestHandoffPosts' \subseteq HandoffPosts
  BY <1>2, <1>3 DEF CallsInv
<1> QED
  BY <1>4, <1>5, <1>6 DEF CallsInv

LEMMA CallAsked ==
    ASSUME CallsInv, UNCHANGED nodes, NEW q \in HandoffPosts,
           pullRequestHandoffPosts' = pullRequestHandoffPosts \cup {q},
           ~Pull!Pending(q.win, q.op), q.pc \in {"ready", "sent"},
           q.op = "create" => q.node \in DOMAIN nodes
    PROVE  CallsInv'
<1>1. \A p \in pullRequestHandoffPosts : ~(p.win = q.win /\ p.op = q.op)
  BY DEF Pull!Pending
<1>2. \A p, o \in pullRequestHandoffPosts' : p.win = o.win /\ p.op = o.op => p = o
  BY <1>1 DEF CallsInv
<1>3. \A p \in pullRequestHandoffPosts' :
         /\ p.op = "create" => p.node \in DOMAIN nodes'
         /\ p.pc \in {"insert", "record"} => p.op = "create" /\ Database
  BY DEF CallsInv
<1> QED
  BY <1>2, <1>3 DEF CallsInv

LEMMA PanelShows ==
    ASSUME PullInv, NEW w \in Windows, Pull!Shows(w), UNCHANGED nodes
    PROVE  PanelInv'
<1> DEFINE copy == [nodes |-> nodes, handoff |-> handoff, active |-> Pull!HasActive]
<1>1. Pull!Copy = {copy}
  BY DEF Pull!Copy, Pull!HasActive
<1>2. nodes \in Seq(BranchNames) /\ Len(nodes) \in Nat
  BY RecordTypes DEF PullInv, RecordInv
<1>3. handoff \in [node : Nat, pr : Nat, error : BOOLEAN]
  BY RecordTypes DEF PullInv, RecordInv
<1>4. Pull!HasActive \in BOOLEAN
  BY DEF Pull!HasActive
<1>5. copy \in Copies /\ Len(copy.nodes) <= Len(nodes)
  BY <1>2, <1>3, <1>4 DEF Copies
<1>6. branch[w] \in BranchNames
  BY DEF PullInv, PanelInv
<1>7. Pull!Kept(branch[w], nodes) \in BranchNames
  BY <1>2, <1>6, KeptIsABranch
<1>8. /\ pullRequestHandoffKnown' = [pullRequestHandoffKnown EXCEPT ![w] = {copy}]
      /\ branch' = [branch EXCEPT ![w] = Pull!Kept(branch[w], nodes)]
  BY <1>1 DEF Pull!Shows
<1>9. branch' \in [Windows -> BranchNames]
  BY <1>7, <1>8 DEF PullInv, PanelInv
<1>10. pullRequestHandoffKnown' \in [Windows -> SUBSET Copies]
  BY <1>5, <1>8 DEF PullInv, PanelInv
<1>11. \A v \in Windows : \A d, e \in pullRequestHandoffKnown'[v] : d = e
  BY <1>8 DEF PullInv, PanelInv
<1>12. \A v \in Windows : \A d \in pullRequestHandoffKnown'[v] : Len(d.nodes) <= Len(nodes)
  BY <1>5, <1>8 DEF PullInv, PanelInv
<1> QED
  BY <1>9, <1>10, <1>11, <1>12 DEF PanelInv

(* A session is queued for a commit there is, when none is active.         *)
LEMMA QueuedKeeps ==
    ASSUME RecordInv, NEW node \in DOMAIN nodes, Pull!Queued(node), ~Pull!HasActive,
           UNCHANGED nodes, handoff' = handoff \/ handoff' = Pull!Handoff(node, 0)
    PROVE  RecordInv'
<1> DEFINE ses == pullRequestHandoffSessions
           new == [node |-> node, state |-> "queued"]
<1>1. ses' = Append(ses, new) /\ new \in HandoffSessions
  BY RecordTypes DEF Pull!Queued, HandoffSessions, HandoffStates
<1>2. ses' \in Seq(HandoffSessions) /\ Len(ses') = Len(ses) + 1 /\ DOMAIN ses' = 1..(Len(ses) + 1)
      /\ ses'[Len(ses) + 1] = new /\ \A n \in 1..Len(ses) : ses'[n] = ses[n]
  BY <1>1, Appended DEF RecordInv
<1>3. \A n \in DOMAIN ses' : /\ ses'[n].node \in DOMAIN nodes'
                             /\ ses'[n].state \in {"queued", "running"} => n = Len(ses')
  <2>1. \A n \in 1..Len(ses) : ses[n].state \notin {"queued", "running"}
                             /\ ses[n].node \in DOMAIN nodes
    BY RecordTypes DEF RecordInv, Pull!HasActive, Pull!Active
  <2> QED
    BY <1>2, <2>1, RecordTypes
<1>4. CASE handoff' = handoff
  BY <1>2, <1>3, <1>4, RecordTypes DEF RecordInv, Pull!RightCommit, Pull!None
<1>5. CASE handoff' = [node |-> node, pr |-> 0, error |-> FALSE]
  <2>1. handoff' \in [node : 0..Len(nodes'), pr : 0..Len(ses'), error : BOOLEAN]
    BY <1>2, <1>5, RecordTypes
  <2> QED
    BY <1>2, <1>3, <1>5, <2>1 DEF RecordInv, Pull!RightCommit, Pull!None
<1> QED
  BY <1>4, <1>5 DEF Pull!Handoff

(* A session moves on: it runs, or it ends and reports.                    *)
LEMMA MovesKeep ==
    ASSUME RecordInv, NEW n \in DOMAIN pullRequestHandoffSessions,
           pullRequestHandoffSessions[n].state \in {"queued", "running"},
           NEW state \in HandoffStates,
           pullRequestHandoffSessions' = [pullRequestHandoffSessions EXCEPT ![n].state = state],
           UNCHANGED nodes,
           \/ handoff' = handoff
           \/ handoff' = Pull!Handoff(pullRequestHandoffSessions[n].node, n)
           \/ handoff' = [handoff EXCEPT !.error = TRUE,
                 !.node = IF @ = 0 THEN pullRequestHandoffSessions[n].node ELSE @]
    PROVE  /\ RecordInv' /\ n = Len(pullRequestHandoffSessions)
           /\ Len(pullRequestHandoffSessions') = Len(pullRequestHandoffSessions)
           /\ pullRequestHandoffSessions'[n].state = state
<1> DEFINE ses == pullRequestHandoffSessions
           new == [ses[n] EXCEPT !.state = state]
<1>1. n = Len(ses) /\ n \in 1..Len(ses) /\ ses[n] \in HandoffSessions
  BY RecordTypes DEF RecordInv
<1>2. new \in HandoffSessions /\ new.node = ses[n].node /\ new.state = state
  BY <1>1 DEF HandoffSessions
<1>3. ses' = [ses EXCEPT ![n] = new]
  OBVIOUS
<1>4. ses' \in Seq(HandoffSessions) /\ Len(ses') = Len(ses) /\ DOMAIN ses' = 1..Len(ses)
      /\ ses'[n] = new /\ \A k \in 1..Len(ses) : k # n => ses'[k] = ses[k]
  BY <1>1, <1>2, <1>3, Replaced DEF RecordInv
<1>5. \A k \in DOMAIN ses' : /\ ses'[k].node = ses[k].node
                             /\ ses'[k].node \in DOMAIN nodes'
                             /\ ses'[k].state \in {"queued", "running"} => k = Len(ses')
  BY <1>1, <1>2, <1>4, RecordTypes DEF RecordInv
<1>6. ses[n].node \in 1..Len(nodes)
  BY RecordTypes DEF RecordInv
<1>7. ASSUME handoff'.node \in 0..Len(nodes), handoff'.pr \in 0..Len(ses),
             handoff' \in [node : 0..Len(nodes), pr : 0..Len(ses), error : BOOLEAN],
             handoff'.pr # 0 => handoff'.node # 0 /\ handoff'.node = ses[handoff'.pr].node
      PROVE  RecordInv'
  <2>1. handoff' \in [node : 0..Len(nodes'), pr : 0..Len(ses'), error : BOOLEAN]
    BY <1>4, <1>7
  <2>2. handoff'.pr # 0 => handoff'.node = ses'[handoff'.pr].node
    BY <1>4, <1>5, <1>7, RecordTypes
  <2>3. nodes' \in Seq(BranchNames)
    BY DEF RecordInv
  <2> QED
    BY <1>4, <1>5, <1>7, <2>1, <2>2, <2>3, Zenon DEF RecordInv, Pull!RightCommit, Pull!None
<1>8. ASSUME handoff' = handoff PROVE RecordInv'
  <2>1. handoff \in [node : 0..Len(nodes), pr : 0..Len(ses), error : BOOLEAN]
        /\ (handoff.pr # 0 => handoff.node # 0 /\ handoff.node = ses[handoff.pr].node)
    BY DEF RecordInv, Pull!RightCommit, Pull!None
  <2> QED
    BY <1>7, <1>8, <2>1, RecordTypes
<1>9. ASSUME handoff' = [node |-> ses[n].node, pr |-> n, error |-> FALSE] PROVE RecordInv'
  <2>1. ses[n].node \in 0..Len(nodes) /\ n \in 0..Len(ses) /\ ses[n].node # 0
    BY <1>1, <1>6, RecordTypes
  <2> QED
    BY <1>7, <1>9, <2>1
<1>11. ASSUME handoff' = [handoff EXCEPT !.error = TRUE,
                          !.node = IF @ = 0 THEN ses[n].node ELSE @]
       PROVE  RecordInv'
  <2>1. handoff \in [node : 0..Len(nodes), pr : 0..Len(ses), error : BOOLEAN]
        /\ (handoff.pr # 0 => handoff.node # 0 /\ handoff.node = ses[handoff.pr].node)
    BY DEF RecordInv, Pull!RightCommit, Pull!None
  <2>2. handoff'.pr = handoff.pr
        /\ handoff'.node = (IF handoff.node = 0 THEN ses[n].node ELSE handoff.node)
        /\ handoff'.error = TRUE /\ DOMAIN handoff' = {"node", "pr", "error"}
    BY <1>11, <2>1
  <2>3. handoff'.node \in 0..Len(nodes)
    BY <1>6, <2>1, <2>2, RecordTypes
  <2>4. handoff' \in [node : 0..Len(nodes), pr : 0..Len(ses), error : BOOLEAN]
    BY <1>11, <2>1, <2>3
  <2> QED
    BY <1>7, <2>1, <2>2, <2>3, <2>4
<1>10. RecordInv'
  BY <1>8, <1>9, <1>11 DEF Pull!Handoff
<1> QED
  BY <1>1, <1>2, <1>4, <1>10

LEMMA PullInit ==
    ASSUME Pull!PullRequestHandoffAssumption, Pull!Init
    PROVE  PullInv
<1>1. RecordInv
  <2>1. nodes = << >> /\ pullRequestHandoffSessions = << >>
        /\ handoff = [node |-> 0, pr |-> 0, error |-> FALSE]
    BY DEF Pull!Init, Pull!NoHandoff, Pull!None
  <2>2. Len(nodes) = 0 /\ Len(pullRequestHandoffSessions) = 0
        /\ DOMAIN pullRequestHandoffSessions = 1..0
    BY <2>1
  <2>3. nodes \in Seq(BranchNames) /\ pullRequestHandoffSessions \in Seq(HandoffSessions)
    BY <2>1
  <2> QED
    BY <2>1, <2>2, <2>3 DEF RecordInv, Pull!RightCommit, Pull!None
<1>2. PanelInv
  BY DEF Pull!Init, PanelInv, BranchNames
<1>3. CallsInv
  BY DEF Pull!Init, CallsInv
<1> QED
  BY <1>1, <1>2, <1>3 DEF PullInv

(* One more source commit.                                                 *)
LEMMA CaptureKeeps ==
    ASSUME PullInv, NEW b \in BranchNames, Pull!SourceCaptured(b)
    PROVE  PullInv'
<1>1. nodes' = Append(nodes, b) /\ nodes \in Seq(BranchNames)
      /\ UNCHANGED <<pullRequestHandoffSessions, handoff, pullRequestHandoffKnown, branch,
                     pullRequestHandoffPosts>>
  BY DEF Pull!SourceCaptured, PullInv, RecordInv
<1>2. nodes' \in Seq(BranchNames) /\ Len(nodes') = Len(nodes) + 1
      /\ DOMAIN nodes' = 1..(Len(nodes) + 1)
  BY <1>1, Appended
<1>3. Len(nodes) \in Nat /\ DOMAIN nodes = 1..Len(nodes)
  BY RecordTypes DEF PullInv
<1>4. RecordInv'
  <2>1. \A n \in DOMAIN pullRequestHandoffSessions :
           pullRequestHandoffSessions[n].node \in DOMAIN nodes'
    BY <1>2, <1>3 DEF PullInv, RecordInv
  <2>2. handoff \in [node : 0..Len(nodes'), pr : 0..Len(pullRequestHandoffSessions), error : BOOLEAN]
    <3>1. 0..Len(nodes) \subseteq 0..Len(nodes')
      BY <1>2, <1>3
    <3> QED
      BY <3>1 DEF PullInv, RecordInv
  <2> QED
    BY <1>1, <1>2, <2>1, <2>2 DEF PullInv, RecordInv, Pull!RightCommit, Pull!None
<1>5. PanelInv'
  <2>1. \A w \in Windows : \A d \in pullRequestHandoffKnown[w] : Len(d.nodes) <= Len(nodes')
    <3> SUFFICES ASSUME NEW w \in Windows, NEW d \in pullRequestHandoffKnown[w]
                 PROVE  Len(d.nodes) <= Len(nodes')
      OBVIOUS
    <3>1. d \in Copies /\ Len(d.nodes) <= Len(nodes)
      BY DEF PullInv, PanelInv
    <3>2. Len(d.nodes) \in Nat
      BY <3>1, Element DEF Copies
    <3> QED
      BY <1>2, <1>3, <3>1, <3>2
  <2> QED
    BY <1>1, <2>1 DEF PullInv, PanelInv
<1>6. CallsInv'
  BY <1>1, <1>2, <1>3 DEF PullInv, CallsInv
<1> QED
  BY <1>4, <1>5, <1>6 DEF PullInv

LEMMA PressKeeps ==
    ASSUME PullInv, NEW w \in Windows, Pull!PressCreate(w) \/ Pull!PressRefresh(w)
    PROVE  PullInv'
<1>1. UNCHANGED <<nodes, pullRequestHandoffSessions, handoff, pullRequestHandoffKnown, branch>>
  BY DEF Pull!PressCreate, Pull!PressRefresh, Pull!server
<1>2. RecordInv' /\ PanelInv'
  BY <1>1, RecordStays, PanelStays DEF PullInv
<1>3. CASE Pull!PressCreate(w)
  <2> DEFINE q == [win |-> w, op |-> "create", node |-> Pull!SelectedNode(w), pc |-> "ready"]
  <2>1. pullRequestHandoffKnown[w] # {} /\ Pull!SelectedNode(w) # 0
    BY <1>3 DEF Pull!PressCreate, Pull!CanCreate, Pull!None
  <2>2. Pull!SelectedNode(w) \in DOMAIN nodes
    BY <2>1, SelectedIsACommit
  <2>3. Pull!SelectedNode(w) \in Nat
    BY <2>2, RecordTypes DEF PullInv
  <2>4. ~Pull!Pending(w, "create") /\ pullRequestHandoffPosts' = pullRequestHandoffPosts \cup {q}
    BY <1>3 DEF Pull!PressCreate, Pull!CanCreate
  <2>5. q \in HandoffPosts /\ q.win = w /\ q.op = "create" /\ q.pc = "ready"
        /\ q.node = Pull!SelectedNode(w)
    BY <2>3 DEF HandoffPosts
  <2> HIDE DEF q
  <2>6. CallsInv'
    BY <1>1, <2>2, <2>4, <2>5, CallAsked DEF PullInv
  <2> QED
    BY <1>2, <2>6 DEF PullInv
<1>4. CASE Pull!PressRefresh(w)
  <2> DEFINE q == [win |-> w, op |-> "refresh", node |-> 0, pc |-> "sent"]
  <2>1. ~Pull!Pending(w, "refresh") /\ pullRequestHandoffPosts' = pullRequestHandoffPosts \cup {q}
    BY <1>4 DEF Pull!PressRefresh, Pull!Asks, Pull!None
  <2>2. q \in HandoffPosts /\ q.win = w /\ q.op = "refresh" /\ q.pc = "sent"
    BY DEF HandoffPosts
  <2> HIDE DEF q
  <2>3. CallsInv'
    BY <1>1, <2>1, <2>2, CallAsked DEF PullInv
  <2> QED
    BY <1>2, <2>3 DEF PullInv
<1> QED
  BY <1>3, <1>4

LEMMA ServeKeeps ==
    ASSUME Pull!PullRequestHandoffAssumption, PullInv, NEW r \in pullRequestHandoffPosts, Pull!Serve(r)
    PROVE  PullInv'
<1> USE DEF Pull!server
<1>0. r \in HandoffPosts /\ (r.op = "create" => r.node \in DOMAIN nodes)
      /\ (r.pc \in {"insert", "record"} => r.op = "create" /\ Database)
  BY DEF PullInv, CallsInv
<1>1. CASE Pull!EnsureReady(r) \/ Pull!ReadIssue(r) \/ Pull!Refused(r)
  <2>1. UNCHANGED <<nodes, pullRequestHandoffSessions, handoff, pullRequestHandoffKnown, branch>>
    BY <1>1 DEF Pull!EnsureReady, Pull!ReadIssue, Pull!Refused
  <2>2. \/ Pull!Goes(r, "sent") \/ Pull!Goes(r, "answered")
        \/ Pull!Goes(r, "insert") /\ r.op = "create" /\ Database
    BY <1>1 DEF Pull!EnsureReady, Pull!ReadIssue, Pull!Refused
  <2>3. CallsInv'
    BY <2>1, <2>2, CallsGo DEF PullInv
  <2> QED
    BY <2>1, <2>3, RecordStays, PanelStays DEF PullInv
<1>2. CASE Pull!CreateIssuePullRequestSession(r)
  <2>1. /\ r.op = "create" /\ ~Pull!HasActive /\ Pull!Queued(r.node)
        /\ handoff' = Pull!Handoff(r.node, 0) /\ Pull!Goes(r, "answered")
        /\ UNCHANGED <<nodes, pullRequestHandoffKnown, branch>>
    BY <1>2 DEF Pull!CreateIssuePullRequestSession, Pull!None
  <2>2. RecordInv'
    BY <1>0, <2>1, QueuedKeeps DEF PullInv
  <2>3. CallsInv'
    BY <2>1, CallsGo DEF PullInv
  <2> QED
    BY <2>1, <2>2, <2>3, PanelStays DEF PullInv
<1>3. CASE Pull!InsertSession(r)
  <2>1. /\ r.pc = "insert" /\ ~Pull!HasActive /\ Pull!Queued(r.node)
        /\ handoff' = handoff /\ Pull!Goes(r, "record")
        /\ UNCHANGED <<nodes, pullRequestHandoffKnown, branch>>
    BY <1>3 DEF Pull!InsertSession, Pull!IndexAdmits
  <2>2. RecordInv'
    BY <1>0, <2>1, QueuedKeeps DEF PullInv
  <2>3. CallsInv'
    BY <1>0, <2>1, CallsGo DEF PullInv
  <2> QED
    BY <2>1, <2>2, <2>3, PanelStays DEF PullInv
<1>4. CASE Pull!StoreHandoff(r)
  <2>1. /\ r.pc = "record" /\ handoff' = [node |-> r.node, pr |-> 0, error |-> FALSE]
        /\ Pull!Goes(r, "answered")
        /\ UNCHANGED <<nodes, pullRequestHandoffSessions, pullRequestHandoffKnown, branch>>
    BY <1>4 DEF Pull!StoreHandoff, Pull!Handoff, Pull!None
  <2>2. RecordInv'
    <3>1. r.node \in 0..Len(nodes)
      BY <1>0, <2>1, RecordTypes DEF PullInv
    <3>2. 0 \in 0..Len(pullRequestHandoffSessions)
      BY RecordTypes DEF PullInv
    <3>3. handoff' \in [node : 0..Len(nodes), pr : 0..Len(pullRequestHandoffSessions), error : BOOLEAN]
      BY <2>1, <3>1, <3>2
    <3>4. handoff'.pr = 0
      BY <2>1
    <3> QED
      BY <2>1, <3>3, <3>4 DEF PullInv, RecordInv, Pull!RightCommit, Pull!None
  <2>3. CallsInv'
    BY <2>1, CallsGo DEF PullInv
  <2> QED
    BY <2>1, <2>2, <2>3, PanelStays DEF PullInv
<1>5. CASE Pull!RefreshIssueHandoff(r)
  <2>1. /\ handoff' = [handoff EXCEPT !.error = TRUE] /\ Pull!Goes(r, "answered")
        /\ UNCHANGED <<nodes, pullRequestHandoffSessions, pullRequestHandoffKnown, branch>>
    BY <1>5 DEF Pull!RefreshIssueHandoff
  <2>2. RecordInv'
    <3>1. handoff \in [node : 0..Len(nodes), pr : 0..Len(pullRequestHandoffSessions), error : BOOLEAN]
      BY DEF PullInv, RecordInv
    <3>2. handoff' \in [node : 0..Len(nodes), pr : 0..Len(pullRequestHandoffSessions), error : BOOLEAN]
          /\ handoff'.node = handoff.node /\ handoff'.pr = handoff.pr
      BY <2>1, <3>1
    <3> QED
      BY <2>1, <3>2 DEF PullInv, RecordInv, Pull!RightCommit, Pull!None
  <2>3. CallsInv'
    BY <2>1, CallsGo DEF PullInv
  <2> QED
    BY <2>1, <2>2, <2>3, PanelStays DEF PullInv
<1>6. CASE Pull!Settled(r)
  <2>1. /\ pullRequestHandoffPosts' = pullRequestHandoffPosts \ {r} /\ Pull!Shows(r.win)
        /\ UNCHANGED <<nodes, pullRequestHandoffSessions, handoff>>
    BY <1>6 DEF Pull!Settled
  <2>2. r.win \in Windows
    BY <1>0 DEF HandoffPosts
  <2>3. PanelInv'
    BY <2>1, <2>2, PanelShows
  <2>4. CallsInv'
    BY <2>1, CallsStay DEF PullInv
  <2> QED
    BY <2>1, <2>3, <2>4, RecordStays DEF PullInv
<1> QED
  BY <1>1, <1>2, <1>3, <1>4, <1>5, <1>6 DEF Pull!Serve

(* What a session does: the record it leaves, and the newest is recorded.  *)
LEMMA SessionKeeps ==
    ASSUME PullInv, NEW n \in DOMAIN pullRequestHandoffSessions,
           NEW state \in {"completed", "empty", "stopped"},
           Pull!SessionRuns(n) \/ Pull!SessionEnds(n, state)
    PROVE  PullInv' /\ (Pull!Recorded => Pull!Recorded')
<1> DEFINE ses == pullRequestHandoffSessions
<1>0. ses[n].state \in HandoffStates /\ ses[n] \in HandoffSessions /\ Len(ses) \in Nat
  BY RecordTypes DEF PullInv, HandoffSessions
<1>1. UNCHANGED <<nodes, pullRequestHandoffKnown, branch, pullRequestHandoffPosts>>
  BY DEF Pull!SessionRuns, Pull!SessionEnds
<1>2. PanelInv' /\ CallsInv'
  BY <1>1, PanelStays, CallsStay DEF PullInv
<1>3. CASE Pull!SessionRuns(n)
  <2>1. ses[n].state = "queued" /\ ses' = [ses EXCEPT ![n].state = "running"] /\ handoff' = handoff
    BY <1>3 DEF Pull!SessionRuns
  <2>2. RecordInv' /\ n = Len(ses) /\ Len(ses') = Len(ses) /\ ses'[n].state = "running"
    BY <1>1, <2>1, MovesKeep DEF PullInv, HandoffStates
  <2>3. Pull!Recorded'
    BY <2>2 DEF Pull!Recorded, Pull!Last
  <2> QED
    BY <1>2, <2>2, <2>3 DEF PullInv
<1>4. CASE Pull!SessionEnds(n, state)
  <2>1. ses[n].state \in {"queued", "running"}
    BY <1>4 DEF Pull!SessionEnds, Pull!Active
  <2>2. ses' = [ses EXCEPT ![n].state = state] /\ handoff' = Pull!Reports(n, state)
    BY <1>4 DEF Pull!SessionEnds
  <2>3. \/ handoff' = handoff /\ state # "completed"
        \/ handoff' = Pull!Handoff(ses[n].node, n)
        \/ handoff' = [handoff EXCEPT !.error = TRUE,
              !.node = IF @ = 0 THEN ses[n].node ELSE @] /\ state # "completed"
    BY <2>2 DEF Pull!Reports, Pull!Published, Pull!None
  <2>4. RecordInv' /\ n = Len(ses) /\ Len(ses') = Len(ses) /\ ses'[n].state = state
    BY <1>1, <2>1, <2>2, <2>3, MovesKeep DEF PullInv, HandoffStates
  <2>5. state = "completed" => handoff'.pr = n
    BY <2>3 DEF Pull!Handoff
  <2>6. Pull!Recorded'
    BY <2>4, <2>5 DEF Pull!Recorded, Pull!Last
  <2> QED
    BY <1>2, <2>4, <2>6 DEF PullInv
<1> QED
  BY <1>3, <1>4

LEMMA PullStep ==
    ASSUME Pull!PullRequestHandoffAssumption, PullInv, [Pull!Next]_(Pull!vars)
    PROVE  PullInv'
<1> USE DEF Pull!server
<1>1. CASE UNCHANGED Pull!vars
  BY <1>1, RecordStays, PanelStays, CallsStay DEF PullInv, Pull!vars
<1>2. ASSUME NEW b \in BranchNames, NEW w \in Windows, Pull!SelectBranch(w, b)
      PROVE  PullInv'
  <2> DEFINE d == Pull!Detail(w)
  <2>1. pullRequestHandoffKnown[w] # {} /\ branch' = [branch EXCEPT ![w] = Pull!Kept(b, d.nodes)]
        /\ UNCHANGED <<nodes, pullRequestHandoffSessions, handoff, pullRequestHandoffKnown,
                       pullRequestHandoffPosts>>
    BY <1>2 DEF Pull!SelectBranch
  <2>2. d \in Copies
    BY <2>1 DEF Pull!Detail, PullInv, PanelInv
  <2>3. Pull!Kept(b, d.nodes) \in BranchNames
    BY <2>2, KeptIsABranch DEF Copies
  <2>4. PanelInv'
    BY <2>1, <2>3 DEF PullInv, PanelInv
  <2> QED
    BY <2>1, <2>4, RecordStays, CallsStay DEF PullInv
<1>3. CASE Pull!WorkerChanges
  BY <1>3, RecordStays, PanelStays, CallsStay DEF PullInv, Pull!WorkerChanges
<1>4. ASSUME NEW w \in Windows, Pull!Poll(w) PROVE PullInv'
  BY <1>4, PanelShows, RecordStays, CallsStay DEF PullInv, Pull!Poll
<1>5. ASSUME NEW r \in pullRequestHandoffPosts, Pull!Lost(r) PROVE PullInv'
  <2>1. Pull!Goes(r, "answered") /\ UNCHANGED <<nodes, pullRequestHandoffSessions, handoff,
                                                pullRequestHandoffKnown, branch>>
    BY <1>5 DEF Pull!Lost
  <2>2. CallsInv'
    BY <2>1, CallsGo DEF PullInv
  <2> QED
    BY <2>1, <2>2, RecordStays, PanelStays DEF PullInv
<1>6. CASE Pull!Session
  BY <1>6, SessionKeeps DEF Pull!Session
<1>7. ASSUME NEW w \in Windows, NEW op, Pull!Requests(w, op) PROVE PullInv'
  BY <1>7, ServeKeeps DEF Pull!Requests
<1>8. ASSUME NEW b \in BranchNames, Pull!SourceCaptured(b) PROVE PullInv'
  BY <1>8, CaptureKeeps
<1>9. ASSUME NEW w \in Windows, Pull!PressCreate(w) \/ Pull!PressRefresh(w) PROVE PullInv'
  BY <1>9, PressKeeps
<1> QED
  BY <1>1, <1>2, <1>3, <1>4, <1>5, <1>6, <1>7, <1>8, <1>9 DEF Pull!Next, BranchNames

LEMMA PullTyped ==
    ASSUME PullInv
    PROVE  Pull!TypeOK
<1> DEFINE ses == pullRequestHandoffSessions
           A == {n \in DOMAIN ses : ses[n].state \in {"queued", "running"}}
<1>1. \A m, n \in A : m = n
  BY DEF PullInv, RecordInv
<1>2. Pull!Cardinality(A) <= 1
  BY <1>1, AtMostOne, SameCardinality
<1>3. \A w \in Windows : Pull!Cardinality(pullRequestHandoffKnown[w]) <= 1
  BY AtMostOne, SameCardinality DEF PullInv, PanelInv
<1>4. \A n \in DOMAIN ses : /\ ses[n].node \in DOMAIN nodes
                            /\ ses[n].state \in {"queued", "running", "completed", "empty", "stopped"}
  BY RecordTypes DEF PullInv, RecordInv, HandoffSessions, HandoffStates
<1>5. handoff.node \in 0..Len(nodes) /\ handoff.pr \in 0..Len(ses) /\ nodes \in Seq(BranchNames)
  BY RecordTypes DEF PullInv, RecordInv
<1>6. \A w \in Windows : branch[w] \in BranchNames
  BY DEF PullInv, PanelInv
<1> QED
  BY <1>2, <1>3, <1>4, <1>5, <1>6
  DEF Pull!TypeOK, Pull!Active, PullInv, CallsInv, BranchNames

(* In the in-memory store the session and the record of it are one step.   *)
LEMMA RecordedStep ==
    ASSUME PullInv, Pull!Recorded, ~Database, [Pull!Next]_(Pull!vars)
    PROVE  Pull!Recorded'
<1> USE DEF Pull!server
<1> DEFINE ses == pullRequestHandoffSessions
<1>1. CASE UNCHANGED <<pullRequestHandoffSessions, handoff>>
  BY <1>1 DEF Pull!Recorded, Pull!Last
<1>2. CASE Pull!Session
  BY <1>2, SessionKeeps DEF Pull!Session
<1>3. ASSUME NEW r \in pullRequestHandoffPosts, Pull!Serve(r) PROVE Pull!Recorded'
  <2>1. r.pc \notin {"insert", "record"}
    BY DEF PullInv, CallsInv
  <2>2. CASE Pull!EnsureReady(r) \/ Pull!Refused(r) \/ Pull!Settled(r)
    BY <1>1, <2>2 DEF Pull!EnsureReady, Pull!Refused, Pull!Settled
  <2>3. CASE Pull!CreateIssuePullRequestSession(r)
    <3>1. ses' = Append(ses, [node |-> r.node, state |-> "queued"])
      BY <2>3 DEF Pull!CreateIssuePullRequestSession, Pull!Queued
    <3>2. [node |-> r.node, state |-> "queued"] \in HandoffSessions
      <4>1. r.node \in Nat
        BY DEF PullInv, CallsInv, HandoffPosts
      <4> QED
        BY <4>1 DEF HandoffSessions, HandoffStates
    <3>3. ses'[Len(ses')].state = "queued"
      BY <3>1, <3>2, Appended DEF PullInv, RecordInv
    <3> QED
      BY <3>3 DEF Pull!Recorded, Pull!Last
  <2>4. CASE Pull!RefreshIssueHandoff(r)
    <3>1. handoff' = [handoff EXCEPT !.error = TRUE] /\ UNCHANGED ses
      BY <2>4 DEF Pull!RefreshIssueHandoff
    <3>2. handoff'.pr = handoff.pr
      BY <3>1 DEF PullInv, RecordInv
    <3> QED
      BY <3>1, <3>2 DEF Pull!Recorded, Pull!Last
  <2>5. ~Pull!ReadIssue(r) /\ ~Pull!InsertSession(r) /\ ~Pull!StoreHandoff(r)
    BY <2>1 DEF Pull!ReadIssue, Pull!InsertSession, Pull!StoreHandoff
  <2> QED
    BY <1>3, <2>2, <2>3, <2>4, <2>5 DEF Pull!Serve
<1>4. ASSUME NEW w \in Windows, NEW op, Pull!Requests(w, op) PROVE Pull!Recorded'
  BY <1>3, <1>4 DEF Pull!Requests
<1>5. ASSUME NEW w \in Windows, Pull!PressCreate(w) \/ Pull!PressRefresh(w) \/ Pull!Poll(w)
                                \/ \E b : Pull!SelectBranch(w, b)
      PROVE  UNCHANGED <<pullRequestHandoffSessions, handoff>>
  BY <1>5 DEF Pull!PressCreate, Pull!PressRefresh, Pull!Poll, Pull!SelectBranch
<1>6. ASSUME \/ \E b : Pull!SourceCaptured(b)
             \/ Pull!WorkerChanges
             \/ \E r \in pullRequestHandoffPosts : Pull!Lost(r)
      PROVE  UNCHANGED <<pullRequestHandoffSessions, handoff>>
  BY <1>6 DEF Pull!SourceCaptured, Pull!WorkerChanges, Pull!Lost
<1> QED
  BY <1>1, <1>2, <1>4, <1>5, <1>6 DEF Pull!Next, Pull!vars

(* The types of the pull request, in both stores.                          *)
THEOREM HandoffTypeCorrect ==
    ASSUME Pull!PullRequestHandoffAssumption
    PROVE  Pull!Spec => []Pull!TypeOK
<1>1. Pull!Init => PullInv
  BY PullInit
<1>2. PullInv /\ [Pull!Next]_(Pull!vars) => PullInv'
  BY PullStep
<1>3. PullInv => Pull!TypeOK
  BY PullTyped
<1> QED
  BY <1>1, <1>2, <1>3, PTL DEF Pull!Spec

(* A recorded pull request is of the commit its session was given, in both *)
(* stores, whatever commits came in and whatever was asked for meanwhile   *)
(* (runtime_task_results.go).                                              *)
THEOREM PullRequestOfItsCommit ==
    ASSUME Pull!PullRequestHandoffAssumption
    PROVE  Pull!Spec => []Pull!RightCommit
<1>1. Pull!Init => PullInv
  BY PullInit
<1>2. PullInv /\ [Pull!Next]_(Pull!vars) => PullInv'
  BY PullStep
<1>3. PullInv => Pull!RightCommit
  BY DEF PullInv, RecordInv
<1> QED
  BY <1>1, <1>2, <1>3, PTL DEF Pull!Spec

(* In the in-memory store the pull request of the newest session, once it  *)
(* has completed with one, is on record: no request of another window and  *)
(* no refresh takes it away.                                               *)
THEOREM PullRequestRecorded ==
    ASSUME Pull!PullRequestHandoffAssumption, ~Database
    PROVE  Pull!Spec => []Pull!Recorded
<1>1. Pull!Init => PullInv /\ Pull!Recorded
  BY PullInit DEF Pull!Init, Pull!Recorded
<1>2. PullInv /\ Pull!Recorded /\ [Pull!Next]_(Pull!vars) => PullInv' /\ Pull!Recorded'
  BY PullStep, RecordedStep
<1> QED
  BY <1>1, <1>2, PTL DEF Pull!Spec

=============================================================================
