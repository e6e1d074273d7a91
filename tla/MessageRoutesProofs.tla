-------------------------- MODULE MessageRoutesProofs --------------------------
(***************************************************************************)
(* Proofs about RoutedGroupsCache, for any sessions, groups, time to live  *)
(* and number of writes, invalidations and callers, and about              *)
(* MessageRoutes, for any limits and number of requests in flight. The     *)
(* cache's theorems carry over, because every step of the composition is   *)
(* one of the cache or leaves it alone.                                    *)
(***************************************************************************)
EXTENDS MessageRoutes, FiniteSetTheorems, TLAPS

--------------------------------------------------------------------------------
(* The cache. *)

USE CacheAssumption DEF NoLoad

LEMMA InitInv == Init => IInv
  BY DEF Init, IInv, TypeOK, TableIsCurrent, EntriesCurrent, LoadsCurrent,
         PendingKnown, AnswerIsCurrent, OneLoad, PendingInFlight

LEMMA TypeStep == TypeOK /\ [Next]_vars => TypeOK'
<1> SUFFICES ASSUME TypeOK, [Next]_vars PROVE TypeOK'
  OBVIOUS
<1> USE DEF TypeOK, Load, Waiting
<1>w. ASSUME NEW s \in Session, NEW g \in Nat
      PROVE  [session |-> s, generation |-> g, legit |-> since[s]] \in Waiting
  <2>1. since[s] \in SUBSET SUBSET Group
    OBVIOUS
  <2> QED
    BY <2>1 DEF Waiting
<1>1. ASSUME NEW s \in Session, Join(s) PROVE TypeOK'
  <2>1. pendingLoads[s] \in Nat
    BY <1>1 DEF Join, MayJoin
  <2>2. calls' \subseteq Waiting
    BY <1>1, <2>1, <1>w DEF Join, Wait
  <2> QED
    BY <1>1, <2>2 DEF Join
<1>s. ASSUME NEW s \in Session, StartLoad(s) PROVE TypeOK'
  <2>1. calls' \subseteq Waiting
    BY <1>s, <1>w DEF StartLoad, Wait
  <2>2. [session |-> s, generation |-> generations[s], read |-> FALSE,
         found |-> {}] \in Load
    BY {} \in SUBSET Group DEF Load
  <2> QED
    BY <1>s, <2>1, <2>2 DEF StartLoad
<1>2. ASSUME NEW S \in SUBSET Session, Invalidate(S) PROVE TypeOK'
  BY <1>2 DEF Invalidate
<1>3. ASSUME NEW new \in [Session -> SUBSET Group], Write(new) PROVE TypeOK'
  BY <1>3 DEF Write
<1>4. ASSUME NEW l \in loads, LoadRead(l) PROVE TypeOK'
  <2>1. /\ routed[l.session] \in SUBSET Group
        /\ l.session \in Session /\ l.generation \in Nat
    OBVIOUS
  <2>2. [session |-> l.session, generation |-> l.generation,
         read |-> TRUE, found |-> routed[l.session]] \in Load
    <3> HIDE DEF TypeOK
    <3> QED
      BY <2>1 DEF Load
  <2> HIDE DEF Load
  <2> QED
    BY <1>4, <2>2 DEF LoadRead
<1>5. ASSUME NEW l \in loads, LoadAnswered(l) \/ LoadFails(l) PROVE TypeOK'
  BY <1>5 DEF LoadAnswered, LoadFails, Settle
<1>6. CASE Tick
  BY <1>6 DEF Tick
<1>7. CASE UNCHANGED vars
  BY <1>7 DEF vars
<1> QED
  BY <1>1, <1>s, <1>2, <1>3, <1>4, <1>5, <1>6, <1>7 DEF Next

LEMMA InvStep == IInv /\ [Next]_vars => IInv'
<1> SUFFICES ASSUME IInv, [Next]_vars PROVE IInv'
  OBVIOUS
<1> USE DEF IInv, TableIsCurrent, EntriesCurrent, LoadsCurrent, PendingKnown,
            AnswerIsCurrent, OneLoad, PendingInFlight, JoinedTo
<1>t. TypeOK'
  BY TypeStep
<1> USE DEF TypeOK, Load, Waiting
<1>1. ASSUME NEW s \in Session, Join(s) PROVE IInv'
  BY <1>1, <1>t DEF Join, Wait, MayJoin
<1>2. ASSUME NEW s \in Session, StartLoad(s) PROVE IInv'
  <2> DEFINE n == [session |-> s, generation |-> generations[s],
                   read |-> FALSE, found |-> {}]
             w == [session |-> s, generation |-> generations[s], legit |-> since[s]]
  <2>1. /\ loads' = loads \cup {n} /\ ~n.read
        /\ n.session = s /\ n.generation = generations[s]
        /\ calls' = calls \cup {w} /\ w.session = s /\ w.legit = since[s]
        /\ pendingLoads' = [pendingLoads EXCEPT ![s] = generations[s]]
        /\ pendingLoads[s] # generations[s]
        /\ UNCHANGED <<now, routed, entries, generations, since>>
    BY <1>2 DEF StartLoad, Wait, MayJoin
  <2> HIDE DEF n, w
  <2>2. \A l \in loads : l.session = s => l.generation # generations[s]
    BY <2>1
  <2>3. n \in Load /\ w \in Waiting
    BY <2>1, <1>t
  <2>4. OneLoad'
    BY <2>1, <2>2
  <2>5. AnswerIsCurrent'
    <3> SUFFICES ASSUME NEW l \in loads', l.read, NEW c \in calls',
                        c.session = l.session, c.generation = l.generation
                 PROVE  l.found \in c.legit
      OBVIOUS
    <3>1. l \in loads
      BY <2>1
    <3>2. CASE c \in calls
      BY <3>1, <3>2
    <3>3. CASE c = w
      BY <3>1, <3>3, <2>1, <2>2, <1>2 DEF w
    <3> QED
      BY <2>1, <3>2, <3>3
  <2>6. PendingInFlight'
    BY <2>1
  <2>7. LoadsCurrent' /\ TableIsCurrent' /\ EntriesCurrent' /\ PendingKnown'
    BY <2>1, <2>3
  <2> QED
    BY <1>t, <2>4, <2>5, <2>6, <2>7
<1>3. ASSUME NEW S \in SUBSET Session, Invalidate(S) PROVE IInv'
  BY <1>3, <1>t DEF Invalidate
<1>4. ASSUME NEW new \in [Session -> SUBSET Group], Write(new) PROVE IInv'
  BY <1>4, <1>t DEF Write
<1>5. ASSUME NEW l \in loads, LoadRead(l) PROVE IInv'
  <2> DEFINE m == [session |-> l.session, generation |-> l.generation,
                   read |-> TRUE, found |-> routed[l.session]]
  <2>1. /\ loads' = (loads \ {l}) \cup {m}
        /\ m.session = l.session /\ m.generation = l.generation
        /\ m.found = routed[l.session]
        /\ UNCHANGED <<now, routed, entries, generations, pendingLoads, calls, since>>
    BY <1>5 DEF LoadRead
  <2> HIDE DEF m
  <2>2. OneLoad'
    BY <2>1
  <2>3. AnswerIsCurrent' /\ LoadsCurrent'
    BY <2>1
  <2>4. PendingInFlight'
    BY <2>1
  <2> QED
    BY <1>t, <2>1, <2>2, <2>3, <2>4
<1>6. ASSUME NEW l \in loads, LoadAnswered(l) PROVE IInv'
  BY <1>6, <1>t DEF LoadAnswered, Settle
<1>7. ASSUME NEW l \in loads, LoadFails(l) PROVE IInv'
  BY <1>7, <1>t DEF LoadFails, Settle
<1>8. CASE Tick
  BY <1>8, <1>t DEF Tick
<1>9. CASE UNCHANGED vars
  BY <1>9 DEF vars
<1> QED
  BY <1>1, <1>2, <1>3, <1>4, <1>5, <1>6, <1>7, <1>8, <1>9 DEF Next

(* Every reachable state satisfies the inductive invariant. *)
THEOREM Invariance == Spec => []IInv
  BY InitInv, InvStep, PTL DEF Spec

(* A cache hit shows a state of the routes no older than the session's last *)
(* invalidation.                                                            *)
THEOREM HitsAreCurrent == Spec => []HitIsCurrent
<1>1. IInv => HitIsCurrent
  BY DEF IInv, TypeOK, EntriesCurrent, HitIsCurrent, Hit
<1> QED
  BY <1>1, Invariance, PTL

(* A call that waits for a query is answered with a state of the routes no  *)
(* older than the last invalidation before the call.                        *)
THEOREM AnswersAreCurrent == Spec => []AnswerIsCurrent
<1>1. IInv => AnswerIsCurrent
  BY DEF IInv
<1> QED
  BY <1>1, Invariance, PTL

(* Queries of one session and generation are shared.                        *)
THEOREM LoadsShared == Spec => []OneLoad
<1>1. IInv => OneLoad
  BY DEF IInv
<1> QED
  BY <1>1, Invariance, PTL

(* A query that ended is joined no more. *)
THEOREM PendingLoadsRun == Spec => []PendingInFlight
<1>1. IInv => PendingInFlight
  BY DEF IInv
<1> QED
  BY <1>1, Invariance, PTL

--------------------------------------------------------------------------------
(* The requests and the cache. *)

USE RoutesAssumption

LEMMA TableType ==
  ASSUME rows \in [RouteId -> Row \cup {NoRow}]
  PROVE  Table \in [Session -> SUBSET Group]
<1>1. \A i \in Active : rows[i].key.source \in Group
  BY DEF Active, Row, NoRow, Key
<1> QED
  BY <1>1 DEF Table

LEMMA IdleIsNone == Idle \notin Request /\ \A q \in Request : q.pc # "idle"
  BY DEF Idle, Request

(* The requests' types, away from the commit. *)
LEMMA AskType ==
  ASSUME RoutesTypeOK, NEW r \in Slot, NEW q \in Request, Ask(r, q)
  PROVE  RoutesTypeOK'
<1>1. TypeOK'
  BY DEF RoutesTypeOK, Ask, vars, TypeOK
<1> QED
  BY <1>1 DEF RoutesTypeOK, Ask, Existing

LEMMA CommitType ==
  ASSUME RoutesTypeOK, NEW r \in Slot, ~At(r, "idle"),
         NEW i \in RouteId, NEW row \in Row, Commit(r, i, row),
         Owes(slot[r]) \subseteq Session, Missed(slot[r]) \subseteq Session,
         \A j \in Existing : rows[j].key = row.key => j = i
  PROVE  RoutesTypeOK' /\ Table' \in [Session -> SUBSET Group]
<1>1. rows' \in [RouteId -> Row \cup {NoRow}]
  BY DEF RoutesTypeOK, Commit
<1>2. Table' \in [Session -> SUBSET Group]
  <2>1. \A j \in Active' : rows'[j].key.source \in Group
    BY <1>1 DEF Active, Row, NoRow, Key
  <2> QED
    BY <2>1 DEF Table
<1>3. TypeOK'
  BY <1>2, TypeStep DEF RoutesTypeOK, Commit, Next
<1>4. slot[r] \in Request
  BY IdleIsNone DEF RoutesTypeOK, At, Idle
<1>5. slot' \in [Slot -> Request \cup {Idle}]
  <2> DEFINE q == [[slot[r] EXCEPT !.pc = "answer"] EXCEPT !.owes = Owes(slot[r])]
  <2>1. q \in Request
    BY <1>4 DEF Request
  <2>2. slot' = [slot EXCEPT ![r] = q]
    BY DEF Commit
  <2> HIDE DEF q
  <2> QED
    BY <2>1, <2>2 DEF RoutesTypeOK
<1>6. \A j, k \in Existing' : rows'[j].key = rows'[k].key => j = k
  <2>1. \A j \in Existing' : j = i \/ (j # i /\ j \in Existing /\ rows'[j] = rows[j])
    BY DEF Existing, Commit, RoutesTypeOK
  <2>2. rows'[i] = row
    BY DEF Commit, RoutesTypeOK
  <2> QED
    BY <2>1, <2>2 DEF RoutesTypeOK
<1> QED
  BY <1>1, <1>2, <1>3, <1>5, <1>6 DEF RoutesTypeOK, Commit

Basic == RoutesTypeOK /\ RowsExist

LEMMA AskBasic ==
  ASSUME Basic, NEW r \in Slot, NEW q \in Request, Ask(r, q),
         q.op # "create" => q.id \in Existing
  PROVE  Basic'
<1>1. RoutesTypeOK'
  BY AskType DEF Basic
<1>2. RowsExist'
  BY DEF Basic, RoutesTypeOK, RowsExist, Ask, At, Existing
<1> QED
  BY <1>1, <1>2 DEF Basic

LEMMA CommitBasic ==
  ASSUME Basic, NEW r \in Slot, ~At(r, "idle"),
         NEW i \in RouteId, NEW row \in Row, Commit(r, i, row),
         Owes(slot[r]) \subseteq Session, Missed(slot[r]) \subseteq Session,
         \A j \in Existing : rows[j].key = row.key => j = i
  PROVE  Basic' /\ Next
<1>1. RoutesTypeOK' /\ Table' \in [Session -> SUBSET Group]
  BY CommitType DEF Basic
<1>2. Existing \subseteq Existing'
  BY DEF Basic, RoutesTypeOK, Commit, Existing, Row, NoRow
<1>3. \A q \in Slot : slot'[q].op = slot[q].op /\ slot'[q].id = slot[q].id
                     /\ (slot[q].pc = "idle" => slot'[q].pc = "idle")
  BY IdleIsNone DEF Basic, RoutesTypeOK, Commit, At
<1>4. RowsExist'
  BY <1>2, <1>3 DEF Basic, RowsExist, At
<1> QED
  BY <1>1, <1>4 DEF Basic, Commit, Next

(* The first query of a request, whatever it is, leaves a sound request. *)
Asks(r) ==
  \/ \E k \in Key : CreateFind(r, k)
  \/ \E i \in RouteId, k \in Key, on \in BOOLEAN : UpdateFind(r, i, k, on)
  \/ \E i \in RouteId : DeleteFind(r, i)

Sound(q) ==
  /\ q \in Request /\ q.pc # "answer"
  /\ q.op # "create" => q.id \in Existing
  /\ q.pc = "write" => q.op = "delete" \/ ~q.on
  /\ q.op = "reactivate" => q.on /\ rows[q.id].key = q.key
  /\ q.op = "create" => q.on

LEMMA AskSound ==
  ASSUME Basic, NEW r \in Slot, Asks(r)
  PROVE  \E q \in Request : Sound(q) /\ Ask(r, q)
<1>k. \A i \in Existing : i \in RouteId /\ rows[i].key \in Key
                         /\ rows[i].key.session \in Session
  BY DEF Basic, RoutesTypeOK, Existing, Row, Key
<1>1. ASSUME NEW k \in Key, CreateFind(r, k)
      PROVE  \E q \in Request : Sound(q) /\ Ask(r, q)
  <2>1. CASE Ask(r, [op |-> "create", pc |-> "limit", id |-> 0, old |-> k.session,
                     key |-> k, on |-> TRUE, owes |-> {}])
    <3> DEFINE q == [op |-> "create", pc |-> "limit", id |-> 0, old |-> k.session,
                     key |-> k, on |-> TRUE, owes |-> {}]
    <3>1. q \in Request
      BY DEF Request, Key
    <3>2. Sound(q)
      BY <3>1 DEF Sound
    <3> QED
      BY <2>1, <3>1, <3>2
  <2>2. ASSUME NEW i \in Find(k),
               Ask(r, [op |-> "reactivate", pc |-> "limit", id |-> i, old |-> k.session,
                       key |-> k, on |-> TRUE, owes |-> {}])
        PROVE  \E q \in Request : Sound(q) /\ Ask(r, q)
    <3> DEFINE q == [op |-> "reactivate", pc |-> "limit", id |-> i, old |-> k.session,
                     key |-> k, on |-> TRUE, owes |-> {}]
    <3>1. i \in Existing /\ i \in RouteId /\ rows[i].key = k
      BY DEF Find, Existing
    <3>2. q \in Request
      BY <3>1 DEF Request, Key
    <3>3. Sound(q)
      BY <3>1, <3>2 DEF Sound
    <3> QED
      BY <2>2, <3>2, <3>3
  <2> QED
    BY <1>1, <2>1, <2>2 DEF CreateFind
<1>2. ASSUME NEW i \in RouteId, NEW k \in Key, NEW on \in BOOLEAN, UpdateFind(r, i, k, on)
      PROVE  \E q \in Request : Sound(q) /\ Ask(r, q)
  <2> DEFINE q == [op |-> "update", pc |-> IF on THEN "duplicate" ELSE "write", id |-> i,
                   old |-> rows[i].key.session, key |-> k, on |-> on, owes |-> {}]
  <2>1. q \in Request /\ Ask(r, q) /\ i \in Existing
    BY <1>2, <1>k DEF UpdateFind, Request
  <2>2. Sound(q)
    BY <2>1 DEF Sound
  <2> QED
    BY <2>1, <2>2
<1>3. ASSUME NEW i \in RouteId, DeleteFind(r, i)
      PROVE  \E q \in Request : Sound(q) /\ Ask(r, q)
  <2> DEFINE q == [op |-> "delete", pc |-> "write", id |-> i, old |-> rows[i].key.session,
                   key |-> rows[i].key, on |-> FALSE, owes |-> {}]
  <2>1. q \in Request /\ Ask(r, q) /\ i \in Existing
    BY <1>3, <1>k DEF DeleteFind, Request
  <2>2. Sound(q)
    BY <2>1 DEF Sound
  <2> QED
    BY <2>1, <2>2
<1> QED
  BY <1>1, <1>2, <1>3 DEF Asks

LEMMA BasicStep ==
  ASSUME Basic, [RoutesNext]_<<vars, routeVars>>
  PROVE  Basic' /\ [Next]_vars
<1> USE DEF At
<1>1. ASSUME CacheStep PROVE Basic' /\ Next
  <2>1. Next
    BY <1>1 DEF CacheStep, Next
  <2>2. TypeOK'
    BY <2>1, TypeStep DEF Basic, RoutesTypeOK
  <2> QED
    BY <1>1, <2>1, <2>2 DEF CacheStep, Basic, RoutesTypeOK, RowsExist, routeVars, Existing
<1>2. ASSUME NEW r \in Slot, Asks(r) PROVE Basic' /\ UNCHANGED vars
  <2>1. PICK q \in Request : Sound(q) /\ Ask(r, q)
    BY <1>2, AskSound
  <2> QED
    BY <2>1, AskBasic DEF Ask, Sound
<1>k. \A i \in Existing : i \in RouteId /\ rows[i] \in Row
                         /\ rows[i].key \in Key /\ rows[i].key.session \in Session
  BY DEF Basic, RoutesTypeOK, Existing, Row, Key
<1>q. \A r \in Slot : ~At(r, "idle") =>
        /\ slot[r] \in Request /\ slot[r].old \in Session /\ slot[r].key \in Key
        /\ slot[r].key.session \in Session /\ slot[r].on \in BOOLEAN
        /\ slot[r].owes \subseteq Session
        /\ slot[r].op # "create" => slot[r].id \in Existing
  BY DEF Basic, RoutesTypeOK, RowsExist, Idle, Request, Key
<1>5. ASSUME NEW r \in Slot, NEW pc \in {"limit", "write"}, ~At(r, "idle"), Goto(r, pc)
      PROVE  Basic' /\ UNCHANGED vars
  <2>1. [slot[r] EXCEPT !.pc = pc] \in Request
    BY <1>5, <1>q DEF Request
  <2>2. TypeOK'
    BY <1>5 DEF Goto, vars, TypeOK, Basic, RoutesTypeOK
  <2> QED
    BY <1>5, <2>1, <2>2 DEF Goto, Basic, RoutesTypeOK, RowsExist, Existing
<1>6. ASSUME NEW r \in Slot, CreateWrite(r) PROVE Basic' /\ Next
  <2>1. PICK i \in RouteId \ Existing : Commit(r, i, [key |-> slot[r].key, on |-> TRUE])
    BY <1>6 DEF CreateWrite
  <2>2. [key |-> slot[r].key, on |-> TRUE] \in Row
    BY <1>6, <1>q DEF CreateWrite, Row
  <2>3. Owes(slot[r]) \subseteq Session /\ Missed(slot[r]) \subseteq Session
    BY <1>6, <1>q DEF CreateWrite, Owes, Missed
  <2> QED
    BY <1>6, <2>1, <2>2, <2>3, CommitBasic DEF CreateWrite, Find
<1>7. ASSUME NEW r \in Slot, UpdateWrite(r) PROVE Basic' /\ Next
  <2>1. slot[r].id \in RouteId /\ [key |-> slot[r].key, on |-> slot[r].on] \in Row
    BY <1>7, <1>q DEF UpdateWrite, Row, Existing
  <2>2. Owes(slot[r]) \subseteq Session /\ Missed(slot[r]) \subseteq Session
    BY <1>7, <1>q, <1>k DEF UpdateWrite, Owes, Missed
  <2> QED
    BY <1>7, <2>1, <2>2, CommitBasic DEF UpdateWrite, Find
<1>8. ASSUME NEW r \in Slot, SwitchWrite(r) PROVE Basic' /\ Next
  <2>1. slot[r].id \in Existing
    BY <1>8, <1>q DEF SwitchWrite
  <2>2. slot[r].id \in RouteId
        /\ [key |-> rows[slot[r].id].key, on |-> slot[r].op = "reactivate"] \in Row
    BY <1>8, <1>q, <1>k, <2>1 DEF SwitchWrite, Row
  <2>3. Owes(slot[r]) \subseteq Session /\ Missed(slot[r]) \subseteq Session
    BY <1>8, <1>k, <2>1 DEF SwitchWrite, Owes, Missed
  <2> QED
    BY <1>8, <2>1, <2>2, <2>3, CommitBasic DEF SwitchWrite, Basic, RoutesTypeOK
<1>9. ASSUME NEW r \in Slot, EndsUnwritten(r) \/ AnswerLost(r)
      PROVE  Basic' /\ UNCHANGED vars
  <2>1. TypeOK'
    BY <1>9 DEF EndsUnwritten, AnswerLost, vars, TypeOK, Basic, RoutesTypeOK
  <2> QED
    BY <1>9, <2>1, <1>q DEF EndsUnwritten, AnswerLost, Basic, RoutesTypeOK, RowsExist,
                            Existing, Idle
<1>10. ASSUME NEW r \in Slot, Answered(r) PROVE Basic' /\ Next
  <2>1. Next
    BY <1>10, <1>q DEF Answered, Next
  <2>2. TypeOK'
    BY <2>1, TypeStep DEF Basic, RoutesTypeOK
  <2> QED
    BY <1>10, <2>1, <2>2 DEF Answered, Basic, RoutesTypeOK, RowsExist, Existing, Idle
<1>11. ASSUME UNCHANGED <<vars, routeVars>> PROVE Basic' /\ UNCHANGED vars
  <2>1. TypeOK'
    BY <1>11 DEF vars, TypeOK, Basic, RoutesTypeOK
  <2> QED
    BY <1>11, <2>1 DEF Basic, RoutesTypeOK, RowsExist, routeVars, Existing
<1>12. ASSUME NEW r \in Slot, RouteStep(r) PROVE Basic' /\ [Next]_vars
  <2>1. ASSUME UpdateDuplicate(r) \/ Limit(r) PROVE Basic' /\ UNCHANGED vars
    BY <2>1, <1>5 DEF UpdateDuplicate, Limit
  <2> QED
    BY <1>12, <1>2, <1>6, <1>7, <1>8, <1>9, <1>10, <2>1 DEF RouteStep, Asks
<1> QED
  BY <1>1, <1>11, <1>12 DEF RoutesNext

(***************************************************************************)
(* The cache.                                                              *)
(***************************************************************************)

LEMMA InitBasic == RoutesInit => Basic /\ Init
<1> SUFFICES ASSUME RoutesInit PROVE Basic
  BY DEF RoutesInit
<1>1. TypeOK
  BY InitInv DEF RoutesInit, IInv
<1> QED
  BY <1>1 DEF RoutesInit, Basic, RoutesTypeOK, RowsExist, At, Idle, Existing

(* The message routes use the cache as its own specification allows: what   *)
(* is proved of the cache alone holds beside the routes.                    *)
THEOREM RoutesImplementCache == RoutesSpec => Spec
<1>1. Basic /\ [RoutesNext]_<<vars, routeVars>> => Basic' /\ [Next]_vars
  BY BasicStep
<1> QED
  BY InitBasic, <1>1, PTL DEF RoutesSpec, Spec

(***************************************************************************)
(* A commit changes the table of the sessions it owes an invalidation to.  *)
(***************************************************************************)

LEMMA CommitTable ==
  ASSUME Basic, NEW r, NEW i \in RouteId, NEW row \in Row, Commit(r, i, row),
         NEW s \in Session,
         row.on => row.key.session # s,
         rows[i].on => rows[i].key.session # s
  PROVE  Table'[s] = Table[s]
<1>1. rows' = [rows EXCEPT ![i] = row] /\ rows \in [RouteId -> Row \cup {NoRow}]
  BY DEF Commit, Basic, RoutesTypeOK
<1>2. {j \in Active' : rows'[j].key.session = s} = {j \in Active : rows[j].key.session = s}
  BY <1>1 DEF Active
<1>3. \A j \in {k \in Active : rows[k].key.session = s} : rows'[j] = rows[j]
  BY <1>1 DEF Active
<1> QED
  BY <1>2, <1>3 DEF Table

LEMMA CommitOwed ==
  ASSUME Basic, NEW r \in Slot, ~At(r, "idle"), ~At(r, "answer"),
         NEW i \in RouteId, NEW row \in Row, Commit(r, i, row)
  PROVE  Owed' = Owed \cup Owes(slot[r])
<1>1. slot'[r].pc = "answer" /\ slot'[r].owes = Owes(slot[r])
  BY IdleIsNone DEF Commit, Basic, RoutesTypeOK, At, Request
<1>2. \A q \in Slot \ {r} : slot'[q] = slot[q]
  BY DEF Commit, Basic, RoutesTypeOK
<1> QED
  BY <1>1, <1>2 DEF Owed, At

LEMMA CommitShows ==
  ASSUME Basic, routed = Table, CacheShowsTable,
         NEW r \in Slot, ~At(r, "idle"), ~At(r, "answer"),
         NEW i \in RouteId, NEW row \in Row, Commit(r, i, row),
         row.on => row.key.session \in Owes(slot[r]) \cup Missed(slot[r]),
         rows[i].on => rows[i].key.session \in Owes(slot[r]) \cup Missed(slot[r])
  PROVE  routed' = Table' /\ CacheShowsTable'
<1>1. routed' = Table' /\ UNCHANGED <<entries, generations, loads>>
  BY DEF Commit, Write
<1>2. Owed' \cup unannounced' = Owed \cup unannounced \cup Owes(slot[r]) \cup Missed(slot[r])
  BY CommitOwed DEF Commit
<1>3. ASSUME NEW s \in Session \ (unannounced \cup Owed)', s \in Session
      PROVE  s \in Session \ (unannounced \cup Owed) /\ routed'[s] = routed[s]
  <2>1. Table'[s] = Table[s]
    BY <1>2, <1>3, CommitTable
  <2> QED
    BY <2>1, <1>1, <1>2, <1>3
<1> QED
  BY <1>1, <1>3 DEF CacheShowsTable

LEMMA ShowsStep ==
  ASSUME Basic, IInv, routed = Table, CacheShowsTable,
         [RoutesNext]_<<vars, routeVars>>
  PROVE  routed' = Table' /\ CacheShowsTable'
<1> USE DEF At
<1>t. /\ loads \subseteq Load /\ entries \in [Session -> [found : SUBSET Group, expiresAt : Nat]]
      /\ generations \in [Session -> Nat]
  BY DEF IInv, TypeOK
<1>q. \A r \in Slot : ~At(r, "idle") =>
        /\ slot[r] \in Request /\ slot[r].key \in Key /\ slot[r].owes \subseteq Session
        /\ slot[r].op # "create" => slot[r].id \in RouteId /\ rows[slot[r].id] \in Row
  BY DEF Basic, RoutesTypeOK, RowsExist, Idle, Request, Existing
<1>1. ASSUME CacheStep PROVE routed' = Table' /\ CacheShowsTable'
  <2>1. Table' = Table /\ Owed' = Owed /\ unannounced' = unannounced
    BY <1>1 DEF CacheStep, routeVars, Table, Active, Owed
  <2>2. ASSUME NEW s \in Session, Join(s) \/ StartLoad(s)
        PROVE  routed' = Table' /\ CacheShowsTable'
    BY <2>1, <2>2 DEF Join, StartLoad, CacheShowsTable
  <2>3. ASSUME NEW l \in loads, LoadRead(l) \/ LoadAnswered(l) \/ LoadFails(l)
        PROVE  routed' = Table' /\ CacheShowsTable'
    BY <2>1, <2>3, <1>t DEF LoadRead, LoadAnswered, LoadFails, Settle, CacheShowsTable, Load
  <2>4. CASE Tick
    BY <2>1, <2>4 DEF Tick, CacheShowsTable
  <2> QED
    BY <1>1, <2>2, <2>3, <2>4 DEF CacheStep
<1>2. ASSUME UNCHANGED <<vars, rows>>, unannounced \cup Owed \subseteq (unannounced \cup Owed)'
      PROVE  routed' = Table' /\ CacheShowsTable'
  <2>1. Table' = Table
    BY <1>2 DEF Table, Active
  <2> QED
    BY <1>2, <2>1 DEF vars, CacheShowsTable
<1>3. ASSUME NEW r \in Slot, NEW q \in Request \cup {Idle}, ~At(r, "answer"),
             q.pc # "answer", slot' = [slot EXCEPT ![r] = q]
      PROVE  Owed' = Owed
  BY <1>3 DEF Owed, Basic, RoutesTypeOK
<1>4. ASSUME NEW r \in Slot, Asks(r) PROVE routed' = Table' /\ CacheShowsTable'
  <2>1. PICK q \in Request : Sound(q) /\ Ask(r, q)
    BY <1>4, AskSound
  <2> QED
    BY <1>2, <1>3, <2>1 DEF Ask, Sound
<1>5. ASSUME NEW r \in Slot, NEW pc \in {"limit", "write"}, ~At(r, "idle"),
             ~At(r, "answer"), Goto(r, pc)
      PROVE  routed' = Table' /\ CacheShowsTable'
  <2>1. [slot[r] EXCEPT !.pc = pc] \in Request /\ [slot[r] EXCEPT !.pc = pc].pc = pc
    BY <1>5, <1>q DEF Request
  <2>2. Owed' = Owed
    BY <1>3, <1>5, <2>1 DEF Goto
  <2> QED
    BY <1>2, <1>5, <2>2 DEF Goto
<1>6. ASSUME NEW r \in Slot, CreateWrite(r) PROVE routed' = Table' /\ CacheShowsTable'
  <2>1. PICK i \in RouteId \ Existing : Commit(r, i, [key |-> slot[r].key, on |-> TRUE])
    BY <1>6 DEF CreateWrite
  <2>2. [key |-> slot[r].key, on |-> TRUE] \in Row /\ ~rows[i].on
    BY <1>6, <1>q DEF CreateWrite, Row, Existing, NoRow
  <2> QED
    BY <1>6, <2>1, <2>2, CommitShows DEF CreateWrite, Owes
<1>7. ASSUME NEW r \in Slot, UpdateWrite(r) PROVE routed' = Table' /\ CacheShowsTable'
  <2>1. [key |-> slot[r].key, on |-> slot[r].on] \in Row /\ slot[r].id \in RouteId
    BY <1>7, <1>q DEF UpdateWrite, Row, Request
  <2> QED
    BY <1>7, <2>1, CommitShows DEF UpdateWrite, Owes, Missed
<1>8. ASSUME NEW r \in Slot, SwitchWrite(r) PROVE routed' = Table' /\ CacheShowsTable'
  <2>1. [key |-> rows[slot[r].id].key, on |-> slot[r].op = "reactivate"] \in Row
        /\ slot[r].id \in RouteId
    BY <1>8, <1>q DEF SwitchWrite, Row
  <2>2. Owes(slot[r]) = {rows[slot[r].id].key.session}
    BY <1>8 DEF SwitchWrite, Owes
  <2> QED
    BY <1>8, <2>1, <2>2, CommitShows DEF SwitchWrite
<1>9. ASSUME NEW r \in Slot, EndsUnwritten(r) PROVE routed' = Table' /\ CacheShowsTable'
  BY <1>2, <1>3, <1>9 DEF EndsUnwritten, Idle
<1>10. ASSUME NEW r \in Slot, Answered(r) \/ AnswerLost(r)
       PROVE  Owed \subseteq Owed' \cup slot[r].owes
  BY <1>10 DEF Answered, AnswerLost, Owed, Idle, Basic, RoutesTypeOK
<1>11. ASSUME NEW r \in Slot, AnswerLost(r) PROVE routed' = Table' /\ CacheShowsTable'
  BY <1>2, <1>10, <1>11 DEF AnswerLost
<1>12. ASSUME NEW r \in Slot, Answered(r) PROVE routed' = Table' /\ CacheShowsTable'
  <2>1. Table' = Table /\ routed' = routed /\ loads' = loads
    BY <1>12 DEF Answered, Invalidate, Table, Active
  <2>2. ASSUME NEW s \in slot[r].owes, s \in Session
        PROVE  entries'[s].expiresAt = 0 /\ \A l \in loads : l.session = s => l.generation # generations'[s]
    BY <1>12, <2>2, <1>t DEF Answered, Invalidate, IInv, LoadsCurrent, Load
  <2>3. ASSUME NEW s \in Session \ slot[r].owes, s \notin (unannounced \cup Owed)'
        PROVE  /\ s \notin unannounced \cup Owed
               /\ entries'[s] = entries[s] /\ generations'[s] = generations[s]
    BY <1>12, <2>3, <1>10 DEF Answered, Invalidate
  <2> QED
    BY <2>1, <2>2, <2>3 DEF CacheShowsTable
<1>13. ASSUME UNCHANGED <<vars, routeVars>> PROVE routed' = Table' /\ CacheShowsTable'
  BY <1>2, <1>13 DEF routeVars, Owed
<1>14. ASSUME NEW r \in Slot, RouteStep(r) PROVE routed' = Table' /\ CacheShowsTable'
  <2>1. ASSUME UpdateDuplicate(r) \/ Limit(r) PROVE routed' = Table' /\ CacheShowsTable'
    BY <2>1, <1>5 DEF UpdateDuplicate, Limit
  <2> QED
    BY <1>4, <1>6, <1>7, <1>8, <1>9, <1>11, <1>12, <1>14, <2>1 DEF RouteStep, Asks
<1> QED
  BY <1>1, <1>13, <1>14 DEF RoutesNext

(***************************************************************************)
(* The limits.                                                             *)
(***************************************************************************)

(* The groups in use after a commit. *)
LEMMA CommitActive ==
  ASSUME Basic, NEW r, NEW i \in RouteId, NEW row \in Row, Commit(r, i, row)
  PROVE  /\ row.on =>
              /\ {rows'[j].key.source : j \in Active'}
                   = {rows[j].key.source : j \in Active \ {i}} \cup {row.key.source}
              /\ {rows'[j].key.dest : j \in Active'}
                   = {rows[j].key.dest : j \in Active \ {i}} \cup {row.key.dest}
         /\ ~row.on =>
              /\ {rows'[j].key.source : j \in Active'} \subseteq {rows[j].key.source : j \in Active}
              /\ {rows'[j].key.dest : j \in Active'} \subseteq {rows[j].key.dest : j \in Active}
<1>1. rows' = [rows EXCEPT ![i] = row] /\ rows \in [RouteId -> Row \cup {NoRow}]
  BY DEF Commit, Basic, RoutesTypeOK
<1>2. \A j \in RouteId \ {i} : rows'[j] = rows[j]
  BY <1>1
<1>3. rows'[i] = row
  BY <1>1
<1>4. Active' = IF row.on THEN (Active \ {i}) \cup {i} ELSE Active \ {i}
  BY <1>2, <1>3 DEF Active
<1>5. \A j \in Active \ {i} : rows'[j] = rows[j]
  BY <1>2 DEF Active
<1> QED
  BY <1>3, <1>4, <1>5

LEMMA CommitFits ==
  ASSUME Basic, NEW r, NEW i \in RouteId, NEW row \in Row, Commit(r, i, row), row.on,
         Fits(Active \ {i}, {row.key.source}, {row.key.dest})
  PROVE  WithinLimits'
<1>1. /\ {rows'[j].key.source : j \in Active'} \cup {}
           = {rows[j].key.source : j \in Active \ {i}} \cup {row.key.source}
      /\ {rows'[j].key.dest : j \in Active'} \cup {}
           = {rows[j].key.dest : j \in Active \ {i}} \cup {row.key.dest}
  BY CommitActive
<1> QED
  BY <1>1 DEF Fits, WithinLimits

LEMMA CommitShrinks ==
  ASSUME Basic, NEW r, NEW i \in RouteId, NEW row \in Row, Commit(r, i, row), ~row.on,
         WithinLimits
  PROVE  WithinLimits'
<1> DEFINE src == {rows[j].key.source : j \in Active}
           dst == {rows[j].key.dest : j \in Active}
<1>1. IsFiniteSet(RouteId)
  BY FS_Interval DEF RouteId
<1>2. IsFiniteSet(Active)
  BY <1>1, FS_Subset DEF Active
<1>3. IsFiniteSet(src) /\ IsFiniteSet(dst)
  <2>1. /\ [j \in Active |-> rows[j].key.source] \in Surjection(Active, src)
        /\ [j \in Active |-> rows[j].key.dest] \in Surjection(Active, dst)
    BY DEF Surjection
  <2> QED
    BY <1>2, <2>1, FS_Surjection
<1>4. /\ {rows'[j].key.source : j \in Active'} \subseteq src
      /\ {rows'[j].key.dest : j \in Active'} \subseteq dst
  BY CommitActive
<1>5. /\ Cardinality({rows'[j].key.source : j \in Active'}) <= Cardinality(src)
      /\ Cardinality({rows'[j].key.dest : j \in Active'}) <= Cardinality(dst)
      /\ Cardinality({rows'[j].key.source : j \in Active'}) \in Nat
      /\ Cardinality({rows'[j].key.dest : j \in Active'}) \in Nat
      /\ Cardinality(src) \in Nat /\ Cardinality(dst) \in Nat
  BY <1>3, <1>4, FS_Subset, FS_CardinalityType
<1>6. /\ src \cup {} = src /\ dst \cup {} = dst
      /\ {rows'[j].key.source : j \in Active'} \cup {} = {rows'[j].key.source : j \in Active'}
      /\ {rows'[j].key.dest : j \in Active'} \cup {} = {rows'[j].key.dest : j \in Active'}
  OBVIOUS
<1>7. Cardinality(src) <= MaxSources /\ Cardinality(dst) <= MaxDests
  BY <1>6 DEF WithinLimits, Fits
<1>8. /\ Cardinality({rows'[j].key.source : j \in Active'}) <= MaxSources
      /\ Cardinality({rows'[j].key.dest : j \in Active'}) <= MaxDests
  BY <1>5, <1>7
<1> QED
  BY <1>6, <1>8 DEF WithinLimits, Fits

Limits == CheckHolds /\ OverrunNeedsRace

(* After a commit no request is fresh, and one that was fresh kept the      *)
(* limits.                                                                  *)
LEMMA CommitLimits ==
  ASSUME Limits, NEW r \in Slot, NEW i, NEW row, Commit(r, i, row),
         r \in fresh /\ WithinLimits => WithinLimits'
  PROVE  Limits'
<1>1. fresh' = {} /\ raced' = (~WithinLimits' /\ (raced \/ r \notin fresh))
  BY DEF Commit
<1>2. CheckHolds'
  BY <1>1 DEF CheckHolds
<1>3. OverrunNeedsRace'
  <2> HIDE DEF WithinLimits
  <2> QED
    BY <1>1 DEF Limits, OverrunNeedsRace
<1> QED
  BY <1>2, <1>3 DEF Limits

LEMMA LimitsStep ==
  ASSUME Basic, Limits, [RoutesNext]_<<vars, routeVars>>
  PROVE  Limits'
<1> USE DEF At
<1>q. \A r \in Slot : ~At(r, "idle") =>
        /\ slot[r] \in Request /\ slot[r].key \in Key
        /\ slot[r].op # "create" =>
             slot[r].id \in RouteId /\ slot[r].id \in Existing /\ rows[slot[r].id] \in Row
  BY DEF Basic, RoutesTypeOK, RowsExist, Idle, Request, Existing
<1>2. ASSUME UNCHANGED rows
      PROVE  /\ \A q : LimitAllows(q)' = LimitAllows(q)
             /\ WithinLimits' = WithinLimits /\ Active' = Active
  BY <1>2 DEF LimitAllows, Fits, Active, WithinLimits
<1>1. ASSUME UNCHANGED routeVars PROVE Limits'
  <2>1. slot' = slot /\ rows' = rows /\ fresh' = fresh /\ raced' = raced
    BY <1>1 DEF routeVars
  <2>2. \A r \in fresh : LimitAllows(slot[r])' = LimitAllows(slot[r])
    BY <2>1 DEF LimitAllows, Fits, Active
  <2>3. CheckHolds'
    BY <2>1, <2>2 DEF Limits, CheckHolds
  <2> QED
    BY <1>2, <2>1, <2>3 DEF Limits, OverrunNeedsRace
<1>3. ASSUME NEW r \in Slot, Asks(r) PROVE Limits'
  <2>1. PICK q \in Request : Sound(q) /\ Ask(r, q)
    BY <1>3, AskSound
  <2>2. UNCHANGED <<rows, raced>> /\ slot'[r] = q
        /\ \A p \in Slot \ {r} : slot'[p] = slot[p] /\ (p \in fresh' => p \in fresh)
    BY <2>1 DEF Ask, Basic, RoutesTypeOK
  <2>3. CheckHolds'
    <3> SUFFICES ASSUME NEW p \in fresh' PROVE
           /\ slot'[p].pc = "write" /\ slot'[p].op # "delete" /\ slot'[p].on => LimitAllows(slot[p])'
           /\ slot'[p].pc # "idle" /\ slot'[p].op = "reactivate" =>
                slot'[p].on /\ rows'[slot'[p].id].key = slot'[p].key
           /\ slot'[p].pc # "idle" /\ slot'[p].op = "create" => slot'[p].on
      BY DEF CheckHolds
    <3>1. p \in Slot
      BY <2>1 DEF Ask, Basic, RoutesTypeOK
    <3>2. CASE p = r
      BY <2>1, <2>2, <3>2 DEF Sound
    <3>3. CASE p # r
      <4>1. p \in fresh /\ slot'[p] = slot[p] /\ rows' = rows
        BY <2>2, <3>1, <3>3
      <4>2. LimitAllows(slot[p])' = LimitAllows(slot[p])
        BY <4>1 DEF LimitAllows, Fits, Active
      <4> QED
        BY <4>1, <4>2 DEF Limits, CheckHolds
    <3> QED
      BY <3>2, <3>3
  <2> QED
    BY <1>2, <2>2, <2>3 DEF Limits, OverrunNeedsRace
<1>4. ASSUME NEW r \in Slot, NEW pc \in {"limit", "write"}, ~At(r, "idle"), Goto(r, pc),
             pc = "write" => LimitAllows(slot[r]), ~At(r, "write")
      PROVE  Limits'
  <2>1. slot' = [slot EXCEPT ![r].pc = pc] /\ UNCHANGED <<rows, fresh, raced>>
    BY <1>4 DEF Goto
  <2>2. CheckHolds'
    <3> SUFFICES ASSUME NEW p \in fresh' PROVE
           /\ slot'[p].pc = "write" /\ slot'[p].op # "delete" /\ slot'[p].on => LimitAllows(slot[p])'
           /\ slot'[p].pc # "idle" /\ slot'[p].op = "reactivate" =>
                slot'[p].on /\ rows'[slot'[p].id].key = slot'[p].key
           /\ slot'[p].pc # "idle" /\ slot'[p].op = "create" => slot'[p].on
      BY DEF CheckHolds
    <3>1. p \in Slot /\ p \in fresh
      BY <2>1 DEF Basic, RoutesTypeOK
    <3>2. /\ slot'[p].op = slot[p].op /\ slot'[p].on = slot[p].on /\ slot'[p].id = slot[p].id
          /\ slot'[p].key = slot[p].key /\ (slot[p].pc = "idle" => slot'[p].pc = "idle")
          /\ (p # r => slot'[p].pc = slot[p].pc) /\ (p = r => slot'[p].pc = pc)
      BY <2>1, <3>1, <1>4, <1>q DEF Basic, RoutesTypeOK, Request
    <3>3. LimitAllows(slot[p])' = LimitAllows(slot[p])
      BY <2>1, <3>2 DEF LimitAllows, Fits, Active
    <3> QED
      BY <1>4, <2>1, <3>1, <3>2, <3>3 DEF Limits, CheckHolds
  <2> QED
    BY <1>2, <2>1, <2>2 DEF Limits, OverrunNeedsRace
<1>5. ASSUME NEW r \in Slot, CreateWrite(r) PROVE Limits'
  <2> DEFINE row == [key |-> slot[r].key, on |-> TRUE]
  <2>1. PICK i \in RouteId \ Existing : Commit(r, i, row)
    BY <1>5 DEF CreateWrite
  <2>2. row \in Row /\ row.on /\ row.key = slot[r].key /\ Active \ {i} = Active
    BY <1>5, <1>q, <2>1 DEF CreateWrite, Row, Existing, NoRow, Active
  <2>3. r \in fresh => Fits(Active \ {i}, {slot[r].key.source}, {slot[r].key.dest})
    BY <1>5, <2>2 DEF CreateWrite, Limits, CheckHolds, LimitAllows
  <2> HIDE DEF row
  <2> QED
    BY <2>1, <2>2, <2>3, CommitFits, CommitLimits
<1>6. ASSUME NEW r \in Slot, UpdateWrite(r) PROVE Limits'
  <2> DEFINE row == [key |-> slot[r].key, on |-> slot[r].on]
  <2>1. Commit(r, slot[r].id, row) /\ slot[r].id \in RouteId /\ row \in Row
        /\ row.key = slot[r].key /\ row.on = slot[r].on
    BY <1>6, <1>q DEF UpdateWrite, Row, Request
  <2>2. r \in fresh /\ slot[r].on =>
          Fits(Active \ {slot[r].id}, {slot[r].key.source}, {slot[r].key.dest})
    BY <1>6 DEF UpdateWrite, Limits, CheckHolds, LimitAllows
  <2> HIDE DEF row
  <2> QED
    BY <2>1, <2>2, CommitFits, CommitShrinks, CommitLimits
<1>7. ASSUME NEW r \in Slot, SwitchWrite(r) PROVE Limits'
  <2> DEFINE i == slot[r].id
             row == [key |-> rows[i].key, on |-> slot[r].op = "reactivate"]
  <2>1. Commit(r, i, row) /\ i \in RouteId /\ row \in Row
        /\ row.key = rows[i].key /\ row.on = (slot[r].op = "reactivate")
    BY <1>7, <1>q DEF SwitchWrite, Row
  <2>2. r \in fresh /\ slot[r].op = "reactivate" =>
          /\ Fits(Active, {slot[r].key.source}, {slot[r].key.dest})
          /\ rows[i].key = slot[r].key
    BY <1>7 DEF SwitchWrite, Limits, CheckHolds, LimitAllows
  <2>3. /\ {rows[j].key.source : j \in Active} \cup {rows[i].key.source}
            = {rows[j].key.source : j \in Active \ {i}} \cup {rows[i].key.source}
        /\ {rows[j].key.dest : j \in Active} \cup {rows[i].key.dest}
            = {rows[j].key.dest : j \in Active \ {i}} \cup {rows[i].key.dest}
    OBVIOUS
  <2>4. r \in fresh /\ slot[r].op = "reactivate" =>
          Fits(Active \ {i}, {row.key.source}, {row.key.dest})
    BY <2>1, <2>2, <2>3 DEF Fits
  <2> HIDE DEF row, i
  <2> QED
    BY <2>1, <2>4, CommitFits, CommitShrinks, CommitLimits
<1>8. ASSUME NEW r \in Slot, EndsUnwritten(r) \/ Answered(r) \/ AnswerLost(r) PROVE Limits'
  <2>1. /\ slot' = [slot EXCEPT ![r] = Idle] /\ UNCHANGED <<rows, raced>>
        /\ fresh' \subseteq fresh
    BY <1>8 DEF EndsUnwritten, Answered, AnswerLost
  <2>2. \A p \in Slot : slot'[p].pc # "idle" => slot'[p] = slot[p]
    BY <2>1 DEF Basic, RoutesTypeOK, Idle
  <2>3. CheckHolds'
    <3> SUFFICES ASSUME NEW p \in fresh', slot'[p].pc # "idle"
                 PROVE  /\ slot'[p].pc = "write" /\ slot'[p].op # "delete" /\ slot'[p].on
                             => LimitAllows(slot[p])'
                        /\ slot'[p].op = "reactivate" =>
                             slot'[p].on /\ rows'[slot'[p].id].key = slot'[p].key
                        /\ slot'[p].op = "create" => slot'[p].on
      BY DEF CheckHolds
    <3>1. p \in fresh /\ slot'[p] = slot[p] /\ rows' = rows
      BY <2>1, <2>2 DEF Basic, RoutesTypeOK
    <3>2. LimitAllows(slot[p])' = LimitAllows(slot[p])
      BY <3>1 DEF LimitAllows, Fits, Active
    <3> QED
      BY <3>1, <3>2 DEF Limits, CheckHolds
  <2> QED
    BY <1>2, <2>1, <2>3 DEF Limits, OverrunNeedsRace
<1>9. ASSUME NEW r \in Slot, UpdateDuplicate(r) \/ Limit(r) PROVE Limits'
  BY <1>4, <1>9 DEF UpdateDuplicate, Limit
<1>10. ASSUME CacheStep \/ UNCHANGED <<vars, routeVars>> PROVE UNCHANGED routeVars
  BY <1>10 DEF CacheStep
<1> QED
  BY <1>1, <1>3, <1>5, <1>6, <1>7, <1>8, <1>9, <1>10 DEF RoutesNext, RouteStep, Asks

(***************************************************************************)
(* The theorems.                                                           *)
(***************************************************************************)

LEMMA RoutesInitInv == RoutesInit => RoutesInv
<1> SUFFICES ASSUME RoutesInit PROVE RoutesInv
  OBVIOUS
<1>1. Basic /\ IInv /\ routed = Table
  BY InitBasic, InitInv DEF RoutesInit
<1>2. CacheShowsTable
  BY DEF RoutesInit, Init, CacheShowsTable
<1>3. CheckHolds /\ OverrunNeedsRace
  <2>1. Active = {}
    BY DEF RoutesInit, Active, NoRow
  <2>2. {rows[j].key.source : j \in Active} \cup {} = {}
        /\ {rows[j].key.dest : j \in Active} \cup {} = {}
    BY <2>1
  <2>3. Cardinality({}) = 0
    BY FS_EmptySet
  <2>4. WithinLimits
    <3>1. /\ Cardinality({rows[j].key.source : j \in Active} \cup {}) = 0
          /\ Cardinality({rows[j].key.dest : j \in Active} \cup {}) = 0
      BY <2>2, <2>3, Zenon
    <3>2. 0 <= MaxSources /\ 0 <= MaxDests
      OBVIOUS
    <3> QED
      BY <3>1, <3>2, Zenon DEF WithinLimits, Fits
  <2>5. CheckHolds
    BY DEF RoutesInit, CheckHolds
  <2> QED
    BY <2>4, <2>5 DEF OverrunNeedsRace
<1> QED
  BY <1>1, <1>2, <1>3 DEF RoutesInv, Basic

LEMMA RoutesInvStep == RoutesInv /\ [RoutesNext]_<<vars, routeVars>> => RoutesInv'
<1> SUFFICES ASSUME RoutesInv, [RoutesNext]_<<vars, routeVars>> PROVE RoutesInv'
  OBVIOUS
<1>1. Basic' /\ [Next]_vars
  BY BasicStep DEF RoutesInv, Basic
<1>2. IInv'
  BY <1>1, InvStep DEF RoutesInv
<1>3. routed' = Table' /\ CacheShowsTable'
  BY ShowsStep DEF RoutesInv, Basic
<1>4. CheckHolds' /\ OverrunNeedsRace'
  BY LimitsStep DEF RoutesInv, Basic, Limits
<1> QED
  BY <1>1, <1>2, <1>3, <1>4 DEF RoutesInv, Basic

(* Every reachable state of the routes, their requests and the cache        *)
(* satisfies the inductive invariant, the types among it.                   *)
THEOREM RoutesInvariance == RoutesSpec => [](RoutesInv /\ RoutesTypeOK)
<1>1. RoutesInv => RoutesTypeOK
  BY DEF RoutesInv
<1> QED
  BY <1>1, RoutesInitInv, RoutesInvStep, PTL DEF RoutesSpec

(* A cache hit is the present table wherever every change is announced.     *)
THEOREM HitsAreRouted == RoutesSpec => []HitIsRouted
<1>1. RoutesInv => HitIsRouted
  <2> SUFFICES ASSUME RoutesInv, NEW s \in Session \ (unannounced \cup Owed), Hit(s)
               PROVE  entries[s].found = routed[s]
    BY DEF HitIsRouted
  <2>1. entries[s].expiresAt \in Nat /\ now \in Nat
    BY DEF RoutesInv, IInv, TypeOK
  <2> QED
    BY <2>1 DEF RoutesInv, CacheShowsTable, Hit
<1> QED
  BY <1>1, RoutesInvariance, PTL

(* No request passes the plan's limits on groups unless another one wrote   *)
(* while it ran.                                                            *)
THEOREM OverrunsAreRaces == RoutesSpec => []OverrunNeedsRace
<1>1. RoutesInv => OverrunNeedsRace
  BY DEF RoutesInv
<1> QED
  BY <1>1, RoutesInvariance, PTL

(* The cache's promise about hits and waiting calls holds beside the routes. *)
THEOREM RoutedHitsAreCurrent == RoutesSpec => [](HitIsCurrent /\ AnswerIsCurrent)
  BY RoutesImplementCache, HitsAreCurrent, AnswersAreCurrent, PTL
=============================================================================
