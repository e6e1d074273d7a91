----------------------------- MODULE MessageRoutes -----------------------------
(***************************************************************************)
(* MessageRoutesService with the plan limits and the routed-groups cache:  *)
(* the routes of one user are created, updated and soft deleted by         *)
(* requests that read, check the limits and write in queries of their own, *)
(* and invalidate the cache when the write is answered. The cache is that  *)
(* of RoutedGroupsCache; its `routed` is what the rows amount to.          *)
(*                                                                         *)
(* Abstractions. A step of a request is one query with the synchronous     *)
(* code after its answer; the answer of the write is a step of its own,    *)
(* because the cache may load in between. An answer that never comes       *)
(* stands for a lost connection and for a writer in another process, whose *)
(* cache is not this one. Fields a request leaves out are the values it    *)
(* reads, so they are among those it may ask for. The plan does not change.*)
(***************************************************************************)
EXTENDS RoutedGroupsCache

CONSTANTS
  Dest,                   \* destination groups
  Slot,                   \* requests that may be in flight
  MaxRoutes, MaxRequests, \* bounds: rows, requests
  MaxSources, MaxDests    \* maxSourceGroups, maxDestinationGroups of the plan

ASSUME RoutesAssumption ==
  /\ MaxRoutes \in Nat /\ MaxRequests \in Nat
  /\ MaxSources \in Nat /\ MaxDests \in Nat

VARIABLES
  rows,        \* the MessageRoute rows by id
  slot,        \* the requests in flight
  asked,       \* requests so far
  unannounced, \* history: sessions with a change nobody will invalidate
  fresh,       \* history: requests during which no other request has written
  raced        \* history: the limits are passed, by a write that was not fresh

routeVars == <<rows, slot, asked, unannounced, fresh, raced>>

RouteId == 1 .. MaxRoutes
Key == {k \in [session : Session, source : Group, dest : Dest] : k.source # k.dest}
Row == [key : Key, on : BOOLEAN]
NoRow == [on |-> FALSE]

(* `pc` is the query the request waits for, `id` the row it writes, `old`   *)
(* the session it read, `owes` the sessions it invalidates once its write   *)
(* is answered.                                                             *)
Request ==
  [op : {"create", "reactivate", "update", "delete"},
   pc : {"duplicate", "limit", "write", "answer"},
   id : RouteId \cup {0}, old : Session, key : Key, on : BOOLEAN,
   owes : SUBSET Session]
Idle == [pc |-> "idle"]

Existing == {i \in RouteId : rows[i] # NoRow}
Active == {i \in RouteId : rows[i].on}

(* Types; the index on session, source and destination is unique. *)
RoutesTypeOK ==
  /\ TypeOK
  /\ rows \in [RouteId -> Row \cup {NoRow}]
  /\ \A i, j \in Existing : rows[i].key = rows[j].key => i = j
  /\ slot \in [Slot -> Request \cup {Idle}]
  /\ asked \in Nat
  /\ unannounced \subseteq Session
  /\ fresh \subseteq Slot
  /\ raced \in BOOLEAN

(* findFirst on the four columns of the unique index. *)
Find(k) == {i \in Existing : rows[i].key = k}

(* The active source groups the cache's query finds for each session. *)
Table ==
  [s \in Session |-> {rows[i].key.source : i \in {j \in Active : rows[j].key.session = s}}]

(* distinctGroupCount for both columns, over the routes of ids and new ones. *)
Fits(ids, sources, dests) ==
  /\ Cardinality({rows[i].key.source : i \in ids} \cup sources) <= MaxSources
  /\ Cardinality({rows[i].key.dest : i \in ids} \cup dests) <= MaxDests

WithinLimits == Fits(Active, {}, {})

RoutesInit ==
  /\ Init
  /\ rows = [i \in RouteId |-> NoRow]
  /\ routed = Table
  /\ slot = [r \in Slot |-> Idle]
  /\ asked = 0
  /\ unannounced = {}
  /\ fresh = {}
  /\ raced = FALSE

----------------------------------------------------------------------------
(* Steps of a request. *)

At(r, pc) == slot[r].pc = pc

Ask(r, req) ==
  /\ At(r, "idle")
  /\ asked < MaxRequests /\ asked' = asked + 1
  /\ slot' = [slot EXCEPT ![r] = req]
  /\ fresh' = fresh \cup {r}
  /\ UNCHANGED <<vars, rows, unannounced, raced>>

Goto(r, pc) ==
  /\ slot' = [slot EXCEPT ![r].pc = pc]
  /\ UNCHANGED <<vars, rows, asked, unannounced, fresh, raced>>

(* create looks for the exact route: an inactive one is reactivated, an     *)
(* active one is a conflict.                                                *)
CreateFind(r, k) ==
  \/ /\ Find(k) = {}
     /\ Ask(r, [op |-> "create", pc |-> "limit", id |-> 0, old |-> k.session,
                key |-> k, on |-> TRUE, owes |-> {}])
  \/ \E i \in Find(k) :
       /\ ~rows[i].on
       /\ Ask(r, [op |-> "reactivate", pc |-> "limit", id |-> i, old |-> k.session,
                  key |-> k, on |-> TRUE, owes |-> {}])

(* update reads the route; a route that stays or becomes inactive is        *)
(* written without further questions.                                       *)
UpdateFind(r, i, k, on) ==
  /\ i \in Existing
  /\ Ask(r, [op |-> "update", pc |-> IF on THEN "duplicate" ELSE "write", id |-> i,
             old |-> rows[i].key.session, key |-> k, on |-> on, owes |-> {}])

UpdateDuplicate(r) ==
  /\ At(r, "duplicate")
  /\ Find(slot[r].key) \cap (Active \ {slot[r].id}) = {}
  /\ Goto(r, "limit")

DeleteFind(r, i) ==
  /\ i \in Existing
  /\ Ask(r, [op |-> "delete", pc |-> "write", id |-> i, old |-> rows[i].key.session,
             key |-> rows[i].key, on |-> FALSE, owes |-> {}])

(* Wrong: the groups of the request itself are not counted. *)
LimitAllows_Others(q) ==
  Fits(IF q.op = "update" THEN Active \ {q.id} ELSE Active, {}, {})

(* assertCanCreateRoute: update leaves out the route it changes. *)
LimitAllows(q) ==
  Fits(IF q.op = "update" THEN Active \ {q.id} ELSE Active, {q.key.source}, {q.key.dest})

Limit(r) ==
  /\ At(r, "limit")
  /\ LimitAllows(slot[r])
  /\ Goto(r, "write")

(* Wrong: an update invalidates only the session it moves the route to. *)
Owes_New(q) ==
  IF q.op \in {"create", "update"} THEN {q.key.session} ELSE {rows[q.id].key.session}

(* The sessions that are invalidated after the write: of the row that comes *)
(* back, and of the one update read first.                                  *)
Owes(q) ==
  CASE q.op = "create" -> {q.key.session}
    [] q.op = "update" -> {q.old, q.key.session}
    [] OTHER -> {rows[q.id].key.session}

(* What update does not know of: a concurrent one moved the active route to *)
(* a session it did not read.                                               *)
Missed(q) ==
  IF q.op = "update" /\ rows[q.id].on
  THEN {rows[q.id].key.session} \ {q.old, q.key.session} ELSE {}

(* The row commits: the table changes, and the cache will be told. *)
Commit(r, i, row) ==
  /\ rows' = [rows EXCEPT ![i] = row]
  /\ Write(Table')
  /\ slot' = [slot EXCEPT ![r].pc = "answer", ![r].owes = Owes(slot[r])]
  /\ unannounced' = unannounced \cup Missed(slot[r])
  /\ fresh' = {}
  /\ raced' = (~WithinLimits' /\ (raced \/ r \notin fresh))
  /\ UNCHANGED asked

CreateWrite(r) ==
  /\ At(r, "write") /\ slot[r].op = "create"
  /\ Find(slot[r].key) = {}
  /\ \E i \in RouteId \ Existing :
       /\ \A j \in 1 .. i - 1 : j \in Existing
       /\ Commit(r, i, [key |-> slot[r].key, on |-> TRUE])

UpdateWrite(r) ==
  /\ At(r, "write") /\ slot[r].op = "update"
  /\ Find(slot[r].key) \subseteq {slot[r].id}
  /\ Commit(r, slot[r].id, [key |-> slot[r].key, on |-> slot[r].on])

(* The reactivation of create, and softDelete: only isActive is written, on  *)
(* whatever the row has become.                                              *)
SwitchWrite(r) ==
  /\ At(r, "write") /\ slot[r].op \in {"reactivate", "delete"}
  /\ Commit(r, slot[r].id,
            [key |-> rows[slot[r].id].key, on |-> slot[r].op = "reactivate"])

(* The request ends before its write: a Conflict, PLAN_LIMIT_REACHED, the   *)
(* unique index (P2002), or a query that fails.                             *)
EndsUnwritten(r) ==
  /\ ~At(r, "idle") /\ ~At(r, "answer")
  /\ slot' = [slot EXCEPT ![r] = Idle]
  /\ fresh' = fresh \ {r}
  /\ UNCHANGED <<vars, rows, asked, unannounced, raced>>

Answered(r) ==
  /\ At(r, "answer")
  /\ Invalidate(slot[r].owes)
  /\ slot' = [slot EXCEPT ![r] = Idle]
  /\ unannounced' = unannounced \ slot[r].owes
  /\ UNCHANGED <<rows, asked, fresh, raced>>

AnswerLost(r) ==
  /\ At(r, "answer")
  /\ slot' = [slot EXCEPT ![r] = Idle]
  /\ unannounced' = unannounced \cup slot[r].owes
  /\ UNCHANGED <<vars, rows, asked, fresh, raced>>

RouteStep(r) ==
  \/ \E k \in Key : CreateFind(r, k)
  \/ \E i \in RouteId, k \in Key, on \in BOOLEAN : UpdateFind(r, i, k, on)
  \/ \E i \in RouteId : DeleteFind(r, i)
  \/ UpdateDuplicate(r) \/ Limit(r)
  \/ CreateWrite(r) \/ UpdateWrite(r) \/ SwitchWrite(r)
  \/ EndsUnwritten(r) \/ Answered(r) \/ AnswerLost(r)

(* isRouted goes on meanwhile. *)
CacheStep ==
  /\ \/ \E s \in Session : Join(s) \/ StartLoad(s)
     \/ \E l \in loads : LoadRead(l) \/ LoadAnswered(l) \/ LoadFails(l)
     \/ Tick
  /\ UNCHANGED routeVars

RoutesNext == CacheStep \/ \E r \in Slot : RouteStep(r)

RoutesSpec == RoutesInit /\ [][RoutesNext]_<<vars, routeVars>>

----------------------------------------------------------------------------
(* Properties. *)

(* Sessions whose invalidation is on its way. *)
Owed == UNION {slot[r].owes : r \in {q \in Slot : At(q, "answer")}}

(* A message is matched against the routes as they are: a hit of the cache  *)
(* shows the present table, except between a write and its answer, after an *)
(* answer that was lost, and after two updates that moved one route at once.*)
HitIsRouted ==
  \A s \in Session \ (unannounced \cup Owed) :
    Hit(s) => entries[s].found = routed[s]

(* The plan's limits on source and destination groups are passed only by a  *)
(* request during which another one wrote: alone, no request can, also not  *)
(* by reactivating or moving a route.                                       *)
OverrunNeedsRace == WithinLimits \/ raced

----------------------------------------------------------------------------
(* The inductive invariant, beside that of the cache. *)

(* Requests point at rows that exist. *)
RowsExist ==
  \A r \in Slot : ~At(r, "idle") /\ slot[r].op # "create" => slot[r].id \in Existing

(* What was loaded under the current generation is the present table, where *)
(* every change was or will be announced.                                   *)
CacheShowsTable ==
  \A s \in Session \ (unannounced \cup Owed) :
    /\ entries[s].expiresAt > 0 => entries[s].found = routed[s]
    /\ \A l \in loads :
         l.session = s /\ l.generation = generations[s] /\ l.read => l.found = routed[s]

(* What a request that will activate a route found stays true as long as    *)
(* nobody else writes.                                                      *)
CheckHolds ==
  \A r \in fresh :
    /\ At(r, "write") /\ slot[r].op # "delete" /\ slot[r].on => LimitAllows(slot[r])
    /\ ~At(r, "idle") /\ slot[r].op = "reactivate" =>
         slot[r].on /\ rows[slot[r].id].key = slot[r].key
    /\ ~At(r, "idle") /\ slot[r].op = "create" => slot[r].on

RoutesInv ==
  /\ RoutesTypeOK /\ IInv
  /\ routed = Table
  /\ RowsExist /\ CacheShowsTable /\ CheckHolds /\ OverrunNeedsRace
=============================================================================
