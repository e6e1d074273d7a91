--------------------------- MODULE RoutedGroupsCache ---------------------------
(***************************************************************************)
(* RoutedGroupsCacheService: which source groups of a session have an      *)
(* active route, kept for 15 s. Every incoming message asks it (isRouted); *)
(* every change of a route commits in PostgreSQL first and then calls      *)
(* invalidate, which is synchronous. A query of the cache is in flight     *)
(* across writes, invalidations and the expiry of the entry it replaces.   *)
(*                                                                         *)
(* Abstractions. A query reads the table at one moment between its start   *)
(* and its answer. An entry the Map does not hold is one that expired at   *)
(* time 0. Calls with the same history are one call.                       *)
(***************************************************************************)
EXTENDS Integers, FiniteSets

CONSTANTS
  Session,
  Group,          \* source groups
  TtlMs,          \* ROUTED_GROUPS_CACHE_TTL_MS, in ticks
  MaxTime, MaxGeneration, MaxCalls    \* bounds: clock, invalidations, callers

ASSUME CacheAssumption ==
  /\ TtlMs \in Nat \ {0}
  /\ MaxTime \in Nat /\ MaxGeneration \in Nat /\ MaxCalls \in Nat

VARIABLES
  now,          \* Date.now()
  routed,       \* the table: the groups with an active route, per session
  entries,      \* the cached sets
  generations,  \* invalidations so far
  pendingLoads, \* the generation of the load new callers may join, or NoLoad
  loads,        \* queries in flight
  calls,        \* isRouted calls that wait for a load
  since         \* history: what the table held since the last invalidation

vars == <<now, routed, entries, generations, pendingLoads, loads, calls, since>>

NoLoad == -1

(* `read`: the database has run the query; `found` is what it saw. *)
Load == [session : Session, generation : Nat, read : BOOLEAN, found : SUBSET Group]

(* `legit`: the answers the call may get, see AnswerIsCurrent. *)
Waiting == [session : Session, generation : Nat, legit : SUBSET SUBSET Group]

TypeOK ==
  /\ now \in Nat
  /\ routed \in [Session -> SUBSET Group]
  /\ entries \in [Session -> [found : SUBSET Group, expiresAt : Nat]]
  /\ generations \in [Session -> Nat]
  /\ pendingLoads \in [Session -> Nat \cup {NoLoad}]
  /\ loads \subseteq Load
  /\ calls \subseteq Waiting
  /\ since \in [Session -> SUBSET SUBSET Group]

Init ==
  /\ now = 0
  /\ routed \in [Session -> SUBSET Group]
  /\ entries = [s \in Session |-> [found |-> {}, expiresAt |-> 0]]
  /\ generations = [s \in Session |-> 0]
  /\ pendingLoads = [s \in Session |-> NoLoad]
  /\ loads = {}
  /\ calls = {}
  /\ since = [s \in Session |-> {routed[s]}]

----------------------------------------------------------------------------
(* isRouted *)

(* A live entry answers at once and changes nothing. *)
Hit(s) == entries[s].expiresAt > now

Wait(s, g) ==
  /\ Cardinality(calls) < MaxCalls
  /\ calls' = calls \cup {[session |-> s, generation |-> g, legit |-> since[s]]}

(* Wrong: a load is joined whatever was invalidated since it started. *)
MayJoin_Any(s) == pendingLoads[s] # NoLoad

(* The pending load belongs to the current generation. *)
MayJoin(s) == pendingLoads[s] = generations[s]

Join(s) ==
  /\ ~Hit(s) /\ MayJoin(s)
  /\ Wait(s, pendingLoads[s])
  /\ UNCHANGED <<now, routed, entries, generations, pendingLoads, loads, since>>

StartLoad(s) ==
  /\ ~Hit(s) /\ ~MayJoin(s)
  /\ Wait(s, generations[s])
  /\ loads' = loads \cup {[session |-> s, generation |-> generations[s],
                           read |-> FALSE, found |-> {}]}
  /\ pendingLoads' = [pendingLoads EXCEPT ![s] = generations[s]]
  /\ UNCHANGED <<now, routed, entries, generations, since>>

(* PostgreSQL runs the query. *)
LoadRead(l) ==
  /\ ~l.read
  /\ loads' = (loads \ {l}) \cup
              {[session |-> l.session, generation |-> l.generation,
                read |-> TRUE, found |-> routed[l.session]]}
  /\ UNCHANGED <<now, routed, entries, generations, pendingLoads, calls, since>>

JoinedTo(l) ==
  {c \in calls : c.session = l.session /\ c.generation = l.generation}

(* The load ends for all its callers and is pending no more; a load that    *)
(* replaced it stays pending.                                               *)
Settle(l) ==
  /\ loads' = loads \ {l}
  /\ calls' = calls \ JoinedTo(l)
  /\ pendingLoads' = [pendingLoads EXCEPT ![l.session] =
                        IF @ = l.generation THEN NoLoad ELSE @]

(* Wrong: the entry is stored without a look at the generation. *)
LoadAnswered_Always(l) ==
  /\ l.read
  /\ entries' = [entries EXCEPT ![l.session] =
                   [found |-> l.found, expiresAt |-> now + TtlMs]]
  /\ Settle(l)
  /\ UNCHANGED <<now, routed, generations, since>>

(* The rows arrive: they are cached unless an invalidation came between,    *)
(* and every caller is answered from them.                                  *)
LoadAnswered(l) ==
  /\ l.read
  /\ entries' = [entries EXCEPT ![l.session] =
                   IF generations[l.session] = l.generation
                   THEN [found |-> l.found, expiresAt |-> now + TtlMs] ELSE @]
  /\ Settle(l)
  /\ UNCHANGED <<now, routed, generations, since>>

(* Wrong: without the finally block. *)
LoadFails_NoFinally(l) ==
  /\ loads' = loads \ {l}
  /\ calls' = calls \ JoinedTo(l)
  /\ UNCHANGED <<now, routed, entries, generations, pendingLoads, since>>

(* The query is rejected, and with it every call that waits. *)
LoadFails(l) ==
  /\ Settle(l)
  /\ UNCHANGED <<now, routed, entries, generations, since>>

----------------------------------------------------------------------------
(* The writers. *)

(* A change of the routes commits, in this process or another. *)
Write(new) ==
  /\ routed' = new
  /\ since' = [s \in Session |-> since[s] \cup {new[s]}]
  /\ calls' = {[c EXCEPT !.legit = @ \cup {new[c.session]}] : c \in calls}
  /\ UNCHANGED <<now, entries, generations, pendingLoads, loads>>

(* invalidate, which a writer of this process calls after its commit for     *)
(* the sessions it knows it changed (an update may move a route: two).       *)
Invalidate(S) ==
  /\ \A s \in S : generations[s] < MaxGeneration
  /\ entries' = [s \in Session |->
                   IF s \in S THEN [found |-> {}, expiresAt |-> 0] ELSE entries[s]]
  /\ generations' = [s \in Session |->
                       IF s \in S THEN generations[s] + 1 ELSE generations[s]]
  /\ since' = [s \in Session |-> IF s \in S THEN {routed[s]} ELSE since[s]]
  /\ UNCHANGED <<now, routed, pendingLoads, loads, calls>>

Tick ==
  /\ now < MaxTime
  /\ now' = now + 1
  /\ UNCHANGED <<routed, entries, generations, pendingLoads, loads, calls, since>>

Next ==
  \/ \E s \in Session : Join(s) \/ StartLoad(s)
  \/ \E S \in SUBSET Session : Invalidate(S)
  \/ \E new \in [Session -> SUBSET Group] : Write(new)
  \/ \E l \in loads : LoadRead(l) \/ LoadAnswered(l) \/ LoadFails(l)
  \/ Tick

Spec == Init /\ [][Next]_vars

----------------------------------------------------------------------------
(* Properties. *)

(* isRouted never answers from an entry older than the last invalidate of   *)
(* the session: once a route was changed and invalidate called, a hit shows *)
(* the change (or a later one), although a load that began before may have  *)
(* come back after.                                                         *)
HitIsCurrent == \A s \in Session : Hit(s) => entries[s].found \in since[s]

(* A call of isRouted that waits for a load, its own or one it joined, is   *)
(* answered with what the table held at a moment of the call, or before the *)
(* call but after the last invalidate that preceded it.                     *)
AnswerIsCurrent ==
  \A l \in loads : l.read => \A c \in JoinedTo(l) : l.found \in c.legit

(* getSourceGroupJids shares its queries: a session never has two of one    *)
(* generation in flight, however many messages arrive at once.              *)
OneLoad ==
  \A k, l \in loads :
    k.session = l.session /\ k.generation = l.generation => k = l

(* A load that is over, in success or in error, is not pending: after the   *)
(* entry's expiry a call would join its settled promise and answer from it  *)
(* for ever.                                                                *)
PendingInFlight ==
  \A s \in Session : pendingLoads[s] # NoLoad =>
    \E l \in loads : l.session = s /\ l.generation = pendingLoads[s]

----------------------------------------------------------------------------
(* The inductive invariant. *)

(* The table's present content is one it had since the last invalidation,   *)
(* and one every waiting call may be answered with.                         *)
TableIsCurrent ==
  /\ \A s \in Session : routed[s] \in since[s]
  /\ \A c \in calls : routed[c.session] \in c.legit

(* Every entry was loaded after the last invalidation, or expired at 0. *)
EntriesCurrent ==
  \A s \in Session : entries[s].expiresAt > 0 => entries[s].found \in since[s]

(* A load of the current generation is the pending one, and saw the table   *)
(* after the last invalidation.                                             *)
LoadsCurrent ==
  \A l \in loads :
    /\ l.generation <= generations[l.session]
    /\ l.generation = generations[l.session] =>
         /\ pendingLoads[l.session] = l.generation
         /\ l.read => l.found \in since[l.session]

(* No load or call is of a generation that is still to come.                *)
PendingKnown == \A s \in Session : pendingLoads[s] <= generations[s]

IInv ==
  /\ TypeOK
  /\ TableIsCurrent /\ EntriesCurrent /\ LoadsCurrent /\ PendingKnown
  /\ AnswerIsCurrent /\ OneLoad /\ PendingInFlight
=============================================================================
