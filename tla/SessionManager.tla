--------------------------- MODULE SessionManager ---------------------------
(***************************************************************************)
(* WhatsAppSessionManager: how the processes that embed the runtime open,  *)
(* replace and close the sockets of ONE session (every map of the manager  *)
(* is keyed by sessionId). JavaScript runs a handler up to its next await; *)
(* so a task is a handler suspended at an await, and a step of a task is   *)
(* the answer it waits for together with the synchronous code after it.    *)
(*                                                                         *)
(* A boot is numbered, and its number stands for the lease token it        *)
(* acquires and for the socket it makes. WorkerLease models the lease in   *)
(* full; here a lease has a holder and may lapse at any moment, the time a *)
(* renewal that is late or a process that is paused would need.            *)
(***************************************************************************)
EXTENDS Integers, FiniteSets

CONSTANTS
  Proc,       \* processes, each with its own WORKER_NAME
  NoProc,
  Creator,    \* the processes that may be asked to create the session
  MaxBoots,   \* bound on bootSocket calls
  Scenarios   \* what may happen in one behaviour, see Scenario

(* API requests, a renewal that ends in an error, a lease that runs out     *)
(* under a live process, a process that crashes or is shut down.            *)
Disturbance == {"reconnect", "delete", "dbError", "lapse", "crash"}

(* `comes`: what comes from outside; `tasks`: bound on the handlers         *)
(* suspended at the same time.                                              *)
Scenario == [comes : SUBSET Disturbance, tasks : Nat]

ASSUME ManagerAssumption ==
  /\ NoProc \notin Proc /\ Creator \subseteq Proc
  /\ MaxBoots \in Nat \ {0}
  /\ \A s \in Scenarios : s.comes \subseteq Disturbance /\ s.tasks \in Nat

VARIABLES
  row,      \* the WhatsAppSession row
  creds,    \* whether Baileys credentials are stored for the session
  up,       \* running processes
  entry,    \* per process, the boot in its `sessions` map (0: none)
  retired,  \* the sockets in a retiredSockets set
  sock,     \* the state of each boot's socket
  home,     \* the process of each boot
  boots,    \* boots so far
  tasks,    \* handlers suspended at an await
  scenario  \* the scenario of this behaviour

vars == <<row, creds, up, entry, retired, sock, home, boots, tasks, scenario>>
system == <<creds, up, retired, sock, home>>

Boot == 1 .. MaxBoots
Active == {"CONNECTING", "QR_READY", "CONNECTED"}

(* `had`: the handler captured a managed entry before its first await. *)
Task == [kind : {"boot", "qr", "open", "close", "loggedOut", "renew",
                 "reconnect", "delete"},
         proc : Proc, sock : 0 .. MaxBoots, had : BOOLEAN,
         pc : {"find", "acquire", "status", "auth", "undo", "wait", "check",
               "recheck", "write", "release", "closeRelease", "closeCheck",
               "closeStatus", "restart", "clear", "sent", "lost", "logout",
               "mark"}]

TypeOK ==
  /\ row \in [status : Active \cup {"DISCONNECTED"}, deleted : BOOLEAN,
              lease : 0 .. MaxBoots, owner : Proc \cup {NoProc}, live : BOOLEAN]
  /\ creds \in BOOLEAN
  /\ up \subseteq Proc
  /\ entry \in [Proc -> 0 .. MaxBoots]
  /\ retired \subseteq Boot
  /\ sock \in [Boot -> {"none", "open", "closed"}]
  /\ home \in [Boot -> Proc \cup {NoProc}]
  /\ boots \in 0 .. MaxBoots
  /\ tasks \subseteq Task
  /\ scenario \in Scenarios

----------------------------------------------------------------------------
(* Tasks. *)

NewTask(kind, p, b, had, pc) ==
  [kind |-> kind, proc |-> p, sock |-> b, had |-> had, pc |-> pc]

At(t, pc) == t.pc = pc

Goto(t, pc) == (tasks \ {t}) \cup {[t EXCEPT !.pc = pc]}

Done(t) == tasks \ {t}

HasRoom == Cardinality(tasks) < scenario.tasks

(* startRuntime: a start in progress or an entry in the map is reused. *)
Pending(p) == \E t \in tasks : t.kind = "boot" /\ t.proc = p

(* Wrong: a start in progress is not looked up. *)
Idle_NoPending(p) == entry[p] = 0

Idle(p) == ~Pending(p) /\ entry[p] = 0

StartRuntime(p, others) ==
  IF Idle(p)
  THEN /\ boots < MaxBoots
       /\ boots' = boots + 1
       /\ home' = [home EXCEPT ![boots + 1] = p]
       /\ tasks' = others \cup {NewTask("boot", p, boots + 1, FALSE, "find")}
  ELSE tasks' = others /\ UNCHANGED <<boots, home>>

----------------------------------------------------------------------------
(* The row. *)

MayAcquire(p) == ~row.deleted /\ (row.lease = 0 \/ ~row.live \/ row.owner = p)

(* Wrong: whatever lease the process has is released. *)
Released_ByOwner(b) ==
  IF b # 0 /\ row.owner = home[b]
  THEN [row EXCEPT !.lease = 0, !.owner = NoProc, !.live = FALSE]
  ELSE row

(* releaseSessionLease with the token of boot b. *)
Released(b) ==
  IF b # 0 /\ row.lease = b
  THEN [row EXCEPT !.lease = 0, !.owner = NoProc, !.live = FALSE]
  ELSE row

SetStatus(s) == row' = [row EXCEPT !.status = s]

----------------------------------------------------------------------------
(* Sockets. *)

(* The synchronous start of handleConnectionUpdate: a retired socket, or    *)
(* one the map replaced, is ignored.                                        *)
Heard(b) == b \notin retired /\ entry[home[b]] \in {0, b}

Handler(kind, b) ==
  IF Heard(b)
  THEN {NewTask(kind, home[b], b, entry[home[b]] = b, "check")} ELSE {}

(* socket.end(undefined) emits one close event; a retired socket's is lost. *)
Ended(b) == IF b = 0 THEN sock ELSE [sock EXCEPT ![b] = "closed"]

EndEvent(b) == IF sock[b] = "open" THEN Handler("close", b) ELSE {}

Init ==
  \E p \in Creator :
    /\ row = [status |-> "CONNECTING", deleted |-> FALSE, lease |-> 0,
              owner |-> NoProc, live |-> FALSE]
    /\ creds = FALSE
    /\ up = Proc
    /\ entry = [q \in Proc |-> 0]
    /\ retired = {}
    /\ sock = [b \in Boot |-> "none"]
    /\ home = [b \in Boot |-> IF b = 1 THEN p ELSE NoProc]
    /\ boots = 1
    /\ tasks = {NewTask("boot", p, 1, FALSE, "find")}   \* createSession
    /\ scenario \in Scenarios

----------------------------------------------------------------------------
(* bootSocket *)

BootFind(t) ==
  /\ t.kind = "boot" /\ At(t, "find")
  /\ tasks' = IF row.deleted THEN Done(t) ELSE Goto(t, "acquire")
  /\ UNCHANGED <<row, entry, boots, system>>

BootAcquire(t) ==
  /\ At(t, "acquire")
  /\ IF MayAcquire(t.proc)
     THEN /\ row' = [row EXCEPT !.lease = t.sock, !.owner = t.proc, !.live = TRUE]
          /\ tasks' = Goto(t, "status")
     ELSE tasks' = Done(t) /\ UNCHANGED row
  /\ UNCHANGED <<entry, boots, system>>

(* The row is found by its id alone: deleted or leased to another, it is    *)
(* written all the same.                                                    *)
BootStatus(t) ==
  /\ At(t, "status")
  /\ SetStatus("CONNECTING")
  /\ tasks' = Goto(t, "auth")
  /\ UNCHANGED <<entry, boots, system>>

(* getAuthState stores fresh credentials when there are none; then, without *)
(* an await, the socket is made and enters the map.                         *)
BootSocket(t) ==
  /\ At(t, "auth")
  /\ creds' = TRUE
  /\ sock' = [sock EXCEPT ![t.sock] = "open"]
  /\ entry' = [entry EXCEPT ![t.proc] = t.sock]
  /\ tasks' = Goto(t, "wait")
  /\ UNCHANGED <<row, up, retired, home, boots>>

BootFails(t) ==
  /\ t.pc \in {"status", "auth"}
  /\ tasks' = Goto(t, "undo")
  /\ UNCHANGED <<row, entry, boots, system>>

BootUndo(t) ==
  /\ At(t, "undo")
  /\ row' = Released(t.sock)
  /\ tasks' = Done(t)
  /\ UNCHANGED <<entry, boots, system>>

(* waitForQrOrConnection: a status, a deletion or 25 s end the start. *)
BootReturns(t) ==
  /\ At(t, "wait")
  /\ tasks' = Done(t)
  /\ UNCHANGED <<row, entry, boots, system>>

BootStep(t) ==
  \/ BootFind(t) \/ BootAcquire(t) \/ BootStatus(t) \/ BootSocket(t)
  \/ BootFails(t) \/ BootUndo(t) \/ BootReturns(t)

----------------------------------------------------------------------------
(* handleConnectionUpdate *)

(* Baileys reports a QR code, the login or the end of the connection. *)
Event(b, kind) ==
  /\ sock[b] = "open" /\ home[b] \in up
  /\ HasRoom
  /\ sock' = IF kind \in {"close", "loggedOut"} THEN Ended(b) ELSE sock
  /\ tasks' = tasks \cup Handler(kind, b)
  /\ UNCHANGED <<row, creds, up, entry, retired, home, boots>>

(* isSessionDeleted said yes: end the socket and drop the ENTRY, whichever  *)
(* socket it holds by now.                                                  *)
DropDeleted(t) ==
  /\ sock' = Ended(t.sock)
  /\ entry' = [entry EXCEPT ![t.proc] = 0]
  /\ tasks' = EndEvent(t.sock) \cup
              IF t.had THEN Goto(t, "release") ELSE Done(t)
  /\ UNCHANGED <<row, creds, up, retired, home, boots>>

UpdateOfDeleted(t) ==
  /\ t.pc \in {"check", "recheck"}
  /\ row.deleted
  /\ DropDeleted(t)

QrOrOpenCheck(t) ==
  /\ t.kind \in {"qr", "open"} /\ At(t, "check")
  /\ ~row.deleted
  /\ tasks' = Goto(t, IF t.kind = "qr" THEN "write" ELSE "recheck")
  /\ UNCHANGED <<row, entry, boots, system>>

OpenRecheck(t) ==
  /\ At(t, "recheck")
  /\ ~row.deleted
  /\ tasks' = Goto(t, "write")
  /\ UNCHANGED <<row, entry, boots, system>>

QrOrOpenWrite(t) ==
  /\ At(t, "write")
  /\ SetStatus(IF t.kind = "qr" THEN "QR_READY" ELSE "CONNECTED")
  /\ tasks' = Done(t)
  /\ UNCHANGED <<entry, boots, system>>

HandlerRelease(t) ==
  /\ t.kind \in {"qr", "open", "close", "loggedOut"} /\ At(t, "release")
  /\ row' = Released(t.sock)
  /\ tasks' = Done(t)
  /\ UNCHANGED <<entry, boots, system>>

(* Wrong: the entry of the closed socket stays in the map. *)
CloseCheck_KeepsEntry(t) ==
  /\ t.kind \in {"close", "loggedOut"} /\ At(t, "check")
  /\ ~row.deleted
  /\ tasks' = Goto(t, IF t.had THEN "closeRelease" ELSE "closeCheck")
  /\ UNCHANGED <<row, entry, boots, system>>

CloseCheck(t) ==
  /\ t.kind \in {"close", "loggedOut"} /\ At(t, "check")
  /\ ~row.deleted
  /\ entry' = [entry EXCEPT ![t.proc] = 0]
  /\ tasks' = Goto(t, IF t.had THEN "closeRelease" ELSE "closeCheck")
  /\ UNCHANGED <<row, boots, system>>

CloseRelease(t) ==
  /\ At(t, "closeRelease")
  /\ row' = Released(t.sock)
  /\ tasks' = Goto(t, "closeCheck")
  /\ UNCHANGED <<entry, boots, system>>

CloseRecheck(t) ==
  /\ At(t, "closeCheck")
  /\ tasks' = Goto(t, IF row.deleted THEN "clear" ELSE "closeStatus")
  /\ UNCHANGED <<row, entry, boots, system>>

(* Wrong: the state of the connection is written as it is named by Baileys. *)
CloseStatus_Raw(t) ==
  /\ At(t, "closeStatus")
  /\ SetStatus("close")
  /\ tasks' = Goto(t, IF t.kind = "close" THEN "restart" ELSE "clear")
  /\ UNCHANGED <<entry, boots, system>>

CloseStatus(t) ==
  /\ At(t, "closeStatus")
  /\ SetStatus("DISCONNECTED")
  /\ tasks' = Goto(t, IF t.kind = "close" THEN "restart" ELSE "clear")
  /\ UNCHANGED <<entry, boots, system>>

CloseRestart(t) ==
  /\ t.kind = "close" /\ At(t, "restart")
  /\ StartRuntime(t.proc, Done(t))
  /\ UNCHANGED <<row, entry, creds, up, retired, sock>>

CloseClear(t) ==
  /\ t.kind \in {"close", "loggedOut"} /\ At(t, "clear")
  /\ creds' = FALSE
  /\ tasks' = Done(t)
  /\ UNCHANGED <<row, entry, boots, up, retired, sock, home>>

HandlerStep(t) ==
  \/ UpdateOfDeleted(t) \/ QrOrOpenCheck(t) \/ OpenRecheck(t)
  \/ QrOrOpenWrite(t) \/ HandlerRelease(t) \/ CloseCheck(t)
  \/ CloseRelease(t) \/ CloseRecheck(t) \/ CloseStatus(t)
  \/ CloseRestart(t) \/ CloseClear(t)

----------------------------------------------------------------------------
(* renewActiveLeases. The timer does not wait for the previous round.       *)

RenewSend(p) ==
  /\ p \in up /\ entry[p] # 0
  /\ tasks' = tasks \cup {NewTask("renew", p, entry[p], FALSE, "sent")}
  /\ UNCHANGED <<row, entry, boots, system>>

Renewable(t) == row.lease = t.sock /\ row.owner = t.proc /\ ~row.deleted

(* Wrong: the answer of the renewal is not looked at. *)
RenewAnswer_Ignored(t) ==
  /\ At(t, "sent")
  /\ row' = IF Renewable(t) THEN [row EXCEPT !.live = TRUE] ELSE row
  /\ tasks' = Done(t)
  /\ UNCHANGED <<entry, boots, system>>

RenewAnswer(t) ==
  /\ At(t, "sent")
  /\ IF Renewable(t)
     THEN row' = [row EXCEPT !.live = TRUE] /\ tasks' = Done(t)
     ELSE tasks' = Goto(t, "lost") /\ UNCHANGED row
  /\ UNCHANGED <<entry, boots, system>>

RenewError(t) ==
  /\ "dbError" \in scenario.comes
  /\ At(t, "sent")
  /\ tasks' = Goto(t, "lost")
  /\ UNCHANGED <<row, entry, boots, system>>

(* LEASE_LOST: the socket seen before the await ends, the ENTRY goes.       *)
RenewLost(t) ==
  /\ At(t, "lost")
  /\ retired' = retired \cup {t.sock}
  /\ sock' = Ended(t.sock)
  /\ entry' = [entry EXCEPT ![t.proc] = 0]
  /\ tasks' = Done(t)
  /\ UNCHANGED <<row, creds, up, home, boots>>

RenewStep(t) == RenewAnswer(t) \/ RenewError(t) \/ RenewLost(t)

----------------------------------------------------------------------------
(* reconnectSession, deleteSession, getConnectedSocket *)

Request(p, kind) ==
  /\ p \in up /\ kind \in scenario.comes
  /\ HasRoom
  /\ ~ \E t \in tasks : t.kind = kind
  /\ tasks' = tasks \cup {NewTask(kind, p, 0, FALSE, "find")}
  /\ UNCHANGED <<row, entry, boots, system>>

NotFound(t) ==
  /\ t.kind \in {"reconnect", "delete"} /\ At(t, "find")
  /\ row.deleted
  /\ tasks' = Done(t)
  /\ UNCHANGED <<row, entry, boots, system>>

(* Wrong: the old socket is left to close by itself. *)
ReconnectEnd_NoEnd(t) ==
  /\ t.kind = "reconnect" /\ At(t, "find")
  /\ ~row.deleted /\ entry[t.proc] # 0
  /\ retired' = retired \cup {entry[t.proc]}
  /\ entry' = [entry EXCEPT ![t.proc] = 0]
  /\ tasks' = Done(t) \cup {[t EXCEPT !.sock = entry[t.proc], !.pc = "release"]}
  /\ UNCHANGED <<row, creds, up, sock, home, boots>>

(* With an entry: retire it, forget it, end the socket, release the lease.  *)
ReconnectEnd(t) ==
  /\ t.kind = "reconnect" /\ At(t, "find")
  /\ ~row.deleted /\ entry[t.proc] # 0
  /\ retired' = retired \cup {entry[t.proc]}
  /\ sock' = Ended(entry[t.proc])
  /\ entry' = [entry EXCEPT ![t.proc] = 0]
  /\ tasks' = Done(t) \cup {[t EXCEPT !.sock = entry[t.proc], !.pc = "release"]}
  /\ UNCHANGED <<row, creds, up, home, boots>>

ReconnectRelease(t) ==
  /\ t.kind = "reconnect" /\ At(t, "release")
  /\ row' = Released(t.sock)
  /\ StartRuntime(t.proc, Done(t))
  /\ UNCHANGED <<entry, creds, up, retired, sock>>

ReconnectNow(t) ==
  /\ t.kind = "reconnect" /\ At(t, "find")
  /\ ~row.deleted /\ entry[t.proc] = 0
  /\ StartRuntime(t.proc, Done(t))
  /\ UNCHANGED <<row, entry, creds, up, retired, sock>>

DeleteFind(t) ==
  /\ t.kind = "delete" /\ At(t, "find")
  /\ ~row.deleted
  /\ LET b == entry[t.proc] IN
       /\ retired' = retired \cup ({b} \ {0})
       /\ tasks' = Done(t) \cup
            {[t EXCEPT !.sock = b, !.pc = IF b = 0 THEN "clear" ELSE "logout"]}
  /\ UNCHANGED <<row, entry, creds, up, sock, home, boots>>

DeleteEnd(t) ==
  /\ At(t, "logout")
  /\ sock' = Ended(t.sock)
  /\ entry' = [entry EXCEPT ![t.proc] = 0]
  /\ tasks' = Goto(t, "release")
  /\ UNCHANGED <<row, creds, up, retired, home, boots>>

DeleteRelease(t) ==
  /\ t.kind = "delete" /\ At(t, "release")
  /\ row' = Released(t.sock)
  /\ tasks' = Goto(t, "clear")
  /\ UNCHANGED <<entry, boots, system>>

DeleteClear(t) ==
  /\ t.kind = "delete" /\ At(t, "clear")
  /\ creds' = FALSE
  /\ tasks' = Goto(t, "mark")
  /\ UNCHANGED <<row, entry, boots, up, retired, sock, home>>

DeleteMark(t) ==
  /\ At(t, "mark")
  /\ row' = [row EXCEPT !.deleted = TRUE, !.status = "DISCONNECTED"]
  /\ tasks' = Done(t)
  /\ UNCHANGED <<entry, boots, system>>

RequestStep(t) ==
  \/ NotFound(t) \/ ReconnectEnd(t) \/ ReconnectRelease(t) \/ ReconnectNow(t)
  \/ DeleteFind(t) \/ DeleteEnd(t) \/ DeleteRelease(t) \/ DeleteClear(t)
  \/ DeleteMark(t)

(* getConnectedSocket of a connected session without a socket boots one.    *)
UseSocket(p) ==
  /\ p \in up
  /\ ~row.deleted /\ row.status = "CONNECTED"
  /\ Idle(p)
  /\ StartRuntime(p, tasks)
  /\ UNCHANGED <<row, entry, creds, up, retired, sock>>

----------------------------------------------------------------------------
(* Processes and time. *)

Stopped(p) ==
  /\ "crash" \in scenario.comes
  /\ up' = up \ {p}
  /\ entry' = [entry EXCEPT ![p] = 0]
  /\ sock' = [b \in Boot |->
                IF home[b] = p /\ sock[b] = "open" THEN "closed" ELSE sock[b]]
  /\ tasks' = {t \in tasks : t.proc # p}
  /\ UNCHANGED <<creds, home, boots>>

Crash(p) ==
  /\ p \in up
  /\ Stopped(p)
  /\ UNCHANGED <<row, retired>>

(* onModuleDestroy: retire and end every socket of the map, release. *)
Shutdown(p) ==
  /\ p \in up
  /\ Stopped(p)
  /\ retired' = retired \cup ({entry[p]} \ {0})
  /\ row' = Released(entry[p])

(* onModuleInit restores the sessions the row calls active. *)
Startup(p) ==
  /\ p \notin up
  /\ up' = up \cup {p}
  /\ IF ~row.deleted /\ row.status \in Active
     THEN StartRuntime(p, tasks)
     ELSE UNCHANGED <<tasks, boots, home>>
  /\ UNCHANGED <<row, entry, creds, retired, sock>>

Lapse ==
  /\ row.lease # 0 /\ row.live
  /\ "lapse" \in scenario.comes \/ row.owner \notin up
  /\ row' = [row EXCEPT !.live = FALSE]
  /\ UNCHANGED <<entry, boots, tasks, system>>

----------------------------------------------------------------------------
TaskStep(t) == BootStep(t) \/ HandlerStep(t) \/ RenewStep(t) \/ RequestStep(t)

Environment ==
  \/ \E b \in Boot, kind \in {"qr", "open", "close", "loggedOut"} : Event(b, kind)
  \/ \E p \in Proc, kind \in {"reconnect", "delete"} : Request(p, kind)
  \/ \E p \in Proc : UseSocket(p) \/ Crash(p) \/ Shutdown(p) \/ Startup(p)
  \/ Lapse

Next ==
  /\ \/ \E t \in tasks : TaskStep(t)
     \/ \E p \in Proc : RenewSend(p)
     \/ Environment
  /\ UNCHANGED scenario

Spec == Init /\ [][Next]_vars

MayLapse == "lapse" \in scenario.comes

(* The renewal timer keeps firing and its requests are answered. Assumed    *)
(* only where a lease may lapse: elsewhere no entry is without its lease.   *)
Fairness ==
  \A p \in Proc :
    /\ WF_vars(MayLapse /\ RenewSend(p) /\ UNCHANGED scenario)
    /\ \A b \in Boot, pc \in {"sent", "lost"} :
         LET t == NewTask("renew", p, b, FALSE, pc)
         IN  WF_vars(MayLapse /\ t \in tasks /\ RenewStep(t) /\ UNCHANGED scenario)

FairSpec == Spec /\ Fairness

----------------------------------------------------------------------------
(* Properties. *)

(* bootSocket never replaces an entry of the map: the replaced socket would *)
(* stay open with nobody to renew its lease or to close it.                 *)
EntryNotOverwritten ==
  [][\A p \in Proc : entry[p] # 0 => entry'[p] \in {0, entry[p]}]_vars

(* An entry whose socket has closed is being dropped by a handler or a      *)
(* deletion; otherwise startRuntime would reuse a dead socket for ever.     *)
NoDeadEntry ==
  \A p \in Proc :
    entry[p] # 0 /\ sock[entry[p]] = "closed" =>
      \E t \in tasks : /\ t.sock = entry[p]
                      /\ \/ t.kind \in {"close", "loggedOut"} /\ At(t, "check")
                         \/ At(t, "logout")

(* A lease is handed back only after the socket it covered has ended, so    *)
(* an orderly handover never overlaps two connections.                      *)
ReleaseAfterClose ==
  [][row.lease # 0 /\ row'.lease = 0 => sock'[row.lease] # "open"]_vars

(* As long as no lease lapses under a live process, the entry of a map      *)
(* holds the lease of the session, so at most one process has an entry.     *)
EntryHoldsLease ==
  ~ MayLapse => \A p \in Proc : entry[p] # 0 => row.lease = entry[p] /\ row.owner = p

(* Every connected socket of the session has the session's lease.           *)
ConnectedHasLease ==
  \A b \in Boot : sock[b] = "open" => row.lease = b

(* At rest, a session that was not logged out is not left DISCONNECTED:     *)
(* the close handler reconnects it.                                         *)
Reconnected ==
  tasks = {} /\ up = Proc /\ ~row.deleted /\ creds => row.status # "DISCONNECTED"

(* A manager whose lease went to another socket drops its own: the renewal  *)
(* timer notices.                                                           *)
LostLeaseDropped ==
  \A p \in Proc, b \in Boot :
    (entry[p] = b /\ row.lease # b) ~> (entry[p] # b)
=============================================================================
