------------------------ MODULE SessionManagerProofs ------------------------
(***************************************************************************)
(* Proofs about SessionManager for any number of processes, boots and      *)
(* suspended handlers, and any scenarios: the map of a process never loses *)
(* a socket by overwriting it, never keeps a dead one, holds the session's *)
(* lease as long as none lapses, and hands it back only after the socket   *)
(* has ended.                                                              *)
(***************************************************************************)
EXTENDS SessionManager, TLAPS

USE ManagerAssumption DEF ManagerAssumption

----------------------------------------------------------------------------
(* The inductive invariant. *)

Handlers == {"qr", "open", "close", "loggedOut"}
Closes == {"close", "loggedOut"}

(* The awaits a handler of each kind is suspended at. *)
KindPc(kind, pc) ==
  \/ kind = "boot" /\ pc \in {"find", "acquire", "status", "auth", "undo", "wait"}
  \/ kind \in {"qr", "open"} /\ pc \in {"check", "recheck", "write", "release"}
  \/ kind \in Closes /\ pc \in {"check", "release", "closeRelease", "closeCheck",
                                "closeStatus", "restart", "clear"}
  \/ kind = "renew" /\ pc \in {"sent", "lost"}
  \/ kind = "reconnect" /\ pc \in {"find", "release"}
  \/ kind = "delete" /\ pc \in {"find", "logout", "release", "clear", "mark"}

(* A start before its socket enters the map. *)
Starting(t) == t.kind = "boot" /\ t.pc # "wait"

(* A handler or a deletion that is about to drop the entry of its socket. *)
Dropping(t) == \/ t.kind \in Closes /\ t.pc = "check"
               \/ t.pc = "logout"

AfterDrop(t) == t.pc \in {"release", "closeRelease"}

Holds(b, p) == row.lease = b /\ row.owner = p /\ row.live

NeedsSocket(t) ==
  t.kind \in Handlers \cup {"boot", "renew"} \/ t.pc \in {"logout", "release"}

TaskInv(t) ==
  /\ KindPc(t.kind, t.pc)
  /\ t.proc \in up
  /\ NeedsSocket(t) => t.sock # 0
  /\ t.sock # 0 => t.sock \in 1 .. boots /\ home[t.sock] = t.proc
  /\ Starting(t) => sock[t.sock] = "none" /\ entry[t.proc] = 0
  /\ ~Starting(t) /\ t.sock # 0 => sock[t.sock] # "none"
  /\ t.kind \in Closes \/ AfterDrop(t) => sock[t.sock] = "closed"
  /\ AfterDrop(t) => entry[t.proc] # t.sock
  /\ ~MayLapse /\ t.pc \in {"status", "auth"} => Holds(t.sock, t.proc)

EntryInv(p) ==
  entry[p] # 0 =>
    /\ p \in up
    /\ entry[p] \in 1 .. boots /\ home[entry[p]] = p /\ sock[entry[p]] # "none"
    /\ entry[p] \in retired => \E t \in tasks : At(t, "logout") /\ t.sock = entry[p]
    /\ sock[entry[p]] = "closed" => \E t \in tasks : Dropping(t) /\ t.sock = entry[p]
    /\ ~MayLapse => Holds(entry[p], p)

(* What has no socket yet is not retired, and no boot was numbered twice. *)
SocketInv(b) ==
  /\ b > boots => sock[b] = "none"
  /\ b \in retired => sock[b] # "none"

OneBoot ==
  \A t, u \in tasks : t.kind = "boot" /\ u.kind = "boot" /\ t.proc = u.proc => t = u

IInv ==
  /\ TypeOK
  /\ \A t \in tasks : TaskInv(t)
  /\ \A p \in Proc : EntryInv(p)
  /\ \A b \in Boot : SocketInv(b)
  /\ OneBoot

----------------------------------------------------------------------------
(* Steps that start no socket. *)

RowSet == [status : Active \cup {"DISCONNECTED"}, deleted : BOOLEAN,
           lease : 0 .. MaxBoots, owner : Proc \cup {NoProc}, live : BOOLEAN]

LEMMA Types ==
  ASSUME TypeOK
  PROVE  /\ row \in RowSet /\ boots \in Nat /\ boots <= MaxBoots
         /\ 1 .. boots \subseteq Boot
         /\ \A b \in Boot : b \in Nat /\ b # 0
         /\ \A t \in tasks : t \in Task
<1>1. boots \in 0 .. MaxBoots /\ MaxBoots \in Nat
  BY DEF TypeOK
<1> QED
  BY <1>1 DEF TypeOK, RowSet, Boot

(* The lease of b must stay: b is in a map or on its way there. *)
Covered(b) ==
  \/ \E p \in Proc : entry[p] = b
  \/ \E t \in tasks : t.pc \in {"status", "auth"} /\ t.sock = b

HoldsKept ==
  ~MayLapse =>
    \A b \in Boot, p \in Proc : Holds(b, p) /\ Covered(b)' => Holds(b, p)'

Frame ==
  /\ boots <= boots'
  /\ \A b \in 1 .. boots : home'[b] = home[b]
  /\ \A b \in Boot : sock'[b] = sock[b] \/ (sock[b] = "open" /\ sock'[b] = "closed")
  /\ \A p \in Proc : entry'[p] \in {0, entry[p]}
  /\ scenario' = scenario

LEMMA FrameTask ==
  ASSUME IInv, TypeOK', Frame, HoldsKept, NEW t \in tasks, t \in tasks', t.proc \in up'
  PROVE  TaskInv(t)'
<1>1. TaskInv(t) /\ t \in Task
  BY DEF IInv, TypeOK
<1>2. t.proc \in Proc /\ t.sock \in 0 .. MaxBoots
  BY <1>1 DEF Task
<1>3. /\ boots \in Nat /\ boots' \in Nat /\ boots <= boots'
      /\ 1 .. boots \subseteq Boot
  BY Types, Types DEF IInv, TypeOK, Frame, Boot
<1>4. t.sock # 0 => /\ t.sock \in 1 .. boots /\ t.sock \in 1 .. boots'
                    /\ home'[t.sock] = t.proc
                    /\ \/ sock'[t.sock] = sock[t.sock]
                       \/ sock[t.sock] = "open" /\ sock'[t.sock] = "closed"
  BY <1>1, <1>3 DEF TaskInv, Frame
<1>5. entry'[t.proc] \in {0, entry[t.proc]}
  BY <1>2 DEF Frame
<1>6. Starting(t) => t.sock # 0
  BY <1>1 DEF TaskInv, NeedsSocket, Starting
<1>7. t.kind \in Closes \/ AfterDrop(t) => t.sock # 0
  BY <1>1 DEF TaskInv, NeedsSocket, AfterDrop, KindPc, Handlers, Closes
<1>8. t.pc \in {"status", "auth"} /\ ~MayLapse' => Holds(t.sock, t.proc)'
  <2> SUFFICES ASSUME t.pc \in {"status", "auth"}, ~MayLapse'
               PROVE  Holds(t.sock, t.proc)'
    OBVIOUS
  <2>1. Holds(t.sock, t.proc) /\ t.sock # 0
    BY <1>1, <1>6 DEF TaskInv, MayLapse, Frame, Starting, KindPc
  <2>2. Covered(t.sock)'
    BY DEF Covered
  <2>3. t.sock \in Boot
    BY <1>3, <1>4, <2>1
  <2> QED
    BY <1>2, <2>1, <2>2, <2>3 DEF HoldsKept, MayLapse, Frame
<1> QED
  BY <1>1, <1>4, <1>5, <1>6, <1>7, <1>8 DEF TaskInv, Starting, AfterDrop, NeedsSocket

(* An entry that stays: what was to drop it still will. *)
LEMMA FrameEntry ==
  ASSUME IInv, TypeOK', Frame, HoldsKept, NEW p \in Proc,
         entry'[p] # 0 => p \in up',
         \A b \in Boot : sock[b] = "open" /\ sock'[b] = "closed" =>
           entry'[home[b]] # b \/ \E t \in tasks' : Dropping(t) /\ t.sock = b,
         \A b \in Boot : b \in retired' /\ b \notin retired =>
           entry'[home[b]] # b \/ \E t \in tasks' : At(t, "logout") /\ t.sock = b,
         \A t \in tasks : t \notin tasks' /\ Dropping(t) => entry'[t.proc] = 0
  PROVE  EntryInv(p)'
<1> PICK b : b = entry[p]
  OBVIOUS
<1> SUFFICES ASSUME entry'[p] # 0 PROVE EntryInv(p)'
  BY DEF EntryInv
<1>1. entry'[p] = b /\ b # 0 /\ EntryInv(p)
  BY DEF Frame, IInv
<1>2. b \in 1 .. boots /\ home[b] = p /\ sock[b] # "none"
  BY <1>1 DEF EntryInv
<1>3. /\ boots \in Nat /\ boots' \in Nat /\ boots <= boots' /\ 1 .. boots \subseteq Boot
  BY Types DEF IInv, TypeOK, Frame, Boot
<1>4. b \in Boot /\ b \in 1 .. boots' /\ home'[b] = p
  BY <1>2, <1>3 DEF Frame
<1>5. sock'[b] = sock[b] \/ (sock[b] = "open" /\ sock'[b] = "closed")
  BY <1>4 DEF Frame
<1>6. \A t \in tasks : Dropping(t) /\ t.sock = b => t \in tasks'
  <2> SUFFICES ASSUME NEW t \in tasks, Dropping(t), t.sock = b PROVE t \in tasks'
    OBVIOUS
  <2>1. t.proc = p
    BY <1>1, <1>2 DEF IInv, TaskInv
  <2> QED
    BY <1>1, <2>1
<1>7. b \in retired' => \E t \in tasks' : At(t, "logout") /\ t.sock = b
  <2>1. CASE b \in retired
    <3>1. PICK t \in tasks : At(t, "logout") /\ t.sock = b
      BY <1>1, <2>1 DEF EntryInv
    <3>2. t \in tasks'
      BY <1>6, <3>1 DEF Dropping, At
    <3> QED
      BY <3>1, <3>2
  <2>2. CASE b \notin retired
    BY <1>1, <1>2, <1>4, <2>2
  <2> QED
    BY <2>1, <2>2
<1>8. sock'[b] = "closed" => \E t \in tasks' : Dropping(t) /\ t.sock = b
  <2>1. CASE sock[b] = "closed"
    <3>1. PICK t \in tasks : Dropping(t) /\ t.sock = b
      BY <1>1, <2>1 DEF EntryInv
    <3>2. t \in tasks'
      BY <1>6, <3>1
    <3> QED
      BY <3>1, <3>2
  <2>2. CASE sock[b] # "closed"
    BY <1>1, <1>2, <1>4, <1>5, <2>2
  <2> QED
    BY <2>1, <2>2
<1>9. ~MayLapse' => Holds(b, p)'
  <2> SUFFICES ASSUME ~MayLapse' PROVE Holds(b, p)'
    OBVIOUS
  <2>1. Holds(b, p)
    BY <1>1 DEF EntryInv, MayLapse, Frame
  <2>2. Covered(b)'
    BY <1>1 DEF Covered
  <2> QED
    BY <1>4, <2>1, <2>2 DEF HoldsKept, MayLapse, Frame
<1>10. sock'[b] # "none"
  BY <1>2, <1>5
<1> QED
  BY <1>1, <1>4, <1>7, <1>8, <1>9, <1>10 DEF EntryInv, At, Dropping

LEMMA FrameInv ==
  ASSUME IInv, TypeOK', Frame, HoldsKept, OneBoot',
         \A t \in tasks' : t \notin tasks => TaskInv(t)',
         \A t \in tasks' : t.proc \in up',
         \A p \in Proc : entry'[p] # 0 => p \in up',
         \A b \in Boot : sock[b] = "open" /\ sock'[b] = "closed" =>
           entry'[home[b]] # b \/ \E t \in tasks' : Dropping(t) /\ t.sock = b,
         \A b \in Boot : b \in retired' /\ b \notin retired =>
           /\ sock'[b] # "none"
           /\ entry'[home[b]] # b \/ \E t \in tasks' : At(t, "logout") /\ t.sock = b,
         \A t \in tasks : t \notin tasks' /\ Dropping(t) => entry'[t.proc] = 0
  PROVE  IInv'
<1>1. ASSUME NEW t \in tasks' PROVE TaskInv(t)'
  BY FrameTask
<1>2. ASSUME NEW p \in Proc PROVE EntryInv(p)'
  BY FrameEntry
<1>3. ASSUME NEW b \in Boot PROVE SocketInv(b)'
  <2>1. SocketInv(b) /\ b \in Nat /\ boots \in Nat /\ boots' \in Nat /\ boots <= boots'
    BY Types DEF IInv, TypeOK, Frame
  <2>2. sock'[b] = sock[b] \/ (sock[b] = "open" /\ sock'[b] = "closed")
    BY DEF Frame
  <2> QED
    BY <2>1, <2>2 DEF SocketInv
<1> QED
  BY <1>1, <1>2, <1>3 DEF IInv
(* A step of one handler, which is suspended again or ends. *)
LEMMA OneStep ==
  ASSUME IInv, TypeOK', Frame, HoldsKept, OneBoot', up' = up, NEW t \in tasks,
         tasks \ {t} \subseteq tasks',
         \A u \in tasks' : u \in tasks \/ TaskInv(u)',
         \A b \in Boot : sock[b] = "open" /\ sock'[b] = "closed" =>
           entry'[home[b]] # b \/ \E u \in tasks' : Dropping(u) /\ u.sock = b,
         \A b \in Boot : b \in retired' /\ b \notin retired =>
           /\ sock'[b] # "none"
           /\ entry'[home[b]] # b \/ \E u \in tasks' : At(u, "logout") /\ u.sock = b,
         Dropping(t) => entry'[t.proc] = 0
  PROVE  IInv'
<1>1. \A u \in tasks' : u.proc \in up'
  BY DEF IInv, TaskInv
<1>2. \A p \in Proc : entry'[p] # 0 => p \in up'
  BY DEF Frame, IInv, EntryInv
<1>3. \A u \in tasks' : u \notin tasks => TaskInv(u)'
  OBVIOUS
<1>4. \A u \in tasks : u \notin tasks' /\ Dropping(u) => entry'[u.proc] = 0
  OBVIOUS
<1> QED
  BY <1>1, <1>2, <1>3, <1>4, FrameInv

LEMMA OneBootKept ==
  ASSUME OneBoot, NEW t \in tasks, NEW x,
         \A u \in tasks' : u \notin tasks \ {t} /\ u.kind = "boot" =>
           u = x /\ x.proc = t.proc /\ t.kind = "boot"
  PROVE  OneBoot'
  BY DEF OneBoot

Pcs == {"find", "acquire", "status", "auth", "undo", "wait", "check",
        "recheck", "write", "release", "closeRelease", "closeCheck",
        "closeStatus", "restart", "clear", "sent", "lost", "logout", "mark"}

LEMMA GotoIs ==
  ASSUME NEW t \in Task, NEW pc \in Pcs
  PROVE  LET x == [t EXCEPT !.pc = pc]
         IN  /\ x \in Task /\ x.kind = t.kind /\ x.proc = t.proc
             /\ x.sock = t.sock /\ x.pc = pc
  BY DEF Task, Pcs

LEMMA NewTaskIs ==
  ASSUME NEW kind \in Handlers \cup {"boot", "renew", "reconnect", "delete"},
         NEW p \in Proc, NEW b \in 0 .. MaxBoots, NEW had \in BOOLEAN, NEW pc \in Pcs
  PROVE  LET x == NewTask(kind, p, b, had, pc)
         IN  /\ x \in Task /\ x.kind = kind /\ x.proc = p /\ x.sock = b /\ x.pc = pc
  BY DEF NewTask, Task, Handlers, Pcs

(* A handler writes no more of the row than its status, the time of its     *)
(* lease or its deletion, and is suspended again in the same role.          *)
LEMMA LocalStep ==
  ASSUME IInv, NEW t \in tasks, NEW pc \in Pcs,
         UNCHANGED <<entry, up, retired, sock, home, boots, scenario>>,
         row' \in RowSet, row'.lease = row.lease, row'.owner = row.owner,
         row.live => row'.live, creds' \in BOOLEAN, ~Dropping(t),
         \/ tasks' = Done(t)
         \/ /\ tasks' = Goto(t, pc)
            /\ KindPc(t.kind, pc)
            /\ pc \notin {"wait", "release", "closeRelease", "logout"}
            /\ t.kind = "boot" => t.pc # "wait"
            /\ pc \in {"status", "auth"} => t.pc \in {"status", "auth"}
  PROVE  IInv'
<1>t. t \in Task /\ TaskInv(t) /\ TypeOK
  BY DEF IInv, TypeOK
<1> PICK x : x = [t EXCEPT !.pc = pc]
  OBVIOUS
<1>x. x \in Task /\ x.kind = t.kind /\ x.proc = t.proc /\ x.sock = t.sock /\ x.pc = pc
  BY <1>t, GotoIs
<1>1. tasks' = tasks \ {t} \/ tasks' = (tasks \ {t}) \cup {x}
  BY DEF Done, Goto
<1>2. TypeOK'
  BY <1>t, <1>x, <1>1 DEF TypeOK, RowSet
<1>3. \A b, p : Holds(b, p) => Holds(b, p)'
  BY <1>t, <1>2 DEF Holds, TypeOK
<1>4. Frame /\ HoldsKept
  <2>1. boots <= boots'
    BY <1>t, Types
  <2> QED
    BY <1>3, <2>1 DEF Frame, HoldsKept
<1>s. /\ \A b \in Boot : sock[b] = "open" /\ sock'[b] = "closed" =>
           entry'[home[b]] # b \/ \E u \in tasks' : Dropping(u) /\ u.sock = b
      /\ \A b \in Boot : b \in retired' /\ b \notin retired =>
           /\ sock'[b] # "none"
           /\ entry'[home[b]] # b \/ \E u \in tasks' : At(u, "logout") /\ u.sock = b
  OBVIOUS
<1>5. CASE tasks' = Done(t)
  <2>1. tasks' = tasks \ {t}
    BY <1>5 DEF Done
  <2>2. OneBoot'
    BY <2>1 DEF IInv, OneBoot
  <2>3. tasks \ {t} \subseteq tasks' /\ \A u \in tasks' : u \in tasks
    BY <2>1
  <2> QED
    BY <1>2, <1>4, <1>s, <2>2, <2>3, OneStep
<1>6. CASE /\ tasks' = Goto(t, pc)
           /\ KindPc(t.kind, pc)
           /\ pc \notin {"wait", "release", "closeRelease", "logout"}
           /\ t.kind = "boot" => t.pc # "wait"
           /\ pc \in {"status", "auth"} => t.pc \in {"status", "auth"}
  <2>1. tasks' = (tasks \ {t}) \cup {x}
    BY <1>6 DEF Goto
  <2>2. OneBoot'
    <3>1. OneBoot /\ \A u \in tasks' : u \notin tasks \ {t} /\ u.kind = "boot" =>
                       u = x /\ x.proc = t.proc /\ t.kind = "boot"
      BY <1>x, <2>1 DEF IInv
    <3> QED
      BY <3>1, OneBootKept
  <2>3. (Starting(x) <=> Starting(t)) /\ ~AfterDrop(x)
    BY <1>x, <1>6 DEF Starting, AfterDrop
  <2>4. NeedsSocket(x) => NeedsSocket(t)
    BY <1>x, <1>6 DEF NeedsSocket
  <2>5. ~MayLapse' /\ x.pc \in {"status", "auth"} => Holds(x.sock, x.proc)'
    BY <1>t, <1>x, <1>3, <1>6 DEF TaskInv, MayLapse
  <2>6. TaskInv(x)'
    BY <1>t, <1>x, <1>6, <2>3, <2>4, <2>5 DEF TaskInv, Starting, NeedsSocket, AfterDrop
  <2> QED
    <3>1. tasks \ {t} \subseteq tasks' /\ \A u \in tasks' : u \in tasks \/ TaskInv(u)'
      BY <2>1, <2>6
    <3> QED
      BY <1>2, <1>4, <1>s, <2>2, <3>1, OneStep
<1> QED
  BY <1>5, <1>6
LEMMA RowTypes ==
  ASSUME row \in RowSet
  PROVE  /\ \A s \in Active \cup {"DISCONNECTED"} :
              LET r == [row EXCEPT !.status = s]
              IN  r \in RowSet /\ r.lease = row.lease /\ r.owner = row.owner
                  /\ r.live = row.live
         /\ \A b \in BOOLEAN :
              LET r == [row EXCEPT !.live = b]
              IN  r \in RowSet /\ r.lease = row.lease /\ r.owner = row.owner /\ r.live = b
         /\ LET r == [row EXCEPT !.deleted = TRUE, !.status = "DISCONNECTED"]
            IN  r \in RowSet /\ r.lease = row.lease /\ r.owner = row.owner
                /\ r.live = row.live
         /\ \A b \in 0 .. MaxBoots : Released(b) \in RowSet
<1>1. ASSUME NEW s \in Active \cup {"DISCONNECTED"}
      PROVE  LET r == [row EXCEPT !.status = s]
             IN  r \in RowSet /\ r.lease = row.lease /\ r.owner = row.owner
                 /\ r.live = row.live
  BY DEF RowSet
<1>2. ASSUME NEW b \in BOOLEAN
      PROVE  LET r == [row EXCEPT !.live = b]
             IN  r \in RowSet /\ r.lease = row.lease /\ r.owner = row.owner /\ r.live = b
  BY DEF RowSet
<1>3. LET r == [row EXCEPT !.deleted = TRUE, !.status = "DISCONNECTED"]
      IN  r \in RowSet /\ r.lease = row.lease /\ r.owner = row.owner /\ r.live = row.live
  BY DEF RowSet
<1>4. ASSUME NEW b \in 0 .. MaxBoots PROVE Released(b) \in RowSet
  <2>1. [row EXCEPT !.lease = 0, !.owner = NoProc, !.live = FALSE] \in RowSet
    <3>1. 0 \in 0 .. MaxBoots /\ FALSE \in BOOLEAN
      OBVIOUS
    <3>2. \A l \in 0 .. MaxBoots, v \in BOOLEAN :
            [row EXCEPT !.lease = l, !.owner = NoProc, !.live = v] \in RowSet
      BY DEF RowSet
    <3> QED
      BY <3>1, <3>2
  <2> QED
    BY <2>1 DEF Released
<1> QED
  BY <1>1, <1>2, <1>3, <1>4

LEMMA LocalSteps ==
  ASSUME IInv, NEW t \in tasks, UNCHANGED scenario,
         \/ BootFind(t) \/ BootStatus(t) \/ BootFails(t) \/ BootReturns(t)
         \/ QrOrOpenCheck(t) \/ OpenRecheck(t) \/ QrOrOpenWrite(t)
         \/ CloseRecheck(t) \/ CloseStatus(t) \/ CloseClear(t)
         \/ RenewAnswer(t) \/ RenewError(t) \/ NotFound(t)
         \/ DeleteClear(t) \/ DeleteMark(t)
  PROVE  IInv'
<1>t. /\ KindPc(t.kind, t.pc) /\ row \in RowSet /\ creds \in BOOLEAN
      /\ {"CONNECTING", "QR_READY", "CONNECTED", "DISCONNECTED"}
           \subseteq Active \cup {"DISCONNECTED"}
  BY Types DEF IInv, TaskInv, TypeOK, Active
<1>1. CASE BootFind(t)
  <2>1. "acquire" \in Pcs /\ ~Dropping(t) /\ KindPc(t.kind, "acquire")
    BY <1>1 DEF BootFind, At, Pcs, Dropping, KindPc, Closes
  <2> QED
    BY <1>t, <1>1, <2>1, LocalStep DEF BootFind, At, system
<1>2. CASE BootStatus(t)
  <2>1. "auth" \in Pcs /\ ~Dropping(t) /\ t.kind = "boot" /\ KindPc(t.kind, "auth")
    BY <1>t, <1>2 DEF BootStatus, At, Pcs, Dropping, KindPc, Closes
  <2>2. /\ row' \in RowSet /\ row'.lease = row.lease /\ row'.owner = row.owner
        /\ row.live => row'.live
    BY <1>t, <1>2, RowTypes DEF BootStatus, SetStatus
  <2> QED
    BY <1>t, <1>2, <2>1, <2>2, LocalStep DEF BootStatus, At, system
<1>3. CASE BootFails(t)
  <2>1. "undo" \in Pcs /\ ~Dropping(t) /\ KindPc(t.kind, "undo")
    BY <1>t, <1>3 DEF BootFails, Pcs, Dropping, KindPc, Closes
  <2> QED
    BY <1>t, <1>3, <2>1, LocalStep DEF BootFails, system
<1>4. CASE BootReturns(t) \/ NotFound(t)
  <2>1. "find" \in Pcs /\ ~Dropping(t)
    BY <1>t, <1>4 DEF BootReturns, NotFound, At, Pcs, Dropping
  <2> QED
    BY <1>t, <1>4, <2>1, LocalStep DEF BootReturns, NotFound, system
<1>5. CASE QrOrOpenCheck(t)
  <2>1. PICK pc \in {"write", "recheck"} : tasks' = Goto(t, pc)
    BY <1>5 DEF QrOrOpenCheck
  <2>2. pc \in Pcs /\ ~Dropping(t) /\ KindPc(t.kind, pc) /\ t.kind # "boot"
    BY <1>5, <2>1 DEF QrOrOpenCheck, At, Pcs, Dropping, KindPc, Closes
  <2> QED
    BY <1>t, <1>5, <2>1, <2>2, LocalStep DEF QrOrOpenCheck, system
<1>6. CASE OpenRecheck(t)
  <2>1. "write" \in Pcs /\ ~Dropping(t) /\ KindPc(t.kind, "write") /\ t.kind # "boot"
    BY <1>t, <1>6 DEF OpenRecheck, At, Pcs, Dropping, KindPc, Closes
  <2> QED
    BY <1>t, <1>6, <2>1, LocalStep DEF OpenRecheck, system
<1>7. CASE QrOrOpenWrite(t)
  <2>1. "write" \in Pcs /\ ~Dropping(t)
    BY <1>7 DEF QrOrOpenWrite, At, Pcs, Dropping
  <2>2. /\ row' \in RowSet /\ row'.lease = row.lease /\ row'.owner = row.owner
        /\ row.live => row'.live
    <3>1. PICK s \in {"QR_READY", "CONNECTED"} : row' = [row EXCEPT !.status = s]
      BY <1>7 DEF QrOrOpenWrite, SetStatus
    <3> QED
      BY <1>t, <3>1, RowTypes
  <2> QED
    BY <1>t, <1>7, <2>1, <2>2, LocalStep DEF QrOrOpenWrite, system
<1>8. CASE CloseRecheck(t)
  <2>1. PICK pc \in {"clear", "closeStatus"} : tasks' = Goto(t, pc)
    BY <1>8 DEF CloseRecheck
  <2>2. pc \in Pcs /\ ~Dropping(t) /\ KindPc(t.kind, pc) /\ t.kind # "boot"
    BY <1>t, <1>8, <2>1 DEF CloseRecheck, At, Pcs, Dropping, KindPc, Closes
  <2> QED
    BY <1>t, <1>8, <2>1, <2>2, LocalStep DEF CloseRecheck, system
<1>9. CASE CloseStatus(t)
  <2>1. PICK pc \in {"restart", "clear"} : tasks' = Goto(t, pc)
    BY <1>9 DEF CloseStatus
  <2>2. pc \in Pcs /\ ~Dropping(t) /\ KindPc(t.kind, pc) /\ t.kind # "boot"
    BY <1>t, <1>9, <2>1 DEF CloseStatus, At, Pcs, Dropping, KindPc, Closes
  <2>3. /\ row' \in RowSet /\ row'.lease = row.lease /\ row'.owner = row.owner
        /\ row.live => row'.live
    BY <1>t, <1>9, RowTypes DEF CloseStatus, SetStatus
  <2> QED
    BY <1>t, <1>9, <2>1, <2>2, <2>3, LocalStep DEF CloseStatus, system
<1>10. CASE CloseClear(t)
  <2>1. "clear" \in Pcs /\ ~Dropping(t)
    BY <1>10 DEF CloseClear, At, Pcs, Dropping
  <2> QED
    BY <1>t, <1>10, <2>1, LocalStep DEF CloseClear
<1>11. CASE RenewAnswer(t)
  <2>1. "lost" \in Pcs /\ ~Dropping(t) /\ KindPc(t.kind, "lost") /\ t.kind # "boot"
    BY <1>t, <1>11 DEF RenewAnswer, At, Pcs, Dropping, KindPc, Closes
  <2>2. /\ row' \in RowSet /\ row'.lease = row.lease /\ row'.owner = row.owner
        /\ row.live => row'.live
    BY <1>t, <1>11, RowTypes DEF RenewAnswer
  <2>3. tasks' = Done(t) \/ tasks' = Goto(t, "lost")
    BY <1>11 DEF RenewAnswer
  <2> QED
    BY <1>t, <1>11, <2>1, <2>2, <2>3, LocalStep DEF RenewAnswer, system
<1>12. CASE RenewError(t)
  <2>1. "lost" \in Pcs /\ ~Dropping(t) /\ KindPc(t.kind, "lost") /\ t.kind # "boot"
    BY <1>t, <1>12 DEF RenewError, At, Pcs, Dropping, KindPc, Closes
  <2> QED
    BY <1>t, <1>12, <2>1, LocalStep DEF RenewError, system
<1>13. CASE DeleteClear(t)
  <2>1. "mark" \in Pcs /\ ~Dropping(t) /\ KindPc(t.kind, "mark") /\ t.kind # "boot"
    BY <1>13 DEF DeleteClear, At, Pcs, Dropping, KindPc, Closes
  <2> QED
    BY <1>t, <1>13, <2>1, LocalStep DEF DeleteClear
<1>14. CASE DeleteMark(t)
  <2>1. "mark" \in Pcs /\ ~Dropping(t)
    BY <1>14 DEF DeleteMark, At, Pcs, Dropping
  <2>2. /\ row' \in RowSet /\ row'.lease = row.lease /\ row'.owner = row.owner
        /\ row.live => row'.live
    BY <1>t, <1>14, RowTypes DEF DeleteMark
  <2> QED
    BY <1>t, <1>14, <2>1, <2>2, LocalStep DEF DeleteMark, system
<1> QED
  BY <1>1, <1>2, <1>3, <1>4, <1>5, <1>6, <1>7, <1>8, <1>9, <1>10, <1>11, <1>12,
     <1>13, <1>14

----------------------------------------------------------------------------
(* Releasing a lease. *)

(* What a handler releases, or a start that failed, is in no map and on no  *)
(* way there.                                                               *)
LEMMA Uncovered ==
  ASSUME IInv, NEW t \in tasks, AfterDrop(t) \/ t.pc = "undo"
  PROVE  /\ t.sock \in Boot /\ sock[t.sock] # "open"
         /\ \A p \in Proc : entry[p] # t.sock
         /\ \A u \in tasks : u.pc \in {"status", "auth"} => u.sock # t.sock
<1>1. TaskInv(t) /\ KindPc(t.kind, t.pc)
  BY DEF IInv, TaskInv
<1>2. t.sock # 0 /\ t.sock \in 1 .. boots /\ t.sock \in Boot /\ home[t.sock] = t.proc
  BY <1>1, Types DEF TaskInv, NeedsSocket, KindPc, AfterDrop, Handlers, Closes, IInv
<1>3. AfterDrop(t) => sock[t.sock] = "closed" /\ entry[t.proc] # t.sock
  BY <1>1 DEF TaskInv
<1>4. t.pc = "undo" => t.kind = "boot" /\ sock[t.sock] = "none"
  BY <1>1 DEF TaskInv, KindPc, Starting
<1>5. ASSUME NEW p \in Proc, entry[p] = t.sock PROVE FALSE
  <2>1. sock[t.sock] # "none" /\ t.proc = p
    BY <1>2, <1>5 DEF IInv, EntryInv
  <2> QED
    BY <1>3, <1>4, <1>5, <2>1
<1>6. ASSUME NEW u \in tasks, u.pc \in {"status", "auth"}, u.sock = t.sock PROVE FALSE
  <2>1. u.kind = "boot" /\ sock[u.sock] = "none" /\ u.proc = t.proc
    BY <1>2, <1>6 DEF IInv, TaskInv, KindPc, Starting
  <2>2. t.kind = "boot" => u = t
    BY <2>1 DEF IInv, OneBoot
  <2> QED
    BY <1>3, <1>4, <1>6, <2>1, <2>2
<1> QED
  BY <1>2, <1>3, <1>4, <1>5, <1>6

LEMMA ReleaseHolds ==
  ASSUME NEW b \in Boot, row' = Released(b), ~Covered(b)'
  PROVE  HoldsKept
  BY DEF HoldsKept, Holds, Released

(* A release that ends the handler or lets it go on. *)
LEMMA ReleaseSteps ==
  ASSUME IInv, NEW t \in tasks, UNCHANGED scenario,
         BootUndo(t) \/ HandlerRelease(t) \/ CloseRelease(t) \/ DeleteRelease(t)
  PROVE  IInv'
<1>1. /\ AfterDrop(t) \/ t.pc = "undo"
      /\ row' = Released(t.sock) /\ ~Dropping(t)
      /\ UNCHANGED <<entry, boots, creds, up, retired, sock, home>>
  BY DEF BootUndo, HandlerRelease, CloseRelease, DeleteRelease, At, AfterDrop, system,
         Dropping
<1>2. /\ TaskInv(t) /\ KindPc(t.kind, t.pc) /\ t \in Task /\ TypeOK /\ row \in RowSet
      /\ t.sock \in 0 .. MaxBoots
  BY Types DEF IInv, TypeOK, TaskInv, Task
<1>3. PICK x \in Task :
        /\ tasks' = tasks \ {t} \/ tasks' = (tasks \ {t}) \cup {x}
        /\ x.kind = t.kind /\ x.proc = t.proc /\ x.sock = t.sock
        /\ x \in tasks' => x \in tasks \/
             /\ t.kind # "boot" /\ KindPc(x.kind, x.pc)
             /\ x.pc \in {"closeCheck", "clear"}
  <2>1. CASE BootUndo(t) \/ HandlerRelease(t)
    <3>1. tasks' = tasks \ {t}
      BY <2>1 DEF BootUndo, HandlerRelease, Done
    <3>2. t \in Task /\ t \notin tasks' /\ t.kind = t.kind /\ t.proc = t.proc
          /\ t.sock = t.sock
      BY <1>2, <3>1
    <3> QED
      BY <3>1, <3>2
  <2>2. CASE CloseRelease(t)
    <3> PICK x : x = [t EXCEPT !.pc = "closeCheck"]
      OBVIOUS
    <3>1. "closeCheck" \in Pcs
      BY DEF Pcs
    <3>2. /\ x \in Task /\ x.kind = t.kind /\ x.proc = t.proc /\ x.sock = t.sock
          /\ x.pc = "closeCheck"
      BY <1>2, <3>1, GotoIs
    <3>3. t.kind # "boot" /\ KindPc(x.kind, x.pc)
      BY <1>2, <2>2, <3>2 DEF CloseRelease, At, KindPc, Closes
    <3>4. tasks' = (tasks \ {t}) \cup {x}
      BY <2>2 DEF CloseRelease, Goto
    <3> QED
      BY <3>2, <3>3, <3>4
  <2>3. CASE DeleteRelease(t)
    <3> PICK x : x = [t EXCEPT !.pc = "clear"]
      OBVIOUS
    <3>1. "clear" \in Pcs
      BY DEF Pcs
    <3>2. /\ x \in Task /\ x.kind = t.kind /\ x.proc = t.proc /\ x.sock = t.sock
          /\ x.pc = "clear"
      BY <1>2, <3>1, GotoIs
    <3>3. t.kind # "boot" /\ KindPc(x.kind, x.pc)
      BY <1>2, <2>3, <3>2 DEF DeleteRelease, At, KindPc
    <3>4. tasks' = (tasks \ {t}) \cup {x}
      BY <2>3 DEF DeleteRelease, Goto
    <3> QED
      BY <3>2, <3>3, <3>4
  <2> QED
    BY <2>1, <2>2, <2>3
<1>4. TypeOK'
  <2>1. row' \in RowSet
    BY <1>1, <1>2, RowTypes
  <2> QED
    BY <1>1, <1>2, <1>3, <2>1 DEF TypeOK, RowSet
<1>5. Frame /\ HoldsKept
  <2>1. boots <= boots'
    BY <1>1, <1>2, Types
  <2>2. Frame
    BY <1>1, <2>1 DEF Frame
  <2>3. /\ t.sock \in Boot
        /\ \A p \in Proc : entry[p] # t.sock
        /\ \A u \in tasks : u.pc \in {"status", "auth"} => u.sock # t.sock
    BY <1>1, Uncovered
  <2>4. \A u \in tasks' : u.pc \in {"status", "auth"} => u.sock # t.sock
    BY <1>3, <2>3
  <2>5. ~Covered(t.sock)'
    BY <1>1, <2>3, <2>4 DEF Covered
  <2> QED
    BY <1>1, <2>2, <2>3, <2>5, ReleaseHolds
<1>6. OneBoot'
  <2>1. \A u \in tasks' : u \notin tasks => u.kind # "boot"
    BY <1>3
  <2> QED
    BY <2>1 DEF IInv, OneBoot
<1>7. x \in tasks' => x \in tasks \/ TaskInv(x)'
  BY <1>1, <1>2, <1>3 DEF TaskInv, Starting, NeedsSocket, AfterDrop
<1>8. tasks \ {t} \subseteq tasks' /\ \A u \in tasks' : u \in tasks \/ TaskInv(u)'
  BY <1>3, <1>7
<1> QED
  BY <1>1, <1>4, <1>5, <1>6, <1>8, OneStep
----------------------------------------------------------------------------
(* Ending a socket and dropping an entry. *)

LEMMA EndedIs ==
  ASSUME TypeOK, NEW b \in Boot, sock[b] # "none", sock' = Ended(b)
  PROVE  /\ sock' \in [Boot -> {"none", "open", "closed"}]
         /\ sock'[b] = "closed"
         /\ \A c \in Boot : c # b => sock'[c] = sock[c]
         /\ \A c \in Boot : sock'[c] = sock[c] \/ (sock[c] = "open" /\ sock'[c] = "closed")
<1>1. sock \in [Boot -> {"none", "open", "closed"}] /\ b # 0
  BY Types DEF TypeOK
<1>2. sock' = [sock EXCEPT ![b] = "closed"]
  BY <1>1 DEF Ended
<1> QED
  BY <1>1, <1>2

LEMMA DropIs ==
  ASSUME TypeOK, NEW p \in Proc, entry' = [entry EXCEPT ![p] = 0]
  PROVE  /\ entry' \in [Proc -> 0 .. MaxBoots] /\ entry'[p] = 0
         /\ \A q \in Proc : entry'[q] \in {0, entry[q]}
<1>1. entry \in [Proc -> 0 .. MaxBoots] /\ 0 \in 0 .. MaxBoots
  BY DEF TypeOK
<1> QED
  BY <1>1

(* The handlers started for an event of a socket. *)
LEMMA HandlerIs ==
  ASSUME IInv, NEW b \in Boot, home[b] \in Proc, NEW kind \in Handlers,
         NEW x \in Handler(kind, b)
  PROVE  /\ x \in Task /\ x.kind = kind /\ x.proc = home[b] /\ x.sock = b
         /\ x.pc = "check"
<1>1. PICK had \in BOOLEAN : x = NewTask(kind, home[b], b, had, "check")
  BY DEF Handler
<1>2. /\ b \in 0 .. MaxBoots /\ "check" \in Pcs
      /\ kind \in Handlers \cup {"boot", "renew", "reconnect", "delete"}
  BY DEF Boot, Pcs
<1> QED
  BY <1>1, <1>2, NewTaskIs

LEMMA UpdateOfDeletedInv ==
  ASSUME IInv, NEW t \in tasks, UNCHANGED scenario, UpdateOfDeleted(t)
  PROVE  IInv'
<1>1. /\ sock' = Ended(t.sock)
      /\ entry' = [entry EXCEPT ![t.proc] = 0]
      /\ tasks' = EndEvent(t.sock) \cup
                  IF t.had THEN Goto(t, "release") ELSE Done(t)
      /\ UNCHANGED <<row, creds, up, retired, home, boots>>
      /\ t.pc \in {"check", "recheck"}
  BY DEF UpdateOfDeleted, DropDeleted
<1>2. /\ TaskInv(t) /\ KindPc(t.kind, t.pc) /\ t \in Task /\ TypeOK
      /\ t.proc \in Proc /\ boots \in Nat
  BY Types DEF IInv, TypeOK, TaskInv, Task
<1>3. /\ t.kind \in Handlers /\ t.sock \in 1 .. boots /\ t.sock \in Boot
      /\ home[t.sock] = t.proc /\ sock[t.sock] # "none" /\ t.proc \in up
  BY <1>1, <1>2, Types DEF TaskInv, KindPc, Handlers, Closes, NeedsSocket, Starting
<1>4. /\ sock' \in [Boot -> {"none", "open", "closed"}] /\ sock'[t.sock] = "closed"
      /\ \A c \in Boot : c # t.sock => sock'[c] = sock[c]
      /\ \A c \in Boot : sock'[c] = sock[c] \/ (sock[c] = "open" /\ sock'[c] = "closed")
  BY <1>1, <1>2, <1>3, EndedIs
<1>5. /\ entry' \in [Proc -> 0 .. MaxBoots] /\ entry'[t.proc] = 0
      /\ \A q \in Proc : entry'[q] \in {0, entry[q]}
  BY <1>1, <1>2, DropIs
<1>6. PICK x : x = [t EXCEPT !.pc = "release"]
  OBVIOUS
<1>7. /\ x \in Task /\ x.kind = t.kind /\ x.proc = t.proc /\ x.sock = t.sock
      /\ x.pc = "release"
  <2>1. "release" \in Pcs
    BY DEF Pcs
  <2> QED
    BY <1>2, <1>6, <2>1, GotoIs
<1>8. /\ tasks \ {t} \subseteq tasks'
      /\ tasks' \subseteq (tasks \ {t}) \cup {x} \cup EndEvent(t.sock)
  BY <1>1, <1>6 DEF Goto, Done
<1>9. ASSUME NEW y \in EndEvent(t.sock)
      PROVE  /\ y \in Task /\ y.kind = "close" /\ y.proc = t.proc /\ y.sock = t.sock
             /\ y.pc = "check"
  <2>1. y \in Handler("close", t.sock) /\ "close" \in Handlers
    BY DEF EndEvent, Handlers
  <2> QED
    BY <1>2, <1>3, <2>1, HandlerIs
<1>10. TaskInv(x)'
  BY <1>1, <1>2, <1>3, <1>4, <1>5, <1>7
  DEF TaskInv, KindPc, Handlers, Closes, NeedsSocket, Starting, AfterDrop
<1>11. ASSUME NEW y \in EndEvent(t.sock) PROVE TaskInv(y)'
  BY <1>1, <1>2, <1>3, <1>4, <1>9
  DEF TaskInv, KindPc, Handlers, Closes, NeedsSocket, Starting, AfterDrop
<1>12. TypeOK'
  <2>1. tasks' \subseteq Task
    BY <1>2, <1>7, <1>8, <1>9 DEF TypeOK
  <2> QED
    BY <1>1, <1>2, <1>4, <1>5, <2>1 DEF TypeOK
<1>13. Frame /\ HoldsKept
  BY <1>1, <1>2, <1>4, <1>5 DEF Frame, HoldsKept, Holds
<1>14. OneBoot'
  <2>1. \A u \in tasks' : u \notin tasks => u.kind # "boot"
    BY <1>3, <1>7, <1>8, <1>9 DEF Handlers
  <2> QED
    BY <2>1 DEF IInv, OneBoot
<1>15. \A u \in tasks' : u \in tasks \/ TaskInv(u)'
  BY <1>8, <1>10, <1>11
<1>16. \A b \in Boot : sock[b] = "open" /\ sock'[b] = "closed" => entry'[home[b]] # b
  <2>1. t.sock # 0
    BY <1>3, <1>2
  <2> QED
    BY <1>3, <1>4, <1>5, <2>1
<1> QED
  BY <1>1, <1>5, <1>8, <1>12, <1>13, <1>14, <1>15, <1>16, OneStep

LEMMA CloseCheckInv ==
  ASSUME IInv, NEW t \in tasks, UNCHANGED scenario, CloseCheck(t)
  PROVE  IInv'
<1>1. /\ t.kind \in Closes /\ entry' = [entry EXCEPT ![t.proc] = 0]
      /\ UNCHANGED <<row, boots, creds, up, retired, sock, home>>
  BY DEF CloseCheck, system, Closes
<1>2. /\ TaskInv(t) /\ t \in Task /\ TypeOK /\ t.proc \in Proc /\ boots \in Nat
  BY Types DEF IInv, TypeOK, Task
<1>3. PICK pc \in {"closeRelease", "closeCheck"} : tasks' = Goto(t, pc)
  BY DEF CloseCheck
<1>4. /\ entry' \in [Proc -> 0 .. MaxBoots] /\ entry'[t.proc] = 0
      /\ \A q \in Proc : entry'[q] \in {0, entry[q]}
  BY <1>1, <1>2, DropIs
<1>5. PICK x : x = [t EXCEPT !.pc = pc]
  OBVIOUS
<1>6. /\ x \in Task /\ x.kind = t.kind /\ x.proc = t.proc /\ x.sock = t.sock
      /\ x.pc = pc
  <2>1. pc \in Pcs
    BY DEF Pcs
  <2> QED
    BY <1>2, <1>5, <2>1, GotoIs
<1>7. tasks' = (tasks \ {t}) \cup {x}
  BY <1>3, <1>5 DEF Goto
<1>8. TaskInv(x)'
  BY <1>1, <1>2, <1>4, <1>6
  DEF TaskInv, KindPc, Handlers, Closes, NeedsSocket, Starting, AfterDrop
<1>9. TypeOK'
  <2>1. tasks' \subseteq Task
    BY <1>2, <1>6, <1>7 DEF TypeOK
  <2> QED
    BY <1>1, <1>2, <1>4, <2>1 DEF TypeOK
<1>10. Frame /\ HoldsKept
  BY <1>1, <1>2, <1>4 DEF Frame, HoldsKept, Holds
<1>11. OneBoot'
  BY <1>1, <1>6, <1>7 DEF IInv, OneBoot, Closes
<1>12. tasks \ {t} \subseteq tasks' /\ \A u \in tasks' : u \in tasks \/ TaskInv(u)'
  BY <1>7, <1>8
<1> QED
  BY <1>1, <1>4, <1>9, <1>10, <1>11, <1>12, OneStep
LEMMA RenewLostInv ==
  ASSUME IInv, NEW t \in tasks, UNCHANGED scenario, RenewLost(t)
  PROVE  IInv'
<1>1. /\ t.pc = "lost" /\ retired' = retired \cup {t.sock}
      /\ sock' = Ended(t.sock)
      /\ entry' = [entry EXCEPT ![t.proc] = 0]
      /\ tasks' = tasks \ {t}
      /\ UNCHANGED <<row, creds, up, home, boots>>
  BY DEF RenewLost, At, Done
<1>2. /\ TaskInv(t) /\ KindPc(t.kind, t.pc) /\ t \in Task /\ TypeOK
      /\ t.proc \in Proc /\ boots \in Nat
  BY Types DEF IInv, TypeOK, TaskInv, Task
<1>3. /\ t.sock \in Boot /\ t.sock # 0 /\ home[t.sock] = t.proc
      /\ sock[t.sock] # "none" /\ ~Dropping(t)
  BY <1>1, <1>2, Types
  DEF TaskInv, KindPc, Handlers, Closes, NeedsSocket, Starting, Dropping
<1>4. /\ sock' \in [Boot -> {"none", "open", "closed"}] /\ sock'[t.sock] = "closed"
      /\ \A c \in Boot : c # t.sock => sock'[c] = sock[c]
      /\ \A c \in Boot : sock'[c] = sock[c] \/ (sock[c] = "open" /\ sock'[c] = "closed")
  BY <1>1, <1>2, <1>3, EndedIs
<1>5. /\ entry' \in [Proc -> 0 .. MaxBoots] /\ entry'[t.proc] = 0
      /\ \A q \in Proc : entry'[q] \in {0, entry[q]}
  BY <1>1, <1>2, DropIs
<1>6. TypeOK'
  BY <1>1, <1>2, <1>3, <1>4, <1>5 DEF TypeOK
<1>7. Frame /\ HoldsKept /\ OneBoot'
  BY <1>1, <1>2, <1>4, <1>5 DEF Frame, HoldsKept, Holds, OneBoot, IInv
<1>8. tasks \ {t} \subseteq tasks' /\ \A u \in tasks' : u \in tasks \/ TaskInv(u)'
  BY <1>1
<1>9. /\ \A b \in Boot : sock[b] = "open" /\ sock'[b] = "closed" => entry'[home[b]] # b
      /\ \A b \in Boot : b \in retired' /\ b \notin retired =>
           sock'[b] # "none" /\ entry'[home[b]] # b
  BY <1>1, <1>3, <1>4, <1>5
<1> QED
  BY <1>1, <1>3, <1>6, <1>7, <1>8, <1>9, OneStep

LEMMA ReconnectEndInv ==
  ASSUME IInv, NEW t \in tasks, UNCHANGED scenario, ReconnectEnd(t)
  PROVE  IInv'
<1> PICK b : b = entry[t.proc]
  OBVIOUS
<1>1. /\ t.kind = "reconnect" /\ t.pc = "find" /\ b # 0
      /\ retired' = retired \cup {b}
      /\ sock' = Ended(b)
      /\ entry' = [entry EXCEPT ![t.proc] = 0]
      /\ tasks' = (tasks \ {t}) \cup {[t EXCEPT !.sock = b, !.pc = "release"]}
      /\ UNCHANGED <<row, creds, up, home, boots>>
  BY DEF ReconnectEnd, At, Done
<1>2. /\ TaskInv(t) /\ t \in Task /\ TypeOK /\ t.proc \in Proc /\ boots \in Nat
      /\ EntryInv(t.proc) /\ ~Dropping(t)
  BY <1>1, Types DEF IInv, TypeOK, Task, Dropping, Closes
<1>3. /\ b \in Boot /\ b \in 1 .. boots /\ home[b] = t.proc /\ sock[b] # "none"
      /\ t.proc \in up
  BY <1>1, <1>2, Types DEF EntryInv
<1>4. /\ sock' \in [Boot -> {"none", "open", "closed"}] /\ sock'[b] = "closed"
      /\ \A c \in Boot : c # b => sock'[c] = sock[c]
      /\ \A c \in Boot : sock'[c] = sock[c] \/ (sock[c] = "open" /\ sock'[c] = "closed")
  BY <1>1, <1>2, <1>3, EndedIs
<1>5. /\ entry' \in [Proc -> 0 .. MaxBoots] /\ entry'[t.proc] = 0
      /\ \A q \in Proc : entry'[q] \in {0, entry[q]}
  BY <1>1, <1>2, DropIs
<1>6. PICK x : x = [t EXCEPT !.sock = b, !.pc = "release"]
  OBVIOUS
<1>7. /\ x \in Task /\ x.kind = t.kind /\ x.proc = t.proc /\ x.sock = b
      /\ x.pc = "release"
  <2>1. b \in 0 .. MaxBoots
    BY <1>3 DEF Boot
  <2> QED
    BY <1>2, <1>6, <2>1 DEF Task
<1>8. tasks' = (tasks \ {t}) \cup {x}
  BY <1>1, <1>6
<1>9. TaskInv(x)'
  BY <1>1, <1>2, <1>3, <1>4, <1>5, <1>7
  DEF TaskInv, KindPc, Handlers, Closes, NeedsSocket, Starting, AfterDrop
<1>10. TypeOK'
  <2>1. tasks' \subseteq Task
    BY <1>2, <1>7, <1>8 DEF TypeOK
  <2> QED
    BY <1>1, <1>2, <1>3, <1>4, <1>5, <2>1 DEF TypeOK
<1>11. Frame /\ HoldsKept
  BY <1>1, <1>2, <1>4, <1>5 DEF Frame, HoldsKept, Holds
<1>12. OneBoot'
  BY <1>1, <1>7, <1>8 DEF IInv, OneBoot
<1>13. tasks \ {t} \subseteq tasks' /\ \A u \in tasks' : u \in tasks \/ TaskInv(u)'
  BY <1>8, <1>9
<1>14. /\ \A c \in Boot : sock[c] = "open" /\ sock'[c] = "closed" => entry'[home[c]] # c
       /\ \A c \in Boot : c \in retired' /\ c \notin retired =>
            sock'[c] # "none" /\ entry'[home[c]] # c
  BY <1>1, <1>3, <1>4, <1>5
<1> QED
  BY <1>1, <1>2, <1>10, <1>11, <1>12, <1>13, <1>14, OneStep

LEMMA DeleteFindInv ==
  ASSUME IInv, NEW t \in tasks, UNCHANGED scenario, DeleteFind(t)
  PROVE  IInv'
<1> PICK b : b = entry[t.proc]
  OBVIOUS
<1> PICK pc : pc = IF b = 0 THEN "clear" ELSE "logout"
  OBVIOUS
<1>1. /\ t.kind = "delete" /\ t.pc = "find"
      /\ retired' = retired \cup ({b} \ {0})
      /\ tasks' = (tasks \ {t}) \cup {[t EXCEPT !.sock = b, !.pc = pc]}
      /\ UNCHANGED <<row, entry, creds, up, sock, home, boots>>
  BY DEF DeleteFind, At, Done
<1>2. /\ TaskInv(t) /\ t \in Task /\ TypeOK /\ t.proc \in Proc /\ boots \in Nat
      /\ EntryInv(t.proc) /\ ~Dropping(t)
  BY <1>1, Types DEF IInv, TypeOK, Task, Dropping, Closes
<1>3. /\ b \in 0 .. MaxBoots /\ t.proc \in up
      /\ b # 0 => b \in Boot /\ b \in 1 .. boots /\ home[b] = t.proc /\ sock[b] # "none"
  <2>1. b \in 0 .. MaxBoots /\ t.proc \in up
    BY <1>2 DEF TypeOK, TaskInv
  <2> QED
    BY <1>2, <2>1, Types DEF EntryInv
<1>4. PICK x : x = [t EXCEPT !.sock = b, !.pc = pc]
  OBVIOUS
<1>5. /\ x \in Task /\ x.kind = t.kind /\ x.proc = t.proc /\ x.sock = b /\ x.pc = pc
  <2>1. pc \in {"clear", "logout"}
    OBVIOUS
  <2> QED
    BY <1>2, <1>3, <1>4, <2>1 DEF Task
<1>6. tasks' = (tasks \ {t}) \cup {x}
  BY <1>1, <1>4
<1>7. TaskInv(x)'
  BY <1>1, <1>2, <1>3, <1>5
  DEF TaskInv, KindPc, Handlers, Closes, NeedsSocket, Starting, AfterDrop
<1>8. TypeOK'
  <2>1. tasks' \subseteq Task
    BY <1>2, <1>5, <1>6 DEF TypeOK
  <2>2. retired' \subseteq Boot
    BY <1>1, <1>2, <1>3 DEF TypeOK
  <2> QED
    BY <1>1, <1>2, <2>1, <2>2 DEF TypeOK
<1>9. Frame /\ HoldsKept
  BY <1>1, <1>2 DEF Frame, HoldsKept, Holds
<1>10. OneBoot'
  BY <1>1, <1>5, <1>6 DEF IInv, OneBoot
<1>11. tasks \ {t} \subseteq tasks' /\ \A u \in tasks' : u \in tasks \/ TaskInv(u)'
  BY <1>6, <1>7
<1>12. /\ \A c \in Boot : ~(sock[c] = "open" /\ sock'[c] = "closed")
       /\ \A c \in Boot : c \in retired' /\ c \notin retired =>
            sock'[c] # "none" /\ \E u \in tasks' : At(u, "logout") /\ u.sock = c
  BY <1>1, <1>3, <1>5, <1>6 DEF At
<1> QED
  BY <1>1, <1>2, <1>8, <1>9, <1>10, <1>11, <1>12, OneStep

LEMMA DeleteEndInv ==
  ASSUME IInv, NEW t \in tasks, UNCHANGED scenario, DeleteEnd(t)
  PROVE  IInv'
<1>1. /\ t.pc = "logout" /\ sock' = Ended(t.sock)
      /\ entry' = [entry EXCEPT ![t.proc] = 0]
      /\ tasks' = Goto(t, "release")
      /\ UNCHANGED <<row, creds, up, retired, home, boots>>
  BY DEF DeleteEnd, At
<1>2. /\ TaskInv(t) /\ KindPc(t.kind, t.pc) /\ t \in Task /\ TypeOK
      /\ t.proc \in Proc /\ boots \in Nat
  BY Types DEF IInv, TypeOK, TaskInv, Task
<1>3. /\ t.kind = "delete" /\ t.sock \in 1 .. boots /\ t.sock \in Boot /\ t.sock # 0
      /\ home[t.sock] = t.proc /\ sock[t.sock] # "none" /\ t.proc \in up
  BY <1>1, <1>2, Types DEF TaskInv, KindPc, Closes, NeedsSocket, Starting
<1>4. /\ sock' \in [Boot -> {"none", "open", "closed"}] /\ sock'[t.sock] = "closed"
      /\ \A c \in Boot : c # t.sock => sock'[c] = sock[c]
      /\ \A c \in Boot : sock'[c] = sock[c] \/ (sock[c] = "open" /\ sock'[c] = "closed")
  BY <1>1, <1>2, <1>3, EndedIs
<1>5. /\ entry' \in [Proc -> 0 .. MaxBoots] /\ entry'[t.proc] = 0
      /\ \A q \in Proc : entry'[q] \in {0, entry[q]}
  BY <1>1, <1>2, DropIs
<1>6. PICK x : x = [t EXCEPT !.pc = "release"]
  OBVIOUS
<1>7. /\ x \in Task /\ x.kind = t.kind /\ x.proc = t.proc /\ x.sock = t.sock
      /\ x.pc = "release"
  <2>1. "release" \in Pcs
    BY DEF Pcs
  <2> QED
    BY <1>2, <1>6, <2>1, GotoIs
<1>8. tasks' = (tasks \ {t}) \cup {x}
  BY <1>1, <1>6 DEF Goto
<1>9. TaskInv(x)'
  BY <1>1, <1>2, <1>3, <1>4, <1>5, <1>7
  DEF TaskInv, KindPc, Handlers, Closes, NeedsSocket, Starting, AfterDrop
<1>10. TypeOK'
  <2>1. tasks' \subseteq Task
    BY <1>2, <1>7, <1>8 DEF TypeOK
  <2> QED
    BY <1>1, <1>2, <1>4, <1>5, <2>1 DEF TypeOK
<1>11. Frame /\ HoldsKept
  BY <1>1, <1>2, <1>4, <1>5 DEF Frame, HoldsKept, Holds
<1>12. OneBoot'
  BY <1>3, <1>7, <1>8 DEF IInv, OneBoot
<1>13. tasks \ {t} \subseteq tasks' /\ \A u \in tasks' : u \in tasks \/ TaskInv(u)'
  BY <1>8, <1>9
<1>14. \A c \in Boot : sock[c] = "open" /\ sock'[c] = "closed" => entry'[home[c]] # c
  BY <1>3, <1>4, <1>5
<1> QED
  BY <1>1, <1>5, <1>10, <1>11, <1>12, <1>13, <1>14, OneStep
----------------------------------------------------------------------------
(* Starting a socket. *)

LEMMA StartIs ==
  ASSUME TypeOK, NEW p \in Proc, NEW others, others \subseteq tasks,
         StartRuntime(p, others)
  PROVE  /\ boots' \in 0 .. MaxBoots /\ boots <= boots'
         /\ home' \in [Boot -> Proc \cup {NoProc}]
         /\ \A b \in 1 .. boots : home'[b] = home[b]
         /\ others \subseteq tasks'
         /\ \A u \in tasks' : u \in others \/
              /\ u \in Task /\ u.kind = "boot" /\ u.proc = p /\ u.pc = "find"
              /\ u.sock = boots + 1 /\ boots' = boots + 1 /\ home'[boots + 1] = p
              /\ Idle(p)
         /\ \A u, v \in tasks' : u \notin others /\ v \notin others => u = v
<1>t. boots \in 0 .. MaxBoots /\ home \in [Boot -> Proc \cup {NoProc}] /\ MaxBoots \in Nat
  BY DEF TypeOK
<1>1. CASE Idle(p)
  <2>1. /\ boots < MaxBoots /\ boots' = boots + 1
        /\ home' = [home EXCEPT ![boots + 1] = p]
        /\ tasks' = others \cup {NewTask("boot", p, boots + 1, FALSE, "find")}
    BY <1>1 DEF StartRuntime
  <2>2. boots + 1 \in Boot /\ boots + 1 \in 0 .. MaxBoots /\ 1 .. boots \subseteq Boot
        /\ boots + 1 \notin 1 .. boots
    BY <1>t, <2>1 DEF Boot
  <2>3. PICK x : x = NewTask("boot", p, boots + 1, FALSE, "find")
    OBVIOUS
  <2>4. x \in Task /\ x.kind = "boot" /\ x.proc = p /\ x.sock = boots + 1 /\ x.pc = "find"
    BY <2>2, <2>3 DEF NewTask, Task
  <2>5. /\ home' \in [Boot -> Proc \cup {NoProc}] /\ home'[boots + 1] = p
        /\ \A b \in 1 .. boots : home'[b] = home[b]
    BY <1>t, <2>1, <2>2
  <2>6. boots' \in 0 .. MaxBoots /\ boots <= boots'
    BY <1>t, <2>1, <2>2
  <2> QED
    BY <1>1, <2>1, <2>3, <2>4, <2>5, <2>6
<1>2. CASE ~Idle(p)
  <2>1. tasks' = others /\ UNCHANGED <<boots, home>>
    BY <1>2 DEF StartRuntime
  <2>2. boots <= boots'
    BY <1>t, <2>1
  <2> QED
    BY <1>t, <2>1, <2>2
<1> QED
  BY <1>1, <1>2

LEMMA StartInv ==
  ASSUME IInv, NEW p \in Proc, p \in up', up \subseteq up', up' \subseteq Proc,
         NEW others, others \subseteq tasks, StartRuntime(p, others),
         UNCHANGED <<sock, entry, retired, creds, scenario>>,
         row' \in RowSet, HoldsKept,
         \A u \in tasks : u \notin others => ~Dropping(u)
  PROVE  IInv'
<1>1. /\ boots' \in 0 .. MaxBoots /\ boots <= boots'
      /\ home' \in [Boot -> Proc \cup {NoProc}]
      /\ \A b \in 1 .. boots : home'[b] = home[b]
      /\ others \subseteq tasks'
      /\ \A u \in tasks' : u \in others \/
           /\ u \in Task /\ u.kind = "boot" /\ u.proc = p /\ u.pc = "find"
           /\ u.sock = boots + 1 /\ boots' = boots + 1 /\ home'[boots + 1] = p
           /\ Idle(p)
      /\ \A u, v \in tasks' : u \notin others /\ v \notin others => u = v
  BY StartIs DEF IInv
<1>2. TypeOK /\ OneBoot /\ boots \in Nat
  BY Types DEF IInv
<1>3. TypeOK'
  <2>1. tasks' \subseteq Task
    BY <1>1, <1>2 DEF TypeOK
  <2> QED
    BY <1>1, <1>2, <2>1 DEF TypeOK, RowSet
<1>4. Frame
  BY <1>1, <1>2 DEF Frame
<1>5. OneBoot'
  <2> SUFFICES ASSUME NEW t \in tasks', NEW u \in tasks',
                      t.kind = "boot", u.kind = "boot", t.proc = u.proc
               PROVE  t = u
    BY DEF OneBoot
  <2>1. CASE t \in others /\ u \in others
    BY <1>2, <2>1 DEF OneBoot
  <2>2. CASE t \notin others /\ u \notin others
    BY <1>1, <2>2
  <2>3. CASE t \in others /\ u \notin others
    BY <1>1, <2>3 DEF Idle, Pending
  <2>4. CASE t \notin others /\ u \in others
    BY <1>1, <2>4 DEF Idle, Pending
  <2> QED
    BY <2>1, <2>2, <2>3, <2>4
<1>6. ASSUME NEW u \in tasks', u \notin others PROVE TaskInv(u)'
  <2>1. /\ u.kind = "boot" /\ u.proc = p /\ u.pc = "find" /\ u.sock = boots + 1
        /\ boots' = boots + 1 /\ home'[boots + 1] = p /\ entry[p] = 0
    BY <1>1, <1>6 DEF Idle
  <2>2. boots + 1 \in 1 .. boots' /\ boots + 1 \in Boot /\ boots + 1 > boots
    BY <1>1, <1>2, <2>1 DEF Boot
  <2>3. sock[boots + 1] = "none"
    BY <2>2 DEF IInv, SocketInv
  <2> QED
    BY <2>1, <2>2, <2>3 DEF TaskInv, KindPc, Starting, AfterDrop, Closes
<1>7. /\ \A u \in tasks' : u \notin tasks => TaskInv(u)'
      /\ \A u \in tasks : u \notin tasks' /\ Dropping(u) => entry'[u.proc] = 0
  BY <1>1, <1>6
<1>8. /\ \A u \in tasks' : u.proc \in up'
      /\ \A q \in Proc : entry'[q] # 0 => q \in up'
  <2>1. \A u \in tasks : u.proc \in up
    BY DEF IInv, TaskInv
  <2>2. \A q \in Proc : entry[q] # 0 => q \in up
    BY DEF IInv, EntryInv
  <2> QED
    BY <1>1, <2>1, <2>2
<1>9. /\ \A b \in Boot : ~(sock[b] = "open" /\ sock'[b] = "closed")
      /\ \A b \in Boot : ~(b \in retired' /\ b \notin retired)
  OBVIOUS
<1> QED
  BY <1>3, <1>4, <1>5, <1>7, <1>8, <1>9, FrameInv

LEMMA StartSteps ==
  ASSUME IInv, UNCHANGED scenario,
         \/ \E t \in tasks : CloseRestart(t) \/ ReconnectRelease(t) \/ ReconnectNow(t)
         \/ \E p \in Proc : UseSocket(p) \/ Startup(p)
  PROVE  IInv'
<1>t. TypeOK /\ row \in RowSet /\ up \subseteq Proc
  BY Types DEF IInv, TypeOK
<1>h. row' = row => row' \in RowSet /\ HoldsKept
  BY <1>t DEF HoldsKept, Holds
<1>1. ASSUME NEW t \in tasks, CloseRestart(t) PROVE IInv'
  <2>1. /\ t.proc \in Proc /\ t.proc \in up /\ Done(t) \subseteq tasks
        /\ StartRuntime(t.proc, Done(t))
        /\ UNCHANGED <<row, entry, creds, up, retired, sock>>
        /\ \A u \in tasks : u \notin Done(t) => ~Dropping(u)
    BY <1>1 DEF CloseRestart, IInv, TypeOK, Task, TaskInv, Done, At, Dropping
  <2> QED
    BY <1>t, <1>h, <2>1, StartInv
<1>2. ASSUME NEW t \in tasks, ReconnectNow(t) PROVE IInv'
  <2>1. /\ t.proc \in Proc /\ t.proc \in up /\ Done(t) \subseteq tasks
        /\ StartRuntime(t.proc, Done(t))
        /\ UNCHANGED <<row, entry, creds, up, retired, sock>>
        /\ \A u \in tasks : u \notin Done(t) => ~Dropping(u)
    BY <1>2 DEF ReconnectNow, IInv, TypeOK, Task, TaskInv, Done, At, Dropping
  <2> QED
    BY <1>t, <1>h, <2>1, StartInv
<1>3. ASSUME NEW t \in tasks, ReconnectRelease(t) PROVE IInv'
  <2>1. /\ t.proc \in Proc /\ t.proc \in up /\ Done(t) \subseteq tasks
        /\ StartRuntime(t.proc, Done(t)) /\ row' = Released(t.sock)
        /\ UNCHANGED <<entry, creds, up, retired, sock>> /\ AfterDrop(t)
        /\ \A u \in tasks : u \notin Done(t) => ~Dropping(u)
    BY <1>3 DEF ReconnectRelease, IInv, TypeOK, Task, TaskInv, Done, At, Dropping, AfterDrop
  <2>2. /\ t.sock \in Boot
        /\ \A p \in Proc : entry[p] # t.sock
        /\ \A u \in tasks : u.pc \in {"status", "auth"} => u.sock # t.sock
    BY <2>1, Uncovered
  <2>3. \A u \in tasks' : u \in tasks \/ u.pc = "find"
    BY <1>t, <2>1, StartIs
  <2>4. ~Covered(t.sock)'
    BY <2>1, <2>2, <2>3 DEF Covered
  <2>5. HoldsKept
    BY <2>1, <2>2, <2>4, ReleaseHolds
  <2>6. row' \in RowSet
    BY <1>t, <2>1, <2>2, RowTypes DEF Boot
  <2> QED
    BY <1>t, <2>1, <2>5, <2>6, StartInv
<1>4. ASSUME NEW p \in Proc, UseSocket(p) PROVE IInv'
  BY <1>t, <1>h, <1>4, StartInv DEF UseSocket
<1>5. ASSUME NEW p \in Proc, Startup(p) PROVE IInv'
  <2>1. /\ up' = up \cup {p} /\ up \subseteq up' /\ up' \subseteq Proc /\ p \in up'
        /\ UNCHANGED <<row, entry, creds, retired, sock>>
    BY <1>t, <1>5 DEF Startup
  <2>2. CASE StartRuntime(p, tasks)
    BY <1>h, <2>1, <2>2, StartInv
  <2>3. CASE UNCHANGED <<tasks, boots, home>>
    <3>1. TypeOK' /\ Frame /\ OneBoot'
      <4>1. boots <= boots'
        BY <1>t, <2>3, Types
      <4> QED
        BY <1>t, <2>1, <2>3, <4>1 DEF TypeOK, Frame, OneBoot, IInv
    <3>2. /\ \A u \in tasks' : u.proc \in up'
          /\ \A q \in Proc : entry'[q] # 0 => q \in up'
      BY <2>1, <2>3 DEF IInv, TaskInv, EntryInv
    <3> QED
      BY <1>h, <2>1, <2>3, <3>1, <3>2, FrameInv
  <2> QED
    BY <1>5, <2>2, <2>3 DEF Startup
<1> QED
  BY <1>1, <1>2, <1>3, <1>4, <1>5
(* The lease of another start or entry of the same process would be         *)
(* replaced: there is none.                                                 *)
LEMMA AcquireHolds ==
  ASSUME IInv, NEW t \in tasks, At(t, "acquire"), MayAcquire(t.proc),
         UNCHANGED <<entry, scenario>>,
         row' = [row EXCEPT !.lease = t.sock, !.owner = t.proc, !.live = TRUE],
         \A u \in tasks' : u \in tasks \ {t} \/ u.sock = t.sock
  PROVE  Holds(t.sock, t.proc)' /\ HoldsKept
<1>1. /\ TaskInv(t) /\ t.kind = "boot" /\ Starting(t) /\ OneBoot /\ row \in RowSet
      /\ t \in Task /\ t.proc \in Proc
  BY Types DEF IInv, TaskInv, KindPc, At, Closes, Starting, TypeOK, Task
<1>2. row'.lease = t.sock /\ row'.owner = t.proc /\ row'.live
  BY <1>1 DEF RowSet
<1>3. Holds(t.sock, t.proc)'
  BY <1>2 DEF Holds
<1>4. ASSUME ~MayLapse, NEW b \in Boot, NEW p \in Proc, Holds(b, p), Covered(b)'
      PROVE  Holds(b, p)'
  <2>1. row.lease = b /\ row.owner = p /\ b # 0 /\ p = t.proc
    BY <1>4, Types DEF Holds, MayAcquire, IInv
  <2>2. \A q \in Proc : entry[q] # b
    <3> SUFFICES ASSUME NEW q \in Proc, entry[q] = b PROVE FALSE
      OBVIOUS
    <3>1. Holds(b, q)
      BY <1>4, <2>1 DEF IInv, EntryInv
    <3>2. q = t.proc
      BY <2>1, <3>1 DEF Holds
    <3> QED
      BY <1>1, <2>1, <3>2 DEF TaskInv
  <2>3. PICK u \in tasks' : u.pc \in {"status", "auth"} /\ u.sock = b
    BY <1>4, <2>2 DEF Covered
  <2>4. u \notin tasks \ {t}
    <3> SUFFICES ASSUME u \in tasks, u # t PROVE FALSE
      OBVIOUS
    <3>1. Holds(b, u.proc) /\ u.kind = "boot"
      BY <1>4, <2>3 DEF IInv, TaskInv, KindPc, Closes
    <3>2. u.proc = t.proc
      BY <2>1, <3>1 DEF Holds
    <3> QED
      BY <1>1, <3>1, <3>2 DEF OneBoot
  <2> QED
    BY <1>3, <2>1, <2>3, <2>4
<1> QED
  BY <1>3, <1>4 DEF HoldsKept

LEMMA BootAcquireInv ==
  ASSUME IInv, NEW t \in tasks, UNCHANGED scenario, BootAcquire(t)
  PROVE  IInv'
<1>1. /\ t.pc = "acquire" /\ UNCHANGED <<entry, boots, creds, up, retired, sock, home>>
  BY DEF BootAcquire, At, system
<1>2. /\ TaskInv(t) /\ t.kind = "boot" /\ Starting(t) /\ OneBoot /\ row \in RowSet
      /\ t \in Task /\ t.proc \in Proc /\ TypeOK /\ ~Dropping(t) /\ t.sock \in 0 .. MaxBoots
  BY <1>1, Types DEF IInv, TaskInv, KindPc, Closes, Starting, TypeOK, Task, Dropping
<1>3. CASE MayAcquire(t.proc)
  <2> PICK x : x = [t EXCEPT !.pc = "status"]
    OBVIOUS
  <2>1. x \in Task /\ x.kind = t.kind /\ x.proc = t.proc /\ x.sock = t.sock /\ x.pc = "status"
    <3>1. "status" \in Pcs
      BY DEF Pcs
    <3> QED
      BY <1>2, <3>1, GotoIs
  <2>2. /\ row' = [row EXCEPT !.lease = t.sock, !.owner = t.proc, !.live = TRUE]
        /\ tasks' = (tasks \ {t}) \cup {x}
    BY <1>3 DEF BootAcquire, Goto
  <2>3. TypeOK'
    <3>1. row' \in RowSet
      BY <1>2, <2>2 DEF RowSet
    <3>2. tasks' \subseteq Task
      BY <1>2, <2>1, <2>2 DEF TypeOK
    <3> QED
      BY <1>1, <1>2, <3>1, <3>2 DEF TypeOK, RowSet
  <2>4. Holds(t.sock, t.proc)' /\ HoldsKept
    <3>1. \A u \in tasks' : u \in tasks \ {t} \/ u.sock = t.sock
      BY <2>1, <2>2
    <3> QED
      BY <1>1, <1>3, <2>2, <3>1, AcquireHolds DEF At
  <2>5. Frame
    <3>1. boots <= boots'
      BY <1>1, <1>2, Types
    <3> QED
      BY <1>1, <3>1 DEF Frame
  <2>6. OneBoot'
    <3>1. \A u \in tasks' : u \notin tasks \ {t} /\ u.kind = "boot" =>
            u = x /\ x.proc = t.proc /\ t.kind = "boot"
      BY <1>2, <2>1, <2>2
    <3> QED
      BY <1>2, <3>1, OneBootKept
  <2>7. TaskInv(x)'
    BY <1>1, <1>2, <2>1, <2>4
    DEF TaskInv, KindPc, Handlers, Closes, NeedsSocket, Starting, AfterDrop
  <2>8. tasks \ {t} \subseteq tasks' /\ \A u \in tasks' : u \in tasks \/ TaskInv(u)'
    BY <2>2, <2>7
  <2> QED
    BY <1>1, <1>2, <2>3, <2>4, <2>5, <2>6, <2>8, OneStep
<1>4. CASE ~MayAcquire(t.proc)
  <2>1. tasks' = Done(t) /\ UNCHANGED row
    BY <1>4 DEF BootAcquire
  <2>2. "find" \in Pcs /\ creds' \in BOOLEAN
    BY <1>1, <1>2 DEF Pcs, TypeOK
  <2> QED
    BY <1>1, <1>2, <2>1, <2>2, LocalStep
<1> QED
  BY <1>3, <1>4
(* The socket enters the map: no handler knows it before, and no other      *)
(* start of the process waits.                                              *)
LEMMA BootSocketInv ==
  ASSUME IInv, NEW t \in tasks, UNCHANGED scenario, BootSocket(t)
  PROVE  IInv'
<1> PICK s, p : s = t.sock /\ p = t.proc
  OBVIOUS
<1> PICK x : x = [t EXCEPT !.pc = "wait"]
  OBVIOUS
<1>1. /\ t.pc = "auth" /\ creds' = TRUE
      /\ sock' = [sock EXCEPT ![s] = "open"]
      /\ entry' = [entry EXCEPT ![p] = s]
      /\ tasks' = (tasks \ {t}) \cup {x}
      /\ UNCHANGED <<row, up, retired, home, boots>>
  BY DEF BootSocket, At, Goto
<1>2. /\ TaskInv(t) /\ t.kind = "boot" /\ Starting(t) /\ OneBoot /\ t \in Task
      /\ p \in Proc /\ TypeOK /\ boots \in Nat
  BY <1>1, Types DEF IInv, TaskInv, KindPc, Closes, Starting, TypeOK, Task
<1>3. /\ s \in Boot /\ s \in 1 .. boots /\ s # 0 /\ s \in 0 .. MaxBoots /\ home[s] = p
      /\ sock[s] = "none" /\ entry[p] = 0 /\ p \in up /\ s \notin retired
      /\ ~MayLapse => Holds(s, p)
  <2>1. s # 0 /\ s \in 1 .. boots /\ home[s] = p
    BY <1>2 DEF TaskInv, NeedsSocket
  <2>2. s \in Boot /\ s \in 0 .. MaxBoots
    BY <1>2, <2>1, Types DEF Boot
  <2>3. sock[s] = "none" /\ entry[p] = 0 /\ p \in up /\ (~MayLapse => Holds(s, p))
    BY <1>1, <1>2 DEF TaskInv
  <2> QED
    BY <2>1, <2>2, <2>3 DEF IInv, SocketInv
<1>4. x \in Task /\ x.kind = t.kind /\ x.proc = p /\ x.sock = s /\ x.pc = "wait"
  <2>1. "wait" \in Pcs
    BY DEF Pcs
  <2> QED
    BY <1>2, <2>1, GotoIs
<1>5. /\ sock' \in [Boot -> {"none", "open", "closed"}] /\ sock'[s] = "open"
      /\ \A b \in Boot : b # s => sock'[b] = sock[b]
      /\ entry' \in [Proc -> 0 .. MaxBoots] /\ entry'[p] = s
      /\ \A q \in Proc : q # p => entry'[q] = entry[q]
  BY <1>1, <1>2, <1>3 DEF TypeOK
<1>6. TypeOK'
  <2>1. tasks' \subseteq Task
    BY <1>1, <1>2, <1>4 DEF TypeOK
  <2> QED
    BY <1>1, <1>2, <1>5, <2>1 DEF TypeOK
<1>7. OneBoot'
  <2>1. \A u \in tasks' : u \notin tasks \ {t} /\ u.kind = "boot" =>
          u = x /\ x.proc = t.proc /\ t.kind = "boot"
    BY <1>1, <1>2, <1>4
  <2> QED
    BY <1>2, <2>1, OneBootKept
<1>8. ASSUME NEW u \in tasks, u # t PROVE TaskInv(u)'
  <2>1. TaskInv(u) /\ u \in Task /\ u.proc \in Proc /\ u.sock \in 0 .. MaxBoots
    BY <1>2 DEF IInv, TypeOK, Task
  <2>2. u.sock # 0 => u.sock \in Boot
    BY <2>1, <1>2, Types DEF TaskInv
  <2>3. u.kind = "boot" => u.proc # p
    BY <1>2, <1>8 DEF OneBoot
  <2>4. u.sock # s
    BY <1>3, <2>1, <2>3 DEF TaskInv, Starting
  <2>5. u.sock # 0 => sock'[u.sock] = sock[u.sock]
    BY <1>5, <2>2, <2>4
  <2>6. Starting(u) => u.sock # 0 /\ entry'[u.proc] = entry[u.proc]
    BY <1>5, <2>1, <2>3 DEF Starting, TaskInv, NeedsSocket
  <2>7. u.kind \in Closes \/ AfterDrop(u) => u.sock # 0
    BY <2>1 DEF TaskInv, NeedsSocket, AfterDrop, KindPc, Handlers, Closes
  <2>8. AfterDrop(u) => entry'[u.proc] # u.sock
    BY <1>5, <2>1, <2>4 DEF TaskInv
  <2>9. ~MayLapse' /\ u.pc \in {"status", "auth"} => Holds(u.sock, u.proc)'
    BY <1>1, <2>1 DEF TaskInv, Holds, MayLapse
  <2>10. Starting(u) => sock'[u.sock] = "none" /\ entry'[u.proc] = 0
    BY <2>1, <2>5, <2>6 DEF TaskInv
  <2>11. ~Starting(u) /\ u.sock # 0 => sock'[u.sock] # "none"
    BY <2>1, <2>5 DEF TaskInv
  <2>12. u.kind \in Closes \/ AfterDrop(u) => sock'[u.sock] = "closed"
    BY <2>1, <2>5, <2>7 DEF TaskInv
  <2> QED
    BY <1>1, <2>1, <2>8, <2>9, <2>10, <2>11, <2>12
    DEF TaskInv, Starting, AfterDrop, NeedsSocket
<1>9. TaskInv(x)'
  BY <1>1, <1>2, <1>3, <1>4, <1>5
  DEF TaskInv, KindPc, Handlers, Closes, NeedsSocket, Starting, AfterDrop
<1>10. ASSUME NEW q \in Proc PROVE EntryInv(q)'
  <2>1. CASE q = p
    BY <1>1, <1>3, <1>5, <2>1 DEF EntryInv, Holds, MayLapse
  <2>2. CASE q # p
    <3>1. EntryInv(q) /\ entry'[q] = entry[q]
      BY <1>5, <2>2 DEF IInv
    <3>2. entry[q] # 0 => entry[q] \in Boot /\ entry[q] # s /\ sock'[entry[q]] = sock[entry[q]]
      BY <1>2, <1>3, <1>5, <3>1, Types DEF EntryInv
    <3>3. \A u \in tasks : Dropping(u) => u \in tasks'
      BY <1>1, <1>2 DEF Dropping, Closes
    <3>4. \A u \in tasks : At(u, "logout") => u \in tasks'
      BY <1>1 DEF At
    <3>5. entry[q] \in retired /\ entry[q] # 0 =>
            \E u \in tasks' : At(u, "logout") /\ u.sock = entry[q]
      BY <3>1, <3>4 DEF EntryInv
    <3>6. entry[q] # 0 /\ sock[entry[q]] = "closed" =>
            \E u \in tasks' : Dropping(u) /\ u.sock = entry[q]
      BY <3>1, <3>3 DEF EntryInv
    <3> QED
      BY <1>1, <3>1, <3>2, <3>5, <3>6 DEF EntryInv, Holds, MayLapse, At, Dropping
  <2> QED
    BY <2>1, <2>2
<1>11. ASSUME NEW b \in Boot PROVE SocketInv(b)'
  <2>1. SocketInv(b)
    BY DEF IInv
  <2>2. CASE b = s
    BY <1>1, <1>2, <1>3, <1>5, <2>2, Types DEF SocketInv
  <2>3. CASE b # s
    BY <1>1, <1>5, <2>1, <2>3 DEF SocketInv
  <2> QED
    BY <2>2, <2>3
<1>12. \A u \in tasks' : TaskInv(u)'
  BY <1>1, <1>8, <1>9
<1> QED
  BY <1>6, <1>7, <1>10, <1>11, <1>12 DEF IInv

----------------------------------------------------------------------------
(* New handlers: the renewal timer, a request, an event of the socket. *)

LEMMA OwnersUp ==
  ASSUME IInv
  PROVE  (\A u \in tasks : u.proc \in up) /\ \A q \in Proc : entry[q] # 0 => q \in up
<1>1. \A u \in tasks : u.proc \in up
  BY DEF IInv, TaskInv
<1>2. \A q \in Proc : entry[q] # 0 => q \in up
  BY DEF IInv, EntryInv
<1> QED
  BY <1>1, <1>2

LEMMA RenewSendInv ==
  ASSUME IInv, NEW p \in Proc, UNCHANGED scenario, RenewSend(p)
  PROVE  IInv'
<1> PICK x : x = NewTask("renew", p, entry[p], FALSE, "sent")
  OBVIOUS
<1>1. /\ p \in up /\ entry[p] # 0 /\ tasks' = tasks \cup {x}
      /\ UNCHANGED <<row, entry, boots, creds, up, retired, sock, home>>
  BY DEF RenewSend, system
<1>2. TypeOK /\ EntryInv(p) /\ entry[p] \in 0 .. MaxBoots /\ OneBoot
  BY DEF IInv, TypeOK
<1>3. /\ x \in Task /\ x.kind = "renew" /\ x.proc = p /\ x.sock = entry[p]
      /\ x.pc = "sent"
  BY <1>2 DEF NewTask, Task
<1>4. TypeOK'
  BY <1>1, <1>2, <1>3 DEF TypeOK
<1>5. TaskInv(x)'
  BY <1>1, <1>2, <1>3
  DEF TaskInv, EntryInv, KindPc, Handlers, Closes, NeedsSocket, Starting, AfterDrop
<1>6. OneBoot' /\ Frame /\ HoldsKept
  <2>1. boots <= boots'
    BY <1>1, <1>2, Types
  <2> QED
    BY <1>1, <1>2, <1>3, <2>1 DEF OneBoot, Frame, HoldsKept, Holds
<1>7. /\ \A u \in tasks' : u.proc \in up'
      /\ \A q \in Proc : entry'[q] # 0 => q \in up'
  BY <1>1, <1>3, OwnersUp
<1> QED
  BY <1>1, <1>4, <1>5, <1>6, <1>7, FrameInv

LEMMA RequestInv ==
  ASSUME IInv, NEW p \in Proc, NEW kind \in {"reconnect", "delete"},
         UNCHANGED scenario, Request(p, kind)
  PROVE  IInv'
<1> PICK x : x = NewTask(kind, p, 0, FALSE, "find")
  OBVIOUS
<1>1. /\ p \in up /\ tasks' = tasks \cup {x}
      /\ UNCHANGED <<row, entry, boots, creds, up, retired, sock, home>>
  BY DEF Request, system
<1>2. TypeOK /\ 0 \in 0 .. MaxBoots /\ OneBoot
  BY DEF IInv
<1>3. x \in Task /\ x.kind = kind /\ x.proc = p /\ x.sock = 0 /\ x.pc = "find"
  BY <1>2 DEF NewTask, Task
<1>4. TypeOK'
  BY <1>1, <1>2, <1>3 DEF TypeOK
<1>5. TaskInv(x)'
  BY <1>1, <1>2, <1>3
  DEF TaskInv, KindPc, Handlers, Closes, NeedsSocket, Starting, AfterDrop
<1>6. OneBoot' /\ Frame /\ HoldsKept
  <2>1. boots <= boots'
    BY <1>1, <1>2, Types
  <2> QED
    BY <1>1, <1>2, <1>3, <2>1 DEF OneBoot, Frame, HoldsKept, Holds
<1>7. /\ \A u \in tasks' : u.proc \in up'
      /\ \A q \in Proc : entry'[q] # 0 => q \in up'
  BY <1>1, <1>3, OwnersUp
<1> QED
  BY <1>1, <1>4, <1>5, <1>6, <1>7, FrameInv

(* A socket that closes while it is in the map is heard, unless it was      *)
(* retired, and then a deletion is about to drop it.                        *)
LEMMA EventInv ==
  ASSUME IInv, NEW b \in Boot, NEW kind \in Handlers, UNCHANGED scenario, Event(b, kind)
  PROVE  IInv'
<1>1. /\ sock[b] = "open" /\ home[b] \in up
      /\ sock' = IF kind \in Closes THEN Ended(b) ELSE sock
      /\ tasks' = tasks \cup Handler(kind, b)
      /\ UNCHANGED <<row, creds, up, entry, retired, home, boots>>
  BY DEF Event, Closes
<1>2. TypeOK /\ OneBoot /\ home[b] \in Proc /\ boots \in Nat
  BY <1>1, Types DEF IInv, TypeOK
<1>3. b \in 1 .. boots /\ b # 0
  BY <1>1, <1>2, Types DEF IInv, SocketInv, Boot
<1>4. /\ sock' \in [Boot -> {"none", "open", "closed"}] /\ sock'[b] # "none"
      /\ kind \in Closes => sock'[b] = "closed"
      /\ \A c \in Boot : c # b => sock'[c] = sock[c]
      /\ \A c \in Boot : sock'[c] = sock[c] \/ (sock[c] = "open" /\ sock'[c] = "closed")
      /\ sock'[b] = "closed" => kind \in Closes
  <2>1. CASE kind \in Closes
    <3>1. sock' = Ended(b) /\ sock[b] # "none"
      BY <1>1, <2>1
    <3> QED
      BY <1>2, <2>1, <3>1, EndedIs
  <2>2. CASE kind \notin Closes
    BY <1>1, <1>2, <2>2 DEF TypeOK
  <2> QED
    BY <2>1, <2>2
<1>5. ASSUME NEW x \in Handler(kind, b)
      PROVE  /\ x \in Task /\ x.kind = kind /\ x.proc = home[b] /\ x.sock = b
             /\ x.pc = "check"
  BY <1>2, HandlerIs
<1>6. TypeOK'
  <2>1. tasks' \subseteq Task
    BY <1>1, <1>2, <1>5 DEF TypeOK
  <2> QED
    BY <1>1, <1>2, <1>4, <2>1 DEF TypeOK
<1>7. ASSUME NEW x \in Handler(kind, b) PROVE TaskInv(x)'
  BY <1>1, <1>2, <1>3, <1>4, <1>5
  DEF TaskInv, KindPc, Handlers, Closes, NeedsSocket, Starting, AfterDrop
<1>8. OneBoot' /\ Frame /\ HoldsKept
  <2>1. boots <= boots' /\ kind # "boot"
    BY <1>1, <1>2, Types DEF Handlers
  <2> QED
    BY <1>1, <1>2, <1>4, <1>5, <2>1 DEF OneBoot, Frame, HoldsKept, Holds
<1>9. /\ \A u \in tasks' : u.proc \in up'
      /\ \A q \in Proc : entry'[q] # 0 => q \in up'
      /\ \A u \in tasks' : u \notin tasks => TaskInv(u)'
      /\ \A u \in tasks : u \in tasks'
  BY <1>1, <1>5, <1>7 DEF IInv, TaskInv, EntryInv
<1>10. ASSUME NEW c \in Boot, sock[c] = "open", sock'[c] = "closed", entry'[home[c]] = c
       PROVE  \E u \in tasks' : Dropping(u) /\ u.sock = c
  <2>1. c = b /\ kind \in Closes /\ entry[home[b]] = b
    BY <1>1, <1>4, <1>10
  <2>2. CASE b \in retired
    <3>1. EntryInv(home[b])
      BY <1>2 DEF IInv
    <3>2. PICK u \in tasks : At(u, "logout") /\ u.sock = b
      BY <1>3, <2>1, <2>2, <3>1 DEF EntryInv
    <3> QED
      BY <1>9, <2>1, <3>2 DEF Dropping, At
  <2>3. CASE b \notin retired
    <3>1. PICK x : x \in Handler(kind, b)
      BY <2>1, <2>3 DEF Handler, Heard
    <3>2. x \in tasks' /\ Dropping(x) /\ x.sock = b
      BY <1>1, <1>5, <2>1, <3>1 DEF Dropping
    <3> QED
      BY <2>1, <3>2
  <2> QED
    BY <2>2, <2>3
<1> QED
  BY <1>1, <1>6, <1>8, <1>9, <1>10, FrameInv
----------------------------------------------------------------------------
(* Processes and time. *)

LEMMA StoppedInv ==
  ASSUME IInv, NEW p \in Proc, UNCHANGED scenario, Crash(p) \/ Shutdown(p)
  PROVE  IInv'
<1> PICK b : b = entry[p]
  OBVIOUS
<1>1. /\ up' = up \ {p}
      /\ entry' = [entry EXCEPT ![p] = 0]
      /\ sock' = [c \in Boot |->
                    IF home[c] = p /\ sock[c] = "open" THEN "closed" ELSE sock[c]]
      /\ tasks' = {t \in tasks : t.proc # p}
      /\ UNCHANGED <<creds, home, boots>>
  BY DEF Crash, Shutdown, Stopped
<1>2. \/ UNCHANGED <<row, retired>>
      \/ row' = Released(b) /\ retired' = retired \cup ({b} \ {0})
  BY DEF Crash, Shutdown
<1>3. /\ TypeOK /\ OneBoot /\ boots \in Nat /\ EntryInv(p) /\ b \in 0 .. MaxBoots
      /\ row \in RowSet
  BY Types DEF IInv, TypeOK
<1>4. b # 0 => b \in Boot /\ home[b] = p /\ sock[b] # "none"
  BY <1>3, Types DEF EntryInv
<1>5. /\ entry' \in [Proc -> 0 .. MaxBoots] /\ entry'[p] = 0
      /\ \A q \in Proc : entry'[q] \in {0, entry[q]}
  BY <1>1, <1>3, DropIs
<1>6. /\ sock' \in [Boot -> {"none", "open", "closed"}]
      /\ \A c \in Boot : \/ sock'[c] = sock[c]
                         \/ sock[c] = "open" /\ sock'[c] = "closed" /\ home[c] = p
  BY <1>1, <1>3 DEF TypeOK
<1>7. TypeOK'
  <2>1. row' \in RowSet
    BY <1>2, <1>3, RowTypes
  <2>2. retired' \subseteq Boot /\ up' \subseteq Proc /\ tasks' \subseteq Task
    BY <1>1, <1>2, <1>3, <1>4 DEF TypeOK
  <2> QED
    BY <1>1, <1>3, <1>5, <1>6, <2>1, <2>2 DEF TypeOK, RowSet
<1>8. Frame
  <2>1. boots <= boots'
    BY <1>1, <1>3
  <2> QED
    BY <1>1, <1>5, <1>6, <2>1 DEF Frame
<1>9. HoldsKept
  <2>1. CASE UNCHANGED row
    BY <2>1 DEF HoldsKept, Holds
  <2>2. CASE row' = Released(b) /\ b # 0
    <3>1. ASSUME NEW q \in Proc, entry'[q] = b PROVE FALSE
      <4>1. entry[q] = b /\ q # p
        BY <1>5, <2>2, <3>1
      <4>2. EntryInv(q)
        BY DEF IInv
      <4> QED
        BY <1>4, <2>2, <4>1, <4>2 DEF EntryInv
    <3>2. ASSUME NEW u \in tasks', u.pc \in {"status", "auth"}, u.sock = b PROVE FALSE
      <4>1. TaskInv(u)
        BY <1>1 DEF IInv
      <4>2. Starting(u)
        BY <3>2, <4>1 DEF TaskInv, KindPc, Closes, Starting
      <4> QED
        BY <1>4, <2>2, <3>2, <4>1, <4>2 DEF TaskInv
    <3>3. ~Covered(b)'
      BY <3>1, <3>2 DEF Covered
    <3> QED
      BY <1>4, <2>2, <3>3, ReleaseHolds
  <2>3. CASE row' = Released(b) /\ b = 0
    BY <2>1, <2>3 DEF Released
  <2> QED
    BY <1>2, <2>1, <2>2, <2>3
<1>10. /\ OneBoot'
       /\ \A t \in tasks' : t \in tasks
       /\ \A t \in tasks' : t.proc \in up'
       /\ \A q \in Proc : entry'[q] # 0 => q \in up'
       /\ \A t \in tasks : t \notin tasks' /\ Dropping(t) => entry'[t.proc] = 0
  BY <1>1, <1>3, <1>5, OwnersUp DEF OneBoot
<1>11. /\ \A c \in Boot : sock[c] = "open" /\ sock'[c] = "closed" => entry'[home[c]] # c
       /\ \A c \in Boot : c \in retired' /\ c \notin retired =>
            sock'[c] # "none" /\ entry'[home[c]] # c
  <2>1. \A c \in Boot : c # 0
    BY <1>3, Types
  <2>2. \A c \in Boot : c \in retired' /\ c \notin retired => c = b
    BY <1>2
  <2> QED
    BY <1>4, <1>5, <1>6, <2>1, <2>2
<1> QED
  BY <1>7, <1>8, <1>9, <1>10, <1>11, FrameInv

(* Without "lapse", only the lease of a process that is down runs out, and  *)
(* neither an entry nor a start holds it.                                   *)
LEMMA LapseInv ==
  ASSUME IInv, UNCHANGED scenario, Lapse
  PROVE  IInv'
<1>1. /\ MayLapse \/ row.owner \notin up
      /\ row' = [row EXCEPT !.live = FALSE]
      /\ UNCHANGED <<entry, boots, tasks, creds, up, retired, sock, home>>
  BY DEF Lapse, MayLapse, system
<1>2. TypeOK /\ OneBoot /\ boots \in Nat /\ row \in RowSet
  BY Types DEF IInv
<1>3. TypeOK'
  <2>1. row' \in RowSet
    BY <1>1, <1>2, RowTypes
  <2> QED
    BY <1>1, <1>2, <2>1 DEF TypeOK, RowSet
<1>4. Frame
  <2>1. boots <= boots'
    BY <1>1, <1>2
  <2> QED
    BY <1>1, <2>1 DEF Frame
<1>5. HoldsKept
  <2> SUFFICES ASSUME ~MayLapse, NEW b \in Boot, NEW p \in Proc,
                      Holds(b, p), Covered(b)'
               PROVE  FALSE
    BY DEF HoldsKept
  <2>1. b # 0 /\ row.owner = p /\ p \notin up
    BY <1>1, <1>2, Types DEF Holds
  <2>2. ASSUME NEW q \in Proc, entry[q] = b PROVE FALSE
    BY <2>1, <2>2 DEF IInv, EntryInv, Holds
  <2>3. ASSUME NEW u \in tasks, u.pc \in {"status", "auth"}, u.sock = b PROVE FALSE
    BY <2>1, <2>3 DEF IInv, TaskInv, Holds
  <2> QED
    BY <1>1, <2>2, <2>3 DEF Covered
<1>6. /\ OneBoot'
      /\ \A u \in tasks' : u.proc \in up'
      /\ \A q \in Proc : entry'[q] # 0 => q \in up'
  BY <1>1, <1>2, OwnersUp DEF OneBoot
<1> QED
  BY <1>1, <1>3, <1>4, <1>5, <1>6, FrameInv

----------------------------------------------------------------------------
(* The invariant. *)

LEMMA InitInv == Init => IInv
<1> SUFFICES ASSUME Init PROVE IInv
  OBVIOUS
<1>1. PICK p \in Creator :
        /\ row = [status |-> "CONNECTING", deleted |-> FALSE, lease |-> 0,
                  owner |-> NoProc, live |-> FALSE]
        /\ creds = FALSE /\ up = Proc /\ entry = [q \in Proc |-> 0] /\ retired = {}
        /\ sock = [b \in Boot |-> "none"]
        /\ home = [b \in Boot |-> IF b = 1 THEN p ELSE NoProc]
        /\ boots = 1 /\ tasks = {NewTask("boot", p, 1, FALSE, "find")}
        /\ scenario \in Scenarios
  BY DEF Init
<1>2. p \in Proc /\ 1 \in Boot /\ 1 \in 0 .. MaxBoots /\ 0 \in 0 .. MaxBoots
  BY DEF Boot
<1>3. PICK x : x = NewTask("boot", p, 1, FALSE, "find")
  OBVIOUS
<1>4. x \in Task /\ x.kind = "boot" /\ x.proc = p /\ x.sock = 1 /\ x.pc = "find"
  BY <1>2, <1>3 DEF NewTask, Task
<1>5. tasks = {x}
  BY <1>1, <1>3
<1>6. TypeOK
  <2>1. row \in RowSet
    BY <1>1, <1>2 DEF RowSet, Active
  <2> QED
    BY <1>1, <1>2, <1>4, <1>5, <2>1 DEF TypeOK, RowSet
<1>7. TaskInv(x)
  BY <1>1, <1>2, <1>4 DEF TaskInv, KindPc, Starting, AfterDrop, Closes
<1>8. (\A q \in Proc : EntryInv(q)) /\ (\A b \in Boot : SocketInv(b)) /\ OneBoot
  BY <1>1, <1>5 DEF EntryInv, SocketInv, OneBoot
<1> QED
  BY <1>5, <1>6, <1>7, <1>8 DEF IInv

LEMMA StepInv == IInv /\ [Next]_vars => IInv'
<1> SUFFICES ASSUME IInv, [Next]_vars PROVE IInv'
  OBVIOUS
<1>1. CASE UNCHANGED vars
  BY <1>1
  DEF vars, IInv, TypeOK, TaskInv, EntryInv, SocketInv, OneBoot, Holds, MayLapse, At
<1>2. CASE Next
  <2>u. UNCHANGED scenario
    BY <1>2 DEF Next
  <2>1. ASSUME NEW t \in tasks, TaskStep(t) PROVE IInv'
    <3>1. CASE \/ BootFind(t) \/ BootStatus(t) \/ BootFails(t) \/ BootReturns(t)
               \/ QrOrOpenCheck(t) \/ OpenRecheck(t) \/ QrOrOpenWrite(t)
               \/ CloseRecheck(t) \/ CloseStatus(t) \/ CloseClear(t)
               \/ RenewAnswer(t) \/ RenewError(t) \/ NotFound(t)
               \/ DeleteClear(t) \/ DeleteMark(t)
      BY <2>u, <3>1, LocalSteps
    <3>2. CASE BootUndo(t) \/ HandlerRelease(t) \/ CloseRelease(t) \/ DeleteRelease(t)
      BY <2>u, <3>2, ReleaseSteps
    <3>3. CASE CloseRestart(t) \/ ReconnectRelease(t) \/ ReconnectNow(t)
      BY <2>u, <3>3, StartSteps
    <3>4. CASE BootAcquire(t)
      BY <2>u, <3>4, BootAcquireInv
    <3>5. CASE BootSocket(t)
      BY <2>u, <3>5, BootSocketInv
    <3>6. CASE UpdateOfDeleted(t)
      BY <2>u, <3>6, UpdateOfDeletedInv
    <3>7. CASE CloseCheck(t)
      BY <2>u, <3>7, CloseCheckInv
    <3>8. CASE RenewLost(t)
      BY <2>u, <3>8, RenewLostInv
    <3>9. CASE ReconnectEnd(t)
      BY <2>u, <3>9, ReconnectEndInv
    <3>10. CASE DeleteFind(t)
      BY <2>u, <3>10, DeleteFindInv
    <3>11. CASE DeleteEnd(t)
      BY <2>u, <3>11, DeleteEndInv
    <3> QED
      BY <2>1, <3>1, <3>2, <3>3, <3>4, <3>5, <3>6, <3>7, <3>8, <3>9, <3>10, <3>11
      DEF TaskStep, BootStep, HandlerStep, RenewStep, RequestStep
  <2>2. ASSUME NEW p \in Proc, RenewSend(p) PROVE IInv'
    BY <2>u, <2>2, RenewSendInv
  <2>3. ASSUME NEW b \in Boot, NEW kind \in {"qr", "open", "close", "loggedOut"},
               Event(b, kind)
        PROVE  IInv'
    BY <2>u, <2>3, EventInv DEF Handlers
  <2>4. ASSUME NEW p \in Proc, NEW kind \in {"reconnect", "delete"}, Request(p, kind)
        PROVE  IInv'
    BY <2>u, <2>4, RequestInv
  <2>5. ASSUME NEW p \in Proc, UseSocket(p) \/ Startup(p) PROVE IInv'
    BY <2>u, <2>5, StartSteps
  <2>6. ASSUME NEW p \in Proc, Crash(p) \/ Shutdown(p) PROVE IInv'
    BY <2>u, <2>6, StoppedInv
  <2>7. CASE Lapse
    BY <2>u, <2>7, LapseInv
  <2> QED
    BY <1>2, <2>1, <2>2, <2>3, <2>4, <2>5, <2>6, <2>7 DEF Next, Environment
<1> QED
  BY <1>1, <1>2

(* Every handler is suspended where its kind can be, with a socket of its   *)
(* own process in the state that await leaves it in; every entry is that of *)
(* a running process, is not dead without a handler to drop it and, where   *)
(* no lease lapses, holds the lease.                                        *)
THEOREM Invariance == Spec => []IInv
<1> QED
  BY InitInv, StepInv, PTL DEF Spec
----------------------------------------------------------------------------
(* The properties. *)

(* Every variable keeps its type, and no more than MaxBoots boots number    *)
(* the leases and the sockets, for any number of processes.                 *)
THEOREM ManagerTypes == Spec => []TypeOK
<1>1. IInv => TypeOK
  BY DEF IInv
<1> QED
  BY <1>1, Invariance, PTL

(* startRuntime never reuses a dead socket for ever: an entry of the map    *)
(* whose socket has closed has a handler or a deletion that will drop it.   *)
THEOREM DeadEntriesAreDropped == Spec => []NoDeadEntry
<1>1. IInv => NoDeadEntry
  BY DEF IInv, EntryInv, NoDeadEntry, Dropping, Closes, At
<1> QED
  BY <1>1, Invariance, PTL

(* Where no lease lapses under a live process, whatever handlers, requests, *)
(* failed renewals and crashes interleave, the entry of a map holds the     *)
(* lease of the session: two processes never both have a socket in use.     *)
THEOREM EntriesHoldLease == Spec => []EntryHoldsLease
<1>1. IInv => EntryHoldsLease
  BY DEF IInv, EntryInv, EntryHoldsLease, Holds
<1> QED
  BY <1>1, Invariance, PTL

LEMMA EntrySteps ==
  ASSUME IInv, Next
  PROVE  \/ entry' = entry
         \/ \E p \in Proc : entry' = [entry EXCEPT ![p] = 0]
         \/ \E t \in tasks : BootSocket(t)
<1>1. ASSUME NEW t \in tasks, TaskStep(t)
      PROVE  \/ entry' = entry
             \/ entry' = [entry EXCEPT ![t.proc] = 0]
             \/ BootSocket(t)
  BY <1>1
  DEF TaskStep, BootStep, HandlerStep, RenewStep, RequestStep, BootFind, BootAcquire,
      BootStatus, BootFails, BootUndo, BootReturns, UpdateOfDeleted, DropDeleted,
      QrOrOpenCheck, OpenRecheck, QrOrOpenWrite, HandlerRelease, CloseCheck,
      CloseRelease, CloseRecheck, CloseStatus, CloseRestart, CloseClear, RenewAnswer,
      RenewError, RenewLost, NotFound, ReconnectEnd, ReconnectRelease, ReconnectNow,
      DeleteFind, DeleteEnd, DeleteRelease, DeleteClear, DeleteMark
<1>2. ASSUME Environment
      PROVE  entry' = entry \/ \E p \in Proc : entry' = [entry EXCEPT ![p] = 0]
  BY <1>2 DEF Environment, Event, Request, UseSocket, Crash, Shutdown, Stopped, Startup,
              Lapse
<1>3. ASSUME NEW p \in Proc, RenewSend(p) PROVE entry' = entry
  BY <1>3 DEF RenewSend
<1>4. \A t \in tasks : t.proc \in Proc
  BY DEF IInv, TypeOK, Task
<1> QED
  BY <1>1, <1>2, <1>3, <1>4 DEF Next

(* bootSocket never replaces an entry: when it stores its socket in the     *)
(* map, however the starts, the handlers and the requests of the process    *)
(* interleaved, the map has none.                                           *)
THEOREM EntriesAreNotOverwritten == Spec => EntryNotOverwritten
<1>1. IInv /\ [Next]_vars =>
        [\A p \in Proc : entry[p] # 0 => entry'[p] \in {0, entry[p]}]_vars
  <2> SUFFICES ASSUME IInv, Next, NEW p \in Proc, entry[p] # 0
               PROVE  entry'[p] \in {0, entry[p]}
    OBVIOUS
  <2>1. entry \in [Proc -> 0 .. MaxBoots]
    BY DEF IInv, TypeOK
  <2>2. CASE entry' = entry
    BY <2>2
  <2>3. ASSUME NEW q \in Proc, entry' = [entry EXCEPT ![q] = 0]
        PROVE  entry'[p] \in {0, entry[p]}
    BY <2>1, <2>3
  <2>4. ASSUME NEW t \in tasks, BootSocket(t) PROVE entry'[p] \in {0, entry[p]}
    <3>1. t.pc = "auth" /\ entry' = [entry EXCEPT ![t.proc] = t.sock]
      BY <2>4 DEF BootSocket, At
    <3>2. entry[t.proc] = 0
      BY <3>1 DEF IInv, TaskInv, KindPc, Closes, Starting
    <3> QED
      BY <2>1, <3>1, <3>2
  <2> QED
    BY <2>2, <2>3, <2>4, EntrySteps
<1> QED
  BY <1>1, Invariance, PTL DEF Spec, EntryNotOverwritten

(* The steps that hand a lease back. *)
LEMMA LeaseSteps ==
  ASSUME IInv, Next, row.lease # 0, row'.lease = 0
  PROVE  \/ \E t \in tasks : /\ t.pc = "undo" \/ AfterDrop(t)
                             /\ t.sock = row.lease /\ sock' = sock
         \/ \E p \in Proc : entry[p] = row.lease /\ Stopped(p)
<1>t. TypeOK /\ row \in RowSet
  BY Types DEF IInv
<1>r. \A b : row' = Released(b) => b = row.lease
  BY DEF Released
<1>k. /\ \A s : row' # [row EXCEPT !.status = s]
      /\ \A v : row' # [row EXCEPT !.live = v]
      /\ row' # [row EXCEPT !.deleted = TRUE, !.status = "DISCONNECTED"]
      /\ row' # row
  <2>1. \A s : [row EXCEPT !.status = s].lease = row.lease
    BY <1>t DEF RowSet
  <2>2. \A v : [row EXCEPT !.live = v].lease = row.lease
    BY <1>t DEF RowSet
  <2>3. [row EXCEPT !.deleted = TRUE, !.status = "DISCONNECTED"].lease = row.lease
    BY <1>t, RowTypes
  <2> QED
    BY <2>1, <2>2, <2>3
<1>1. ASSUME NEW t \in tasks, TaskStep(t)
      PROVE  /\ t.pc = "undo" \/ AfterDrop(t)
             /\ t.sock = row.lease /\ sock' = sock
  <2>1. CASE BootUndo(t) \/ HandlerRelease(t) \/ CloseRelease(t) \/ DeleteRelease(t)
             \/ ReconnectRelease(t)
    BY <1>r, <2>1 DEF BootUndo, HandlerRelease, CloseRelease, DeleteRelease,
                      ReconnectRelease, At, AfterDrop, system
  <2>2. CASE BootAcquire(t)
    <3>1. t.pc = "acquire" /\ row' = [row EXCEPT !.lease = t.sock, !.owner = t.proc,
                                                !.live = TRUE]
      BY <1>k, <2>2 DEF BootAcquire, At
    <3>2. row'.lease = t.sock
      BY <1>t, <3>1 DEF RowSet
    <3>3. t.sock # 0
      BY <3>1 DEF IInv, TaskInv, KindPc, Closes, NeedsSocket
    <3> QED
      BY <3>2, <3>3
  <2>3. CASE \/ BootFind(t) \/ BootSocket(t) \/ BootFails(t) \/ BootReturns(t)
             \/ UpdateOfDeleted(t) \/ QrOrOpenCheck(t) \/ OpenRecheck(t)
             \/ CloseCheck(t) \/ CloseRecheck(t) \/ CloseRestart(t) \/ CloseClear(t)
             \/ RenewError(t) \/ RenewLost(t) \/ NotFound(t) \/ ReconnectEnd(t)
             \/ ReconnectNow(t) \/ DeleteFind(t) \/ DeleteEnd(t) \/ DeleteClear(t)
    BY <1>k, <2>3
    DEF BootFind, BootSocket, BootFails, BootReturns, UpdateOfDeleted, DropDeleted,
        QrOrOpenCheck, OpenRecheck, CloseCheck, CloseRecheck, CloseRestart, CloseClear,
        RenewError, RenewLost, NotFound, ReconnectEnd, ReconnectNow, DeleteFind,
        DeleteEnd, DeleteClear
  <2>4. CASE \/ BootStatus(t) \/ QrOrOpenWrite(t) \/ CloseStatus(t) \/ RenewAnswer(t)
             \/ DeleteMark(t)
    BY <1>k, <2>4
    DEF BootStatus, QrOrOpenWrite, CloseStatus, RenewAnswer, DeleteMark, SetStatus
  <2> QED
    BY <1>1, <2>1, <2>2, <2>3, <2>4
    DEF TaskStep, BootStep, HandlerStep, RenewStep, RequestStep
<1>2. ASSUME Environment
      PROVE  \E p \in Proc : entry[p] = row.lease /\ Stopped(p)
  <2>1. PICK p \in Proc : Shutdown(p)
    BY <1>2, <1>k DEF Environment, Event, Request, UseSocket, Crash, Startup, Lapse
  <2> QED
    BY <1>r, <2>1 DEF Shutdown
<1>3. ASSUME NEW p \in Proc, RenewSend(p) PROVE FALSE
  BY <1>k, <1>3 DEF RenewSend
<1> QED
  BY <1>1, <1>2, <1>3 DEF Next

(* A lease is handed back only after the socket it covered has ended, in    *)
(* every release of the code: a failed start, a close, a deletion, a        *)
(* reconnect, a shutdown.                                                   *)
THEOREM LeasesOutliveSockets == Spec => ReleaseAfterClose
<1>1. IInv /\ [Next]_vars =>
        [row.lease # 0 /\ row'.lease = 0 => sock'[row.lease] # "open"]_vars
  <2> SUFFICES ASSUME IInv, Next, row.lease # 0, row'.lease = 0
               PROVE  sock'[row.lease] # "open"
    OBVIOUS
  <2>1. ASSUME NEW t \in tasks, t.pc = "undo" \/ AfterDrop(t),
               t.sock = row.lease, sock' = sock
        PROVE  sock'[row.lease] # "open"
    BY <2>1 DEF IInv, TaskInv, KindPc, Closes, Starting, AfterDrop
  <2>2. ASSUME NEW p \in Proc, entry[p] = row.lease, Stopped(p)
        PROVE  sock'[row.lease] # "open"
    <3>1. EntryInv(p) /\ TypeOK
      BY DEF IInv
    <3>2. row.lease \in Boot /\ home[row.lease] = p
      BY <2>2, <3>1, Types DEF EntryInv
    <3> QED
      BY <2>2, <3>2 DEF Stopped
  <2> QED
    BY <2>1, <2>2, LeaseSteps
<1> QED
  BY <1>1, Invariance, PTL DEF Spec, ReleaseAfterClose
=============================================================================
