----------------------------- MODULE WorkerLease -----------------------------
(***************************************************************************)
(* WorkerLeaseService: the lease a process takes on a WhatsApp session     *)
(* before it opens a socket. A call reads the clock and (to acquire) draws *)
(* a random token, then sends ONE conditional updateMany to PostgreSQL;    *)
(* between the two other calls, ticks and crashes happen. Requests may     *)
(* overtake each other: they travel on the connections of a pool, and the  *)
(* renewal timer does not wait for the previous round.                     *)
(*                                                                         *)
(* Abstractions. One clock for all processes (the code compares client     *)
(* clocks; synchronised hosts are assumed). The 32 random bytes of a token *)
(* never repeat: tokens are serial numbers. NULL columns are NoWorker, the *)
(* token 0 and the expiry 0.                                               *)
(***************************************************************************)
EXTENDS Integers, FiniteSets

CONSTANTS
  Proc,       \* processes that embed the WhatsApp runtime
  Worker,     \* rows of WorkerNode
  NoWorker,
  WorkerOf,   \* the row a process registers under: WORKER_NAME, not always distinct
  Session,
  LeaseMs,    \* WORKER_SESSION_LEASE_MS, in ticks
  MaxTime, MaxTokens, MaxCalls    \* bounds on the clock, acquisitions, requests

ASSUME LeaseAssumption ==
  /\ NoWorker \notin Worker
  /\ WorkerOf \in [Proc -> Worker]
  /\ LeaseMs \in Nat \ {0}
  /\ MaxTime \in Nat /\ MaxTokens \in Nat /\ MaxCalls \in Nat

NoToken == 0
Token == 1 .. MaxTokens

VARIABLES
  now,     \* the clock
  row,     \* the lease columns of each session
  issued,  \* tokens drawn so far
  up,      \* running processes
  calls,   \* requests in flight
  held,    \* the tokens the managers keep: (process, session, token)
  spent    \* history: tokens a row carried and lost

vars == <<now, row, issued, up, calls, held, spent>>

Row == [worker : Worker \cup {NoWorker}, token : Token \cup {NoToken},
        expires : Nat, deleted : BOOLEAN]

(* "sent": on its way; "granted": an acquisition that took effect and whose *)
(* caller waits for recomputeCurrentSessions; "orphan": the caller crashed. *)
Call == [op : {"acquire", "renew", "release"}, proc : Proc, session : Session,
         token : Token, at : Nat, phase : {"sent", "granted", "orphan"}]

TypeOK ==
  /\ now \in Nat
  /\ row \in [Session -> Row]
  /\ issued \in 0 .. MaxTokens
  /\ up \subseteq Proc
  /\ calls \subseteq Call
  /\ held \subseteq Proc \X Session \X Token
  /\ spent \subseteq Token

Init ==
  /\ now = 0
  /\ row = [s \in Session |-> [worker |-> NoWorker, token |-> NoToken,
                               expires |-> 0, deleted |-> FALSE]]
  /\ issued = 0
  /\ up = Proc
  /\ calls = {}
  /\ held = {}
  /\ spent = {}

----------------------------------------------------------------------------
(* Sending and ending a request. *)

Send(op, p, s, t) ==
  /\ p \in up
  /\ Cardinality(calls) < MaxCalls
  /\ calls' = calls \cup {[op |-> op, proc |-> p, session |-> s, token |-> t,
                           at |-> now, phase |-> "sent"]}

End(c) == calls' = calls \ {c}

InFlight(c, op) == c.op = op /\ c.phase \in {"sent", "orphan"}

Drop(p, s, t) == held' = held \ {<<p, s, t>>}

(* The columns of session s get a new token; the old one is history. *)
Retoken(s, w, t, e) ==
  /\ row' = [row EXCEPT ![s].worker = w, ![s].token = t, ![s].expires = e]
  /\ spent' = spent \cup ({row[s].token} \ {NoToken})

----------------------------------------------------------------------------
(* acquireSessionLease *)

Acquire(p, s) ==
  /\ issued < MaxTokens
  /\ issued' = issued + 1
  /\ Send("acquire", p, s, issued + 1)
  /\ UNCHANGED <<now, row, up, held, spent>>

(* Wrong: takes a lease one duration before it runs out. *)
MayAcquire_Early(c) ==
  LET r == row[c.session] IN
  /\ ~r.deleted
  /\ \/ r.worker = NoWorker
     \/ r.expires <= c.at + LeaseMs
     \/ r.worker = WorkerOf[c.proc]

(* The WHERE of the acquisition, with the `now` the caller read. *)
MayAcquire(c) ==
  LET r == row[c.session] IN
  /\ ~r.deleted
  /\ \/ r.worker = NoWorker
     \/ r.expires <= c.at
     \/ r.worker = WorkerOf[c.proc]

(* Wrong: a process of the same worker gets the token the row already has. *)
AcquireApply_SameToken(c) ==
  /\ InFlight(c, "acquire")
  /\ MayAcquire(c)
  /\ LET mine == row[c.session].worker = WorkerOf[c.proc]
         t    == IF mine THEN row[c.session].token ELSE c.token
     IN  /\ row' = [row EXCEPT ![c.session].worker = WorkerOf[c.proc],
                               ![c.session].token = t,
                               ![c.session].expires = c.at + LeaseMs]
         /\ calls' = (calls \ {c}) \cup
                     IF c.phase = "sent"
                     THEN {[c EXCEPT !.phase = "granted", !.token = t]} ELSE {}
  /\ UNCHANGED <<now, issued, up, held, spent>>

AcquireApply(c) ==
  /\ InFlight(c, "acquire")
  /\ MayAcquire(c)
  /\ Retoken(c.session, WorkerOf[c.proc], c.token, c.at + LeaseMs)
  /\ calls' = (calls \ {c}) \cup
              IF c.phase = "sent" THEN {[c EXCEPT !.phase = "granted"]} ELSE {}
  /\ UNCHANGED <<now, issued, up, held>>

AcquireRefused(c) ==
  /\ InFlight(c, "acquire")
  /\ ~MayAcquire(c)
  /\ End(c)
  /\ UNCHANGED <<now, row, issued, up, held, spent>>

(* recomputeCurrentSessions answers and the manager gets the token... *)
AcquireReturn(c) ==
  /\ c.phase = "granted"
  /\ held' = held \cup {<<c.proc, c.session, c.token>>}
  /\ End(c)
  /\ UNCHANGED <<now, row, issued, up, spent>>

(* ... or throws: the row keeps a lease nobody knows the token of. *)
AcquireThrows(c) ==
  /\ c.phase = "granted"
  /\ End(c)
  /\ UNCHANGED <<now, row, issued, up, held, spent>>

----------------------------------------------------------------------------
(* renewSessionLease: the expiry of the row is NOT looked at, so a lapsed   *)
(* lease that nobody took comes back to life.                               *)

Renew(p, s, t) ==
  /\ <<p, s, t>> \in held
  /\ Send("renew", p, s, t)
  /\ UNCHANGED <<now, row, issued, up, held, spent>>

Renewable(c) ==
  LET r == row[c.session] IN
  /\ r.worker = WorkerOf[c.proc]
  /\ r.token = c.token
  /\ ~r.deleted

(* Wrong: an upsert of the lease columns instead of a conditional update. *)
RenewApply_Blind(c) ==
  /\ InFlight(c, "renew")
  /\ Retoken(c.session, WorkerOf[c.proc], c.token, c.at + LeaseMs)
  /\ End(c)
  /\ UNCHANGED <<now, issued, up, held>>

RenewApply(c) ==
  /\ InFlight(c, "renew")
  /\ Renewable(c)
  /\ row' = [row EXCEPT ![c.session].expires = c.at + LeaseMs]
  /\ End(c)
  /\ UNCHANGED <<now, issued, up, held, spent>>

(* No row matched: the caller hears `false` and drops the session. *)
RenewRefused(c) ==
  /\ InFlight(c, "renew")
  /\ ~Renewable(c)
  /\ End(c)
  /\ Drop(c.proc, c.session, c.token)
  /\ UNCHANGED <<now, row, issued, up, spent>>

(* The row was renewed but the answer is an error, which the manager's      *)
(* `.catch(() => false)` cannot tell from a refusal.                        *)
RenewAnswerLost(c) ==
  /\ InFlight(c, "renew")
  /\ Renewable(c)
  /\ row' = [row EXCEPT ![c.session].expires = c.at + LeaseMs]
  /\ End(c)
  /\ Drop(c.proc, c.session, c.token)
  /\ UNCHANGED <<now, issued, up, spent>>

----------------------------------------------------------------------------
(* releaseSessionLease: every caller forgets the token before it calls. *)

Release(p, s, t) ==
  /\ <<p, s, t>> \in held
  /\ Drop(p, s, t)
  /\ Send("release", p, s, t)
  /\ UNCHANGED <<now, row, issued, up, spent>>

Releasable(c) ==
  LET r == row[c.session] IN r.worker = WorkerOf[c.proc] /\ r.token = c.token

ReleaseApply(c) ==
  /\ InFlight(c, "release")
  /\ Releasable(c)
  /\ Retoken(c.session, NoWorker, NoToken, 0)
  /\ End(c)
  /\ UNCHANGED <<now, issued, up, held>>

ReleaseRefused(c) ==
  /\ InFlight(c, "release")
  /\ ~Releasable(c)
  /\ End(c)
  /\ UNCHANGED <<now, row, issued, up, held, spent>>

----------------------------------------------------------------------------
(* assertLeaseOwner, at the moment its query runs. *)
OwnsLease(p, s, t) ==
  /\ t # NoToken
  /\ row[s].worker = WorkerOf[p]
  /\ ~row[s].deleted
  /\ row[s].expires > now
  /\ row[s].token = t

----------------------------------------------------------------------------
(* The rest of the system. *)

(* A request fails before it reaches the database. *)
CallFails(c) ==
  /\ c.phase # "granted"
  /\ End(c)
  /\ IF c.op = "renew" THEN Drop(c.proc, c.session, c.token)
                       ELSE UNCHANGED held
  /\ UNCHANGED <<now, row, issued, up, spent>>

(* deleteSession sets deletedAt and leaves the lease columns alone. *)
Delete(s) ==
  /\ ~row[s].deleted
  /\ row' = [row EXCEPT ![s].deleted = TRUE]
  /\ UNCHANGED <<now, issued, up, calls, held, spent>>

Orphaned(p) ==
  {c \in calls : c.proc # p} \cup
  {[c EXCEPT !.phase = "orphan"] :
     c \in {d \in calls : d.proc = p /\ d.phase # "granted"}}

(* A crash loses the memory of the process, not the requests it sent. *)
Crash(p) ==
  /\ p \in up
  /\ up' = up \ {p}
  /\ held' = {h \in held : h[1] # p}
  /\ calls' = Orphaned(p)
  /\ UNCHANGED <<now, row, issued, spent>>

Restart(p) ==
  /\ p \notin up
  /\ up' = up \cup {p}
  /\ UNCHANGED <<now, row, issued, calls, held, spent>>

Tick ==
  /\ now < MaxTime
  /\ now' = now + 1
  /\ UNCHANGED <<row, issued, up, calls, held, spent>>

CallStep(c) ==
  \/ AcquireApply(c) \/ AcquireRefused(c) \/ AcquireReturn(c)
  \/ AcquireThrows(c) \/ RenewApply(c) \/ RenewRefused(c)
  \/ RenewAnswerLost(c) \/ ReleaseApply(c) \/ ReleaseRefused(c)
  \/ CallFails(c)

Next ==
  \/ \E p \in Proc, s \in Session : Acquire(p, s)
  \/ \E p \in Proc, s \in Session, t \in Token :
       Renew(p, s, t) \/ Release(p, s, t)
  \/ \E c \in calls : CallStep(c)
  \/ \E s \in Session : Delete(s)
  \/ \E p \in Proc : Crash(p) \/ Restart(p)
  \/ Tick

Spec == Init /\ [][Next]_vars

----------------------------------------------------------------------------
(* Properties. *)

(* At most one process passes assertLeaseOwner for a session, also when two *)
(* processes were started with the same WORKER_NAME: a second acquisition   *)
(* under that name disowns the first.                                       *)
UniqueOwner ==
  \A g, h \in held : \A s \in Session :
    OwnsLease(g[1], s, g[3]) /\ OwnsLease(h[1], s, h[3]) => g = h

(* acquireSessionLease takes a session from another worker only when its    *)
(* lease is over at that very moment, however old the caller's clock        *)
(* reading is.                                                              *)
NoTheft ==
  [][\A s \in Session :
       row[s].worker # NoWorker /\ row'[s].worker \notin {NoWorker, row[s].worker}
         => row[s].expires <= now]_vars

(* releaseSessionLease frees a lease only when no process keeps its token:  *)
(* a release that arrives late never frees the lease of a newer socket.     *)
NoSilentRelease ==
  [][\A s \in Session :
       row[s].token # NoToken /\ row'[s].token = NoToken
         => \A h \in held : h[3] # row[s].token]_vars

(* The lease columns implement the exclusive lease.                         *)
SL == INSTANCE SessionLease WITH
        owner <- [s \in Session |-> row[s].worker],
        grant <- [s \in Session |-> row[s].token],
        valid <- [s \in Session |-> row[s].expires > now /\ ~row[s].deleted],
        past  <- spent

(* Every step of every request is a step of the exclusive lease, so a token *)
(* that was replaced or released never owns a session again.                *)
ImplementsLease == SL!Spec

----------------------------------------------------------------------------
(* The inductive invariant. *)

(* The tokens in use were drawn. *)
Drawn ==
  /\ \A s \in Session : row[s].token <= issued
  /\ \A t \in spent : t <= issued
  /\ \A c \in calls : c.token \in 1 .. issued /\ c.at <= now
  /\ \A h \in held : h[3] <= issued

(* The token of an acquisition in flight is nowhere else. *)
Fresh ==
  \A c \in calls : InFlight(c, "acquire") =>
    /\ c.token \notin spent
    /\ \A s \in Session : row[s].token # c.token
    /\ \A h \in held : h[3] # c.token
    /\ \A d \in calls : d.token = c.token => d = c

(* A granted token is known to its caller alone. *)
Private ==
  \A c \in calls : c.phase = "granted" =>
    /\ c.op = "acquire"
    /\ \A h \in held : h[3] # c.token
    /\ \A d \in calls : d.token = c.token => d = c

(* No two processes keep the same token. *)
HeldOnce ==
  \A g, h \in held : g[3] = h[3] => g = h

(* A row has a worker when it has a token, and no spent one; the columns    *)
(* are NULL together; no two rows have the same token.                      *)
RowTokens ==
  /\ \A s \in Session : /\ row[s].token \notin spent
                        /\ row[s].token = NoToken <=> row[s].worker = NoWorker
                        /\ row[s].worker = NoWorker => row[s].expires = 0
  /\ \A s, r \in Session :
       row[s].token = row[r].token /\ row[s].token # NoToken => s = r

(* A token a caller is giving back is kept by no process. *)
GivenBack ==
  \A c \in calls : c.op = "release" =>
    \A h \in held : h[3] # c.token

IInv ==
  TypeOK /\ Drawn /\ Fresh /\ Private /\ HeldOnce /\ RowTokens /\ GivenBack
=============================================================================
