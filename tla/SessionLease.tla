---------------------------- MODULE SessionLease ----------------------------
(***************************************************************************)
(* What the lease columns of WhatsAppSession promise, independently of how *)
(* workers talk to the database: a session has at most one grant, a grant  *)
(* that is still valid changes hands only within its own worker, and a     *)
(* grant that was replaced or given back never comes back.                 *)
(***************************************************************************)
CONSTANTS Session, Worker, NoWorker, Token, NoToken

VARIABLES
  owner,   \* the worker of each session's current grant, or NoWorker
  grant,   \* the token of the current grant, or NoToken
  valid,   \* whether the grant has time left
  past     \* the tokens of earlier grants

vars == <<owner, grant, valid, past>>

Init ==
  /\ owner = [s \in Session |-> NoWorker]
  /\ grant = [s \in Session |-> NoToken]
  /\ valid = [s \in Session |-> FALSE]
  /\ past = {}

Archived(s) == past \cup ({grant[s]} \ {NoToken})

(* A session without a valid grant goes to any worker; a worker may also    *)
(* replace its own grant. The token has never been used. A grant made by a  *)
(* slow caller may have run out by the time it is written.                  *)
Take(s, w, t) ==
  /\ ~valid[s] \/ owner[s] = w
  /\ t \notin past /\ \A r \in Session : grant[r] # t
  /\ owner' = [owner EXCEPT ![s] = w]
  /\ grant' = [grant EXCEPT ![s] = t]
  /\ \E b \in BOOLEAN : valid' = [valid EXCEPT ![s] = b]
  /\ past' = Archived(s)

Extend(s) ==
  /\ grant[s] # NoToken
  /\ \E b \in BOOLEAN : valid' = [valid EXCEPT ![s] = b]
  /\ UNCHANGED <<owner, grant, past>>

GiveBack(s) ==
  /\ grant[s] # NoToken
  /\ owner' = [owner EXCEPT ![s] = NoWorker]
  /\ grant' = [grant EXCEPT ![s] = NoToken]
  /\ valid' = [valid EXCEPT ![s] = FALSE]
  /\ past' = Archived(s)

(* Time passes, or the session is deleted: grants run out. *)
Lapse ==
  /\ \E S \in SUBSET Session :
       valid' = [s \in Session |-> valid[s] /\ s \notin S]
  /\ UNCHANGED <<owner, grant, past>>

Next ==
  \/ \E s \in Session, w \in Worker, t \in Token : Take(s, w, t)
  \/ \E s \in Session : Extend(s) \/ GiveBack(s)
  \/ Lapse

Spec == Init /\ [][Next]_vars
=============================================================================
