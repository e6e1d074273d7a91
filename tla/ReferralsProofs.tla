---------------------------- MODULE ReferralsProofs ----------------------------
(***************************************************************************)
(* Proofs about Referrals, for any users, documents and numbers of         *)
(* webhooks, job runs and administrators at once.                          *)
(*                                                                         *)
(* Rewards are granted by whoever holds an older copy of the row: a run of *)
(* the job, markPaid. That the copy is still good is what IInv says: while *)
(* nobody wrote the row under a run, what a run holds and what is about to *)
(* be paid are due, and what is about to be confirmed is not.              *)
(*                                                                         *)
(* Three properties hold only where requests of a kind take turns; their   *)
(* invariants say what one actor may rely on meanwhile: AdminInv (PAID is  *)
(* final), HookInv (a rejection stays) and JobInv (one reward per          *)
(* document).                                                              *)
(***************************************************************************)
EXTENDS Referrals, FiniteSetTheorems, TLAPS

IsDue(r) == ref[r].due \in 1 .. now

(* A waiting period has an end. *)
WaitingHasEnd ==
  \A r \in Referral : ref[r].status = "PENDING_WAITING_PERIOD" => ref[r].due # 0

(* What a run holds was due when it was read, and still is. *)
HeldIsDue ==
  \A j \in jobs :
    /\ j.chosen \subseteq j.left
    /\ \A r \in j.left : r \notin raced => IsDue(r)

(* confirmPayment found no confirmation, so nobody else found it due. *)
ConfirmedIsNotDue ==
  \A t \in tasks : At(t, "confirm", "write") /\ t.ref \notin raced => ~IsDue(t.ref)

(* What is about to be paid is due, and past what a reset would undo. *)
PaidIsDue ==
  \A t \in tasks :
    t.kind = "paid" /\ t.ref \notin raced
      => IsDue(t.ref) /\ ref[t.ref].status # "PENDING_WAITING_PERIOD"

IInv ==
  /\ TypeOK
  /\ WaitingHasEnd
  /\ HeldIsDue
  /\ ConfirmedIsNotDue
  /\ PaidIsDue
  /\ EarlyRewardNeedsRace

----------------------------------------------------------------------------
(* Types. *)

(* A run that goes on keeps the shape of a run. *)
LEMMA GoesOnType ==
  ASSUME jobs \subseteq Job, NEW j \in jobs, NEW r, JobGoesOn(j, r)
  PROVE  jobs' \subseteq Job
<1>1. j \in Job
  OBVIOUS
<1>2. [j EXCEPT !.left = @ \ {r}, !.suspect = @ \ {r}, !.chosen = {}, !.passed = FALSE]
        \in Job
  BY <1>1 DEF Job
<1>3. QED
  BY <1>2 DEF JobGoesOn

LEMMA TypeInit == Init => TypeOK
  BY ReferralsAssumption DEF Init, TypeOK, User, Row, Status

(* Every step keeps the types. *)
LEMMA TypeNext == TypeOK /\ [Next]_vars => TypeOK'
<1> SUFFICES ASSUME TypeOK, [Next]_vars PROVE TypeOK'
  OBVIOUS
<1> USE DEF TypeOK
<1>1. ASSUME NEW r \in Referral, Register(r) PROVE TypeOK'
  BY <1>1 DEF Register, Row, Status
<1>2. ASSUME NEW r \in Referral, AccountChanges(r) PROVE TypeOK'
  BY <1>2 DEF AccountChanges, User
<1>3. ASSUME NEW r \in Referral, MarkPaid(r) PROVE TypeOK'
  BY <1>3 DEF MarkPaid, Begin, Task
<1>4. ASSUME NEW r \in Referral, Reject(r) PROVE TypeOK'
  BY <1>4 DEF Reject, Begin, Task
<1>5. ASSUME NEW r \in Referral, NEW kind \in {"confirm", "reset"}, Webhook(r, kind)
      PROVE  TypeOK'
  <2>1. user' \in [Referral -> User]
    BY <1>5 DEF Webhook, User
  <2>2. tasks' \subseteq Task
    BY <1>5 DEF Webhook, Begin, Task
  <2>3. QED
    BY <1>5, <2>1, <2>2 DEF Webhook
<1>6. ASSUME NEW t \in tasks, TaskStep(t) PROVE TypeOK'
  <2>1. t \in Task /\ t.ref \in Referral
    BY DEF Task
  <2>2. CASE ConfirmDocument(t)
    <3>1. [t EXCEPT !.pc = "find"] \in Task
      BY <2>1 DEF Task
    <3>2. user' \in [Referral -> User]
      BY <2>1, <2>2, ReferralsAssumption DEF ConfirmDocument, User
    <3>3. QED
      BY <2>2, <3>1, <3>2 DEF ConfirmDocument, Goto
  <2>3. CASE ConfirmFind(t)
    <3>1. [t EXCEPT !.pc = "write"] \in Task
      BY <2>1 DEF Task
    <3>2. QED
      BY <2>3, <3>1 DEF ConfirmFind, Goto, Done
  <2>4. CASE ConfirmWrite(t)
    BY <2>1, <2>4, ReferralsAssumption
    DEF ConfirmWrite, EligibleAt, Done, Races, Row, Status
  <2>5. CASE ResetWaitingPeriod(t)
    BY <2>1, <2>5 DEF ResetWaitingPeriod, Done, Races, Row, Status
  <2>6. CASE AdminWrite(t)
    BY <2>1, <2>6 DEF AdminWrite, Done, Races, Row, Status
  <2>7. QED
    BY <1>6, <2>2, <2>3, <2>4, <2>5, <2>6 DEF TaskStep
<1>7. ASSUME NEW t \in tasks, TaskFails(t) PROVE TypeOK'
  BY <1>7 DEF TaskFails, Done
<1>8. CASE JobStart
  <2> DEFINE left == {r \in Candidates : user[r].active}
  <2>1. left \subseteq Referral /\ Suspect(Candidates) \cap left \subseteq Referral
    BY DEF Candidates
  <2>2. [left |-> left, suspect |-> Suspect(Candidates) \cap left,
         chosen |-> {}, passed |-> FALSE] \in Job
    BY <2>1 DEF Job
  <2>3. QED
    BY <1>8, <2>2 DEF JobStart
<1>9. ASSUME NEW j \in jobs, JobCheck(j) PROVE TypeOK'
  <2>1. PICK r \in j.left :
          jobs' = (jobs \ {j}) \cup {[j EXCEPT !.chosen = {r}, !.passed = Passes(j, r)]}
    BY <1>9 DEF JobCheck
  <2>2. j \in Job /\ r \in Referral
    BY <2>1 DEF Job
  <2>3. Passes(j, r) \in BOOLEAN
    BY DEF Passes
  <2>4. [j EXCEPT !.chosen = {r}, !.passed = Passes(j, r)] \in Job
    BY <2>2, <2>3 DEF Job
  <2>5. jobs' \subseteq Job
    BY <2>1, <2>4
  <2>6. QED
    BY <1>9, <2>5 DEF JobCheck
<1>10. ASSUME NEW j \in jobs, JobWrite(j) PROVE TypeOK'
  <2>1. PICK r \in j.chosen :
          /\ ref' = [ref EXCEPT ![r].status =
                       IF j.passed THEN "ELIGIBLE" ELSE "NEEDS_REVIEW"]
          /\ JobGoesOn(j, r)
    BY <1>10 DEF JobWrite
  <2>2. ref' \in [Referral -> Row]
    BY <2>1 DEF Row, Status
  <2>3. jobs' \subseteq Job
    BY <2>1, GoesOnType
  <2>4. QED
    BY <1>10, <2>2, <2>3 DEF JobWrite
<1>11. ASSUME NEW j \in jobs, JobFails(j) PROVE TypeOK'
  BY <1>11, ReferralsAssumption DEF JobFails
<1>12. CASE Tick
  BY <1>12 DEF Tick
<1>13. CASE UNCHANGED vars
  BY <1>13 DEF vars
<1>14. QED
  BY <1>1, <1>2, <1>3, <1>4, <1>5, <1>6, <1>7, <1>8, <1>9, <1>10, <1>11, <1>12, <1>13
  DEF Next, JobStep

----------------------------------------------------------------------------
(* The invariant. *)

(* A row written while no run holds it: the runs' copies stay good. *)
LEMMA RacesFact ==
  ASSUME NEW r \in Referral, Races(r)
  PROVE  /\ raced \subseteq raced'
         /\ \A j \in jobs : r \in j.left => r \in raced'
         /\ \A q \in Referral \ {r} : q \in raced' => q \in raced
  BY DEF Races

(* The steps that write neither rows, history nor clock keep what is said   *)
(* of the rows, and what is said of the handlers in flight if none is new.  *)
LEMMA RowsKept ==
  ASSUME UNCHANGED <<now, ref, raced>>
  PROVE  /\ WaitingHasEnd => WaitingHasEnd'
         /\ EarlyRewardNeedsRace => EarlyRewardNeedsRace'
         /\ tasks' \subseteq tasks /\ ConfirmedIsNotDue => ConfirmedIsNotDue'
         /\ tasks' \subseteq tasks /\ PaidIsDue => PaidIsDue'
         /\ jobs' \subseteq jobs /\ HeldIsDue => HeldIsDue'
  BY DEF WaitingHasEnd, EarlyRewardNeedsRace, ConfirmedIsNotDue, PaidIsDue, HeldIsDue,
         IsDue, At

LEMMA InvInit == Init => IInv
  BY TypeInit DEF Init, IInv, WaitingHasEnd, HeldIsDue, ConfirmedIsNotDue, PaidIsDue,
                  EarlyRewardNeedsRace

LEMMA ConfirmWriteInv ==
  ASSUME IInv, NEW t \in tasks, ConfirmWrite(t)
  PROVE  /\ WaitingHasEnd' /\ HeldIsDue' /\ ConfirmedIsNotDue' /\ PaidIsDue'
         /\ EarlyRewardNeedsRace'
<1> DEFINE r == t.ref
<1>1. r \in Referral /\ now \in Nat /\ ref \in [Referral -> Row] /\ tasks \subseteq Task
      /\ jobs \subseteq Job
  BY DEF IInv, TypeOK, Task
<1>2. /\ ref'[r].status = "PENDING_WAITING_PERIOD"
      /\ ref'[r].due = now + Days
      /\ \A q \in Referral \ {r} : ref'[q] = ref[q]
      /\ now' = now /\ jobs' = jobs /\ tasks' \subseteq tasks
  BY <1>1 DEF ConfirmWrite, EligibleAt, Done, Row
<1>3. /\ raced \subseteq raced'
      /\ \A j \in jobs : r \in j.left => r \in raced'
  BY <1>1, RacesFact DEF ConfirmWrite
<1>4. ~ IsDue(r)' /\ ref'[r].due # 0
  BY <1>1, <1>2, ReferralsAssumption DEF IsDue
<1>5. r \notin raced => ~ IsDue(r)
  BY DEF IInv, ConfirmedIsNotDue, ConfirmWrite
<1>6. \A q \in Referral \ {r} : IsDue(q)' <=> IsDue(q)
  BY <1>2 DEF IsDue
<1>7. WaitingHasEnd'
  BY <1>2, <1>4 DEF IInv, WaitingHasEnd
<1>8. HeldIsDue'
  BY <1>1, <1>2, <1>3, <1>6 DEF IInv, HeldIsDue, Job
<1>9. ConfirmedIsNotDue'
  BY <1>1, <1>2, <1>3, <1>4, <1>6 DEF IInv, ConfirmedIsNotDue, At, Task
<1>10. PaidIsDue'
  BY <1>1, <1>2, <1>3, <1>5, <1>6 DEF IInv, PaidIsDue, Task
<1>11. EarlyRewardNeedsRace'
  BY <1>1, <1>2, <1>3, <1>6 DEF IInv, EarlyRewardNeedsRace, IsDue
<1>12. QED
  BY <1>7, <1>8, <1>9, <1>10, <1>11

LEMMA ResetInv ==
  ASSUME IInv, NEW t \in tasks, ResetWaitingPeriod(t)
  PROVE  /\ WaitingHasEnd' /\ HeldIsDue' /\ ConfirmedIsNotDue' /\ PaidIsDue'
         /\ EarlyRewardNeedsRace'
<1> DEFINE r == t.ref
<1>1. r \in Referral /\ now \in Nat /\ ref \in [Referral -> Row] /\ tasks \subseteq Task
      /\ jobs \subseteq Job
  BY DEF IInv, TypeOK, Task
<1>2. /\ now' = now /\ jobs' = jobs /\ tasks' \subseteq tasks
      /\ raced \subseteq raced'
      /\ \A j \in jobs : r \in j.left => r \in raced'
  BY <1>1, RacesFact DEF ResetWaitingPeriod, Done
<1>3. CASE ref[r].status # "PENDING_WAITING_PERIOD"
  BY <1>1, <1>2, <1>3
  DEF ResetWaitingPeriod, IInv, WaitingHasEnd, HeldIsDue, ConfirmedIsNotDue, PaidIsDue,
      EarlyRewardNeedsRace, IsDue, At, Task, Job
<1>4. CASE ref[r].status = "PENDING_WAITING_PERIOD"
  <2>1. /\ ref'[r].status = "PENDING_PAYMENT" /\ ref'[r].due = 0
        /\ \A q \in Referral \ {r} : ref'[q] = ref[q]
    BY <1>1, <1>4 DEF ResetWaitingPeriod, Row
  <2>2. /\ ~ IsDue(r)'
        /\ \A q \in Referral \ {r} : IsDue(q)' <=> IsDue(q)
    BY <1>2, <2>1 DEF IsDue
  <2>3. WaitingHasEnd'
    BY <2>1 DEF IInv, WaitingHasEnd
  <2>4. HeldIsDue'
    BY <1>1, <1>2, <2>2 DEF IInv, HeldIsDue, Job
  <2>5. ConfirmedIsNotDue'
    BY <1>1, <1>2, <2>2 DEF IInv, ConfirmedIsNotDue, At, Task
  <2>6. PaidIsDue'
    BY <1>1, <1>2, <1>4, <2>1, <2>2 DEF IInv, PaidIsDue, Task
  <2>7. EarlyRewardNeedsRace'
    BY <1>1, <1>2, <2>1, <2>2 DEF IInv, EarlyRewardNeedsRace, IsDue
  <2>8. QED
    BY <2>3, <2>4, <2>5, <2>6, <2>7
<1>5. QED
  BY <1>3, <1>4

LEMMA AdminWriteInv ==
  ASSUME IInv, NEW t \in tasks, AdminWrite(t)
  PROVE  /\ WaitingHasEnd' /\ HeldIsDue' /\ ConfirmedIsNotDue' /\ PaidIsDue'
         /\ EarlyRewardNeedsRace'
<1> DEFINE r == t.ref
<1>1. r \in Referral /\ ref \in [Referral -> Row] /\ tasks \subseteq Task
      /\ jobs \subseteq Job
  BY DEF IInv, TypeOK, Task
<1>2. /\ now' = now /\ jobs' = jobs /\ tasks' \subseteq tasks
      /\ raced \subseteq raced'
  BY <1>1, RacesFact DEF AdminWrite, Done
<1>3. /\ \A q \in Referral : ref'[q].due = ref[q].due
      /\ \A q \in Referral \ {r} : ref'[q] = ref[q]
      /\ \/ t.kind = "paid" /\ ref'[r].status = "PAID"
         \/ ref'[r].status = "REJECTED"
  BY <1>1 DEF AdminWrite, At, Row
<1>4. \A q \in Referral : IsDue(q)' <=> IsDue(q)
  BY <1>2, <1>3 DEF IsDue
<1>5. WaitingHasEnd'
  BY <1>3 DEF IInv, WaitingHasEnd
<1>6. HeldIsDue'
  BY <1>1, <1>2, <1>4 DEF IInv, HeldIsDue, Job
<1>7. ConfirmedIsNotDue'
  BY <1>1, <1>2, <1>4 DEF IInv, ConfirmedIsNotDue, At, Task
<1>8. PaidIsDue'
  BY <1>1, <1>2, <1>3, <1>4 DEF IInv, PaidIsDue, Task
<1>9. EarlyRewardNeedsRace'
  BY <1>1, <1>2, <1>3, <1>4 DEF IInv, EarlyRewardNeedsRace, PaidIsDue, IsDue
<1>10. QED
  BY <1>5, <1>6, <1>7, <1>8, <1>9

LEMMA JobWriteInv ==
  ASSUME IInv, NEW j \in jobs, JobWrite(j)
  PROVE  /\ WaitingHasEnd' /\ HeldIsDue' /\ ConfirmedIsNotDue' /\ PaidIsDue'
         /\ EarlyRewardNeedsRace'
<1>1. /\ ref \in [Referral -> Row] /\ tasks \subseteq Task /\ jobs \subseteq Job
      /\ now' = now /\ tasks' = tasks /\ raced' = raced
  BY DEF IInv, TypeOK, JobWrite
<1>2. PICK r \in j.chosen :
        /\ ref' = [ref EXCEPT ![r].status =
                     IF j.passed THEN "ELIGIBLE" ELSE "NEEDS_REVIEW"]
        /\ JobGoesOn(j, r)
  BY DEF JobWrite
<1>3. r \in Referral /\ r \in j.left /\ j \in Job
  BY <1>1, <1>2 DEF IInv, HeldIsDue, Job
<1>4. r \notin raced => IsDue(r)
  BY <1>3 DEF IInv, HeldIsDue
<1>5. /\ \A q \in Referral : ref'[q].due = ref[q].due
      /\ \A q \in Referral \ {r} : ref'[q] = ref[q]
      /\ ref'[r].status \in {"ELIGIBLE", "NEEDS_REVIEW"}
  BY <1>1, <1>2, <1>3 DEF Row
<1>6. \A q \in Referral : IsDue(q)' <=> IsDue(q)
  BY <1>1, <1>5 DEF IsDue
<1>7. WaitingHasEnd'
  BY <1>5 DEF IInv, WaitingHasEnd
<1>8. HeldIsDue'
  <2>1. \A i \in jobs' : \E k \in jobs : i.left \subseteq k.left /\ i.chosen \subseteq i.left
    BY <1>2, <1>3 DEF JobGoesOn, IInv, HeldIsDue, Job
  <2>2. \A k \in jobs : k.left \subseteq Referral
    BY <1>1 DEF Job
  <2>3. QED
    BY <1>1, <1>6, <2>1, <2>2 DEF IInv, HeldIsDue
<1>9. ConfirmedIsNotDue'
  BY <1>1, <1>6 DEF IInv, ConfirmedIsNotDue, At, Task
<1>10. PaidIsDue'
  BY <1>1, <1>5, <1>6 DEF IInv, PaidIsDue, Task
<1>11. EarlyRewardNeedsRace'
  BY <1>1, <1>4, <1>5, <1>6 DEF IInv, EarlyRewardNeedsRace, IsDue
<1>12. QED
  BY <1>7, <1>8, <1>9, <1>10, <1>11

(* Every step keeps what the invariant adds to the types. *)
LEMMA InvNext == IInv /\ [Next]_vars => IInv'
<1> SUFFICES ASSUME IInv, [Next]_vars
             PROVE  /\ WaitingHasEnd' /\ HeldIsDue' /\ ConfirmedIsNotDue' /\ PaidIsDue'
                    /\ EarlyRewardNeedsRace'
  BY TypeNext DEF IInv
<1> DEFINE Kept == /\ WaitingHasEnd' /\ HeldIsDue' /\ ConfirmedIsNotDue' /\ PaidIsDue'
                   /\ EarlyRewardNeedsRace'
<1>0. ref \in [Referral -> Row] /\ tasks \subseteq Task /\ jobs \subseteq Job
  BY DEF IInv, TypeOK
<1>1. ASSUME NEW r \in Referral, Register(r) PROVE Kept
  <2>1. /\ ref'[r].status = "PENDING_PAYMENT"
        /\ \A q \in Referral : ref'[q].due = ref[q].due
        /\ \A q \in Referral \ {r} : ref'[q] = ref[q]
        /\ UNCHANGED <<now, tasks, jobs, raced>>
    BY <1>0, <1>1 DEF Register, Row
  <2>2. \A q \in Referral : IsDue(q)' <=> IsDue(q)
    BY <2>1 DEF IsDue
  <2>3. HeldIsDue' /\ ConfirmedIsNotDue' /\ PaidIsDue'
    BY <1>0, <2>1, <2>2
    DEF IInv, HeldIsDue, ConfirmedIsNotDue, PaidIsDue, At, Task, Job
  <2>4. QED
    BY <2>1, <2>3 DEF IInv, WaitingHasEnd, EarlyRewardNeedsRace
<1>2. ASSUME NEW r \in Referral, AccountChanges(r) PROVE Kept
  BY <1>2, RowsKept DEF AccountChanges, IInv
<1>3. ASSUME NEW r \in Referral, MarkPaid(r) PROVE Kept
  <2>1. /\ UNCHANGED <<now, ref, jobs, raced>>
        /\ tasks' = tasks \cup {[kind |-> "paid", ref |-> r, pc |-> "write"]}
        /\ ref[r].status = "ELIGIBLE"
    BY <1>3 DEF MarkPaid, Begin
  <2>2. ConfirmedIsNotDue' /\ PaidIsDue'
    BY <2>1 DEF IInv, ConfirmedIsNotDue, PaidIsDue, EarlyRewardNeedsRace, IsDue, At
  <2>3. QED
    BY <2>1, <2>2, RowsKept DEF IInv
<1>4. ASSUME NEW r \in Referral, Reject(r) PROVE Kept
  <2>1. /\ UNCHANGED <<now, ref, jobs, raced>>
        /\ tasks' = tasks \cup {[kind |-> "rejected", ref |-> r, pc |-> "write"]}
    BY <1>4 DEF Reject, Begin
  <2>2. ConfirmedIsNotDue' /\ PaidIsDue'
    BY <2>1 DEF IInv, ConfirmedIsNotDue, PaidIsDue, IsDue, At
  <2>3. QED
    BY <2>1, <2>2, RowsKept DEF IInv
<1>5. ASSUME NEW r \in Referral, NEW kind \in {"confirm", "reset"}, Webhook(r, kind)
      PROVE  Kept
  <2>1. /\ UNCHANGED <<now, ref, jobs, raced>>
        /\ tasks' = tasks \cup {[kind |-> kind, ref |-> r,
                                 pc |-> IF kind = "confirm" THEN "document" ELSE "write"]}
    BY <1>5 DEF Webhook, Begin
  <2>2. ConfirmedIsNotDue' /\ PaidIsDue'
    BY <2>1 DEF IInv, ConfirmedIsNotDue, PaidIsDue, IsDue, At
  <2>3. QED
    BY <2>1, <2>2, RowsKept DEF IInv
<1>6. ASSUME NEW t \in tasks, TaskStep(t) PROVE Kept
  <2>1. CASE ConfirmDocument(t)
    <3>1. /\ UNCHANGED <<now, ref, jobs, raced>>
          /\ t \in Task /\ t.kind = "confirm"
          /\ tasks' = (tasks \ {t}) \cup {[t EXCEPT !.pc = "find"]}
      BY <1>0, <2>1 DEF ConfirmDocument, Goto, At
    <3>2. [t EXCEPT !.pc = "find"].kind = "confirm" /\ [t EXCEPT !.pc = "find"].pc = "find"
      BY <3>1 DEF Task
    <3>3. ConfirmedIsNotDue' /\ PaidIsDue'
      BY <3>1, <3>2 DEF IInv, ConfirmedIsNotDue, PaidIsDue, IsDue, At
    <3>4. QED
      BY <3>1, <3>3, RowsKept DEF IInv
  <2>2. CASE ConfirmFind(t) /\ MayConfirm(ref[t.ref])
    <3>1. /\ UNCHANGED <<now, ref, jobs, raced>>
          /\ t \in Task /\ t.kind = "confirm"
          /\ tasks' = (tasks \ {t}) \cup {[t EXCEPT !.pc = "write"]}
      BY <1>0, <2>2 DEF ConfirmFind, Goto, At
    <3>2. /\ [t EXCEPT !.pc = "write"].kind = "confirm"
          /\ [t EXCEPT !.pc = "write"].ref = t.ref
      BY <3>1 DEF Task
    <3>3. ~ IsDue(t.ref)
      BY <2>2 DEF MayConfirm, IsDue
    <3>4. ConfirmedIsNotDue' /\ PaidIsDue'
      BY <3>1, <3>2, <3>3 DEF IInv, ConfirmedIsNotDue, PaidIsDue, IsDue, At
    <3>5. QED
      BY <3>1, <3>4, RowsKept DEF IInv
  <2>3. CASE ConfirmFind(t) /\ ~ MayConfirm(ref[t.ref])
    BY <2>3, RowsKept DEF ConfirmFind, Done, IInv
  <2>4. CASE ConfirmWrite(t)
    BY <2>4, ConfirmWriteInv
  <2>5. CASE ResetWaitingPeriod(t)
    BY <2>5, ResetInv
  <2>6. CASE AdminWrite(t)
    BY <2>6, AdminWriteInv
  <2>7. QED
    BY <1>6, <2>1, <2>2, <2>3, <2>4, <2>5, <2>6 DEF TaskStep
<1>7. ASSUME NEW t \in tasks, TaskFails(t) PROVE Kept
  BY <1>7, RowsKept DEF TaskFails, Done, IInv
<1>8. CASE JobStart
  <2> DEFINE left == {r \in Candidates : user[r].active}
             j == [left |-> left, suspect |-> Suspect(Candidates) \cap left,
                   chosen |-> {}, passed |-> FALSE]
  <2>1. UNCHANGED <<now, ref, tasks, raced>> /\ jobs' = jobs \cup {j}
    BY <1>8 DEF JobStart
  <2>2. \A r \in j.left : IsDue(r)
    BY <1>0 DEF Candidates, IsDue, IInv, WaitingHasEnd, TypeOK, Row
  <2>3. HeldIsDue'
    BY <2>1, <2>2 DEF IInv, HeldIsDue, IsDue
  <2>4. QED
    BY <2>1, <2>3, RowsKept DEF IInv
<1>9. ASSUME NEW j \in jobs, JobCheck(j) PROVE Kept
  <2>1. PICK r \in j.left :
          jobs' = (jobs \ {j}) \cup {[j EXCEPT !.chosen = {r}, !.passed = Passes(j, r)]}
    BY <1>9 DEF JobCheck
  <2>2. UNCHANGED <<now, ref, tasks, raced>> /\ j \in Job
    BY <1>0, <1>9 DEF JobCheck
  <2>3. /\ [j EXCEPT !.chosen = {r}, !.passed = Passes(j, r)].left = j.left
        /\ [j EXCEPT !.chosen = {r}, !.passed = Passes(j, r)].chosen = {r}
    BY <2>2 DEF Job
  <2>4. HeldIsDue'
    BY <2>1, <2>2, <2>3 DEF IInv, HeldIsDue, IsDue
  <2>5. QED
    BY <2>2, <2>4, RowsKept DEF IInv
<1>10. ASSUME NEW j \in jobs, JobWrite(j) PROVE Kept
  BY <1>10, JobWriteInv
<1>11. ASSUME NEW j \in jobs, JobFails(j) PROVE Kept
  BY <1>11, RowsKept DEF JobFails, IInv
<1>12. CASE Tick
  <2>1. /\ now' = now + 1 /\ UNCHANGED <<ref, tasks, jobs, raced>>
        /\ tasks = {} /\ jobs = {} /\ now \in Nat
    BY <1>12 DEF Tick, IInv, TypeOK
  <2>2. EarlyRewardNeedsRace'
    BY <2>1 DEF IInv, EarlyRewardNeedsRace
  <2>3. QED
    BY <2>1, <2>2
    DEF IInv, WaitingHasEnd, HeldIsDue, ConfirmedIsNotDue, PaidIsDue
<1>13. CASE UNCHANGED vars
  BY <1>13, RowsKept DEF vars, IInv
<1>14. QED
  BY <1>1, <1>2, <1>3, <1>4, <1>5, <1>6, <1>7, <1>8, <1>9, <1>10, <1>11, <1>12, <1>13
  DEF Next, JobStep

----------------------------------------------------------------------------
(* The inductive invariant: what runs and requests hold of a row nobody     *)
(* wrote under a run is still so when they write it.                        *)
THEOREM ReferralsInvariance == Spec => []IInv
  BY InvInit, InvNext, PTL DEF Spec

(* Referrals, users, handlers and runs keep their types.                    *)
THEOREM ReferralsTypeCorrect == Spec => []TypeOK
<1>1. IInv => TypeOK
  BY DEF IInv
<1>2. QED
  BY <1>1, ReferralsInvariance, PTL

(* confirmPayment, resetWaitingPeriod, processEligible, markPaid and reject *)
(* grant no reward before the waiting period of a confirmed payment is over *)
(* unless a row was written while a run of the job held it, however many of *)
(* them are in flight.                                                      *)
THEOREM RewardsAreDue == Spec => []EarlyRewardNeedsRace
<1>1. IInv => EarlyRewardNeedsRace
  BY DEF IInv
<1>2. QED
  BY <1>1, ReferralsInvariance, PTL
----------------------------------------------------------------------------
(* One administrator at a time. Nothing but MaxAdmins keeps a rejection     *)
(* from being decided before a payout and written after it.                 *)

Admins(t) == t.kind \in {"paid", "rejected"}
Hooks(t) == t.kind \in {"confirm", "reset"}

OneAdmin == \A t, u \in tasks : Admins(t) /\ Admins(u) => t = u
OneHook == \A t, u \in tasks : Hooks(t) /\ Hooks(u) => t = u
OneJob == \A i, j \in jobs : i = j

Finite == IsFiniteSet(tasks) /\ IsFiniteSet(jobs)

(* What a run holds was neither paid out nor rejected. *)
HeldIsOpen ==
  \A j \in jobs : \A r \in j.left :
    r \notin raced => ~ ref[r].paid /\ ref[r].status \notin {"PAID", "REJECTED"}

(* What the administrator decided on is still as it was judged. *)
AdminHolds ==
  \A t \in tasks : t.ref \notin raced =>
    /\ t.kind = "paid" => ref[t.ref].status # "REJECTED"
    /\ t.kind = "rejected" => ~ ref[t.ref].paid

AdminInv == Finite /\ OneAdmin /\ HeldIsOpen /\ AdminHolds /\ PaidIsFinal

LEMMA FiniteNext == Finite /\ [Next]_vars => Finite'
<1> SUFFICES ASSUME Finite, [Next]_vars PROVE Finite'
  OBVIOUS
<1>1. /\ \E x : tasks' \subseteq tasks \cup {x}
      /\ \E x : jobs' \subseteq jobs \cup {x}
  <2>1. ASSUME NEW r \in Referral,
               \/ Register(r) \/ AccountChanges(r) \/ MarkPaid(r) \/ Reject(r)
               \/ Webhook(r, "confirm") \/ Webhook(r, "reset")
        PROVE  (\E x : tasks' \subseteq tasks \cup {x}) /\ jobs' = jobs
    BY <2>1 DEF Register, AccountChanges, MarkPaid, Reject, Webhook, Begin
  <2>2. ASSUME NEW t \in tasks, TaskStep(t) \/ TaskFails(t)
        PROVE  (\E x : tasks' \subseteq tasks \cup {x}) /\ jobs' = jobs
    BY <2>2 DEF TaskStep, TaskFails, ConfirmDocument, ConfirmFind, ConfirmWrite,
                ResetWaitingPeriod, AdminWrite, Goto, Done
  <2>3. ASSUME JobStart \/ JobStep \/ (\E j \in jobs : JobFails(j)) \/ Tick
        PROVE  tasks' = tasks /\ \E x : jobs' \subseteq jobs \cup {x}
    BY <2>3 DEF JobStart, JobStep, JobCheck, JobWrite, JobGoesOn, JobFails, Tick
  <2> QED
    BY <2>1, <2>2, <2>3 DEF Next, vars
<1> QED
  BY <1>1, FS_AddElement, FS_Subset DEF Finite

(* A bound of one leaves room only when there is none. *)
LEMMA NoneBusy ==
  ASSUME Finite, NEW kinds, NEW n \in Nat, n <= 1, Busy(kinds) < n
  PROVE  \A t \in tasks : t.kind \notin kinds
<1> DEFINE busy == {t \in tasks : t.kind \in kinds}
<1>1. IsFiniteSet(busy)
  BY FS_Subset DEF Finite
<1>2. Cardinality(busy) \in Nat /\ Cardinality(busy) < n
  BY <1>1, FS_CardinalityType DEF Busy
<1>3. Cardinality(busy) = 0
  BY <1>2
<1> QED
  BY <1>1, <1>3, FS_EmptySet

(* A handler of row r that writes it leaves the other rows and, if a run    *)
(* holds r, a trace of it.                                                  *)
Writes(t) ==
  /\ \A q \in Referral \ {t.ref} : ref'[q] = ref[q]
  /\ Races(t.ref) /\ tasks' = tasks \ {t} /\ jobs' = jobs

LEMMA WriteSteps ==
  ASSUME TypeOK, NEW t \in tasks, ConfirmWrite(t) \/ ResetWaitingPeriod(t) \/ AdminWrite(t)
  PROVE  Writes(t) /\ t \in Task /\ t.ref \in Referral
<1>1. t \in Task /\ t.ref \in Referral /\ ref \in [Referral -> Row]
  BY DEF TypeOK, Task
<1> QED
  BY <1>1 DEF Writes, ConfirmWrite, ResetWaitingPeriod, AdminWrite, Done

LEMMA AdminQuiet ==
  ASSUME AdminInv, Finite', UNCHANGED <<ref, raced>>,
         \A u \in tasks' : u \in tasks \/ ~ Admins(u),
         \A j \in jobs' : \E i \in jobs : j.left \subseteq i.left
  PROVE  AdminInv'
<1>1. OneAdmin'
  BY DEF AdminInv, OneAdmin
<1>2. HeldIsOpen'
  BY DEF AdminInv, HeldIsOpen
<1>3. AdminHolds'
  BY DEF AdminInv, AdminHolds, Admins
<1> QED
  BY <1>1, <1>2, <1>3 DEF AdminInv, PaidIsFinal

LEMMA AdminWrites ==
  ASSUME IInv, AdminInv, Finite', NEW t \in tasks,
         ConfirmWrite(t) \/ ResetWaitingPeriod(t) \/ AdminWrite(t)
  PROVE  AdminInv'
<1> PICK r : r = t.ref
  OBVIOUS
<1>1. Writes(t) /\ r \in Referral /\ ref \in [Referral -> Row] /\ jobs \subseteq Job
      /\ tasks \subseteq Task
  BY WriteSteps DEF IInv, TypeOK
<1>2. /\ \A q \in Referral \ {r} : ref'[q] = ref[q]
      /\ tasks' = tasks \ {t} /\ jobs' = jobs /\ raced \subseteq raced'
      /\ \A j \in jobs : r \in j.left => r \in raced'
      /\ \A q \in Referral \ {r} : q \in raced' => q \in raced
  BY <1>1, RacesFact DEF Writes
<1>3. r \notin raced /\ ref[r].paid => IsDue(r) /\ ref[r].status = "PAID"
  BY <1>1 DEF IInv, AdminInv, PaidIsFinal, EarlyRewardNeedsRace, IsDue
<1>4. r \notin raced =>
        /\ ref'[r].paid => ref'[r].status = "PAID"
        /\ \A u \in tasks' : u.ref = r /\ u.kind = "paid" => ref'[r].status # "REJECTED"
        /\ \A u \in tasks' : u.ref = r /\ u.kind = "rejected" => ~ ref'[r].paid
  <2> SUFFICES ASSUME r \notin raced
               PROVE  /\ ref'[r].paid => ref'[r].status = "PAID"
                      /\ \A u \in tasks' : u.ref = r /\ u.kind = "paid" =>
                           ref'[r].status # "REJECTED"
                      /\ \A u \in tasks' : u.ref = r /\ u.kind = "rejected" =>
                           ~ ref'[r].paid
    OBVIOUS
  <2>h. \A u \in tasks : u.ref = r /\ u.kind = "rejected" => ~ ref[r].paid
    BY DEF AdminInv, AdminHolds
  <2>1. CASE ConfirmWrite(t)
    <3>1. ref'[r].status = "PENDING_WAITING_PERIOD" /\ ref'[r].paid = ref[r].paid
      BY <1>1, <2>1 DEF ConfirmWrite, Row
    <3>2. ~ IsDue(r)
      BY <2>1 DEF IInv, ConfirmedIsNotDue, ConfirmWrite
    <3> QED
      BY <1>2, <1>3, <2>h, <3>1, <3>2
  <2>2. CASE ResetWaitingPeriod(t)
    <3>1. \/ ref' = ref
          \/ /\ ref[r].status = "PENDING_WAITING_PERIOD"
             /\ ref'[r].status = "PENDING_PAYMENT" /\ ref'[r].paid = ref[r].paid
      BY <1>1, <2>2 DEF ResetWaitingPeriod, Row
    <3>2. \A u \in tasks : u.ref = r /\ u.kind = "paid" => ref[r].status # "REJECTED"
      BY DEF AdminInv, AdminHolds
    <3> QED
      BY <1>2, <1>3, <2>h, <3>1, <3>2
  <2>3. CASE AdminWrite(t)
    <3>1. Admins(t) /\ \A u \in tasks' : ~ Admins(u)
      BY <1>2, <2>3 DEF AdminInv, OneAdmin, AdminWrite, At, Admins
    <3>2. \/ ref'[r].status = "PAID"
          \/ t.kind = "rejected" /\ ref'[r].paid = ref[r].paid
      BY <1>1, <2>3 DEF AdminWrite, At, Row
    <3> QED
      BY <2>h, <3>1, <3>2 DEF Admins
  <2> QED
    BY <2>1, <2>2, <2>3
<1>5. HeldIsOpen'
  <2>1. \A j \in jobs : \A q \in j.left : q \in Referral
    BY <1>1 DEF Job
  <2> QED
    BY <1>2, <2>1 DEF AdminInv, HeldIsOpen
<1>6. AdminHolds'
  <2>1. \A u \in tasks : u.ref \in Referral
    BY <1>1 DEF Task
  <2> QED
    BY <1>2, <1>4, <2>1 DEF AdminInv, AdminHolds
<1>7. PaidIsFinal'
  BY <1>2, <1>4 DEF AdminInv, PaidIsFinal
<1>8. OneAdmin'
  BY <1>2 DEF AdminInv, OneAdmin
<1> QED
  BY <1>5, <1>6, <1>7, <1>8 DEF AdminInv

LEMMA AdminNext ==
  ASSUME MaxAdmins <= 1
  PROVE  IInv /\ AdminInv /\ [Next]_vars => AdminInv'
<1> SUFFICES ASSUME IInv, AdminInv, [Next]_vars PROVE AdminInv'
  OBVIOUS
<1>0. Finite /\ Finite' /\ ref \in [Referral -> Row] /\ tasks \subseteq Task
      /\ jobs \subseteq Job /\ MaxAdmins \in Nat
  BY FiniteNext, ReferralsAssumption DEF AdminInv, IInv, TypeOK
<1>1. ASSUME NEW r \in Referral, Register(r) PROVE AdminInv'
  <2>1. /\ ref[r].status = "NONE"
        /\ ref'[r].status = "PENDING_PAYMENT" /\ ref'[r].paid = ref[r].paid
        /\ \A q \in Referral \ {r} : ref'[q] = ref[q]
        /\ UNCHANGED <<tasks, jobs, raced>>
    BY <1>0, <1>1 DEF Register, Row
  <2>2. HeldIsOpen' /\ AdminHolds' /\ PaidIsFinal'
    BY <1>0, <2>1 DEF AdminInv, HeldIsOpen, AdminHolds, PaidIsFinal, Job, Task
  <2> QED
    BY <1>0, <2>1, <2>2 DEF AdminInv, OneAdmin
<1>2. ASSUME NEW r \in Referral,
             AccountChanges(r) \/ \E kind \in {"confirm", "reset"} : Webhook(r, kind)
      PROVE  AdminInv'
  BY <1>0, <1>2, AdminQuiet DEF AccountChanges, Webhook, Begin, Admins
<1>3. ASSUME NEW r \in Referral, NEW kind \in {"paid", "rejected"}, Begin(kind, r, "write"),
             Busy({"paid", "rejected"}) < MaxAdmins, UNCHANGED <<ref, jobs, raced>>,
             kind = "paid" => ref[r].status = "ELIGIBLE",
             kind = "rejected" => ref[r].status # "PAID"
      PROVE  AdminInv'
  <2>1. \A u \in tasks : ~ Admins(u)
    BY <1>0, <1>3, NoneBusy DEF Admins
  <2>2. PICK x : /\ x.kind = kind /\ x.ref = r /\ tasks' = tasks \cup {x}
    BY <1>3 DEF Begin
  <2>3. OneAdmin' /\ AdminHolds'
    BY <1>3, <2>1, <2>2 DEF OneAdmin, AdminInv, AdminHolds, PaidIsFinal, Admins
  <2> QED
    BY <1>0, <1>3, <2>3 DEF AdminInv, HeldIsOpen, PaidIsFinal
<1>4. ASSUME NEW r \in Referral, MarkPaid(r) \/ Reject(r) PROVE AdminInv'
  BY <1>3, <1>4 DEF MarkPaid, Reject, MayReject
<1>5. ASSUME NEW t \in tasks, ConfirmDocument(t) \/ ConfirmFind(t) PROVE AdminInv'
  <2>1. \A pc : [t EXCEPT !.pc = pc].kind = t.kind
    BY <1>0 DEF Task
  <2>2. t.kind = "confirm" /\ UNCHANGED <<ref, raced, jobs>>
        /\ \A u \in tasks' : u \in tasks \/ u.kind = t.kind
    BY <1>5, <2>1 DEF ConfirmDocument, ConfirmFind, At, Goto, Done
  <2> QED
    BY <1>0, <2>2, AdminQuiet DEF Admins
<1>6. ASSUME NEW t \in tasks, TaskStep(t) PROVE AdminInv'
  BY <1>0, <1>5, <1>6, AdminWrites DEF TaskStep
<1>7. ASSUME NEW t \in tasks, TaskFails(t) PROVE AdminInv'
  BY <1>0, <1>7, AdminQuiet DEF TaskFails, Done
<1>8. CASE JobStart
  <2>1. PICK j : /\ j.left = {r \in Candidates : user[r].active}
                 /\ jobs' = jobs \cup {j}
                 /\ UNCHANGED <<ref, tasks, raced>>
    BY <1>8 DEF JobStart
  <2>2. HeldIsOpen'
    BY <2>1 DEF AdminInv, HeldIsOpen, PaidIsFinal, Candidates
  <2> QED
    BY <1>0, <2>1, <2>2 DEF AdminInv, OneAdmin, AdminHolds, PaidIsFinal
<1>9. ASSUME NEW j \in jobs, JobCheck(j) PROVE AdminInv'
  <2>1. PICK r \in j.left :
          jobs' = (jobs \ {j}) \cup {[j EXCEPT !.chosen = {r}, !.passed = Passes(j, r)]}
    BY <1>9 DEF JobCheck
  <2>2. [j EXCEPT !.chosen = {r}, !.passed = Passes(j, r)].left = j.left
    BY <1>0 DEF Job
  <2>3. \A k \in jobs' : \E i \in jobs : k.left \subseteq i.left
    BY <2>1, <2>2
  <2> QED
    BY <1>0, <1>9, <2>3, AdminQuiet DEF JobCheck
<1>10. ASSUME NEW j \in jobs, JobWrite(j) PROVE AdminInv'
  <2>1. PICK r \in j.chosen :
          /\ ref' = [ref EXCEPT ![r].status =
                       IF j.passed THEN "ELIGIBLE" ELSE "NEEDS_REVIEW"]
          /\ JobGoesOn(j, r)
    BY <1>10 DEF JobWrite
  <2>2. r \in Referral /\ r \in j.left /\ j \in Job /\ UNCHANGED <<tasks, raced>>
    BY <1>0, <1>10, <2>1 DEF IInv, HeldIsDue, Job, JobWrite
  <2>3. /\ ref'[r].status \in {"ELIGIBLE", "NEEDS_REVIEW"} /\ ref'[r].paid = ref[r].paid
        /\ \A q \in Referral \ {r} : ref'[q] = ref[q]
    BY <1>0, <2>1, <2>2 DEF Row
  <2>4. \A k \in jobs' : \E i \in jobs : k.left \subseteq i.left /\ k.left \subseteq Referral
    <3>1. PICK x : x = [j EXCEPT !.left = j.left \ {r}, !.suspect = j.suspect \ {r},
                                 !.chosen = {}, !.passed = FALSE]
      OBVIOUS
    <3>2. x.left = j.left \ {r}
      BY <2>2, <3>1 DEF Job
    <3>3. jobs' \subseteq (jobs \ {j}) \cup {x}
      BY <2>1, <3>1 DEF JobGoesOn
    <3>4. \A i \in jobs : i.left \subseteq Referral
      BY <1>0 DEF Job
    <3> QED
      BY <2>2, <3>2, <3>3, <3>4
  <2>5. HeldIsOpen'
    BY <2>2, <2>3, <2>4 DEF AdminInv, HeldIsOpen
  <2>6. AdminHolds'
    BY <1>0, <2>2, <2>3 DEF AdminInv, AdminHolds, Task
  <2>7. PaidIsFinal'
    BY <2>2, <2>3 DEF AdminInv, PaidIsFinal, HeldIsOpen
  <2> QED
    BY <1>0, <2>2, <2>5, <2>6, <2>7 DEF AdminInv, OneAdmin
<1>11. ASSUME NEW j \in jobs, JobFails(j) PROVE AdminInv'
  BY <1>0, <1>11, AdminQuiet DEF JobFails
<1>12. CASE Tick \/ UNCHANGED vars
  BY <1>0, <1>12, AdminQuiet DEF Tick, vars
<1> QED
  BY <1>1, <1>2, <1>4, <1>6, <1>7, <1>8, <1>9, <1>10, <1>11, <1>12 DEF Next, JobStep

LEMMA AdminInit == Init => AdminInv
  BY FS_EmptySet
  DEF Init, AdminInv, Finite, OneAdmin, HeldIsOpen, AdminHolds, PaidIsFinal

(* A reward that was paid out stays PAID while one administrator at a time  *)
(* decides, unless its row was written while a run of the job held it,      *)
(* however many confirmations and runs are in flight.                       *)
THEOREM PaidStaysPaid ==
  ASSUME MaxAdmins <= 1
  PROVE  Spec => []PaidIsFinal
<1>1. AdminInv => PaidIsFinal
  BY DEF AdminInv
<1>2. Init => AdminInv
  BY AdminInit
<1>3. IInv /\ AdminInv /\ [Next]_vars => AdminInv'
  BY AdminNext
<1> QED
  BY <1>1, <1>2, <1>3, ReferralsInvariance, PTL DEF Spec
----------------------------------------------------------------------------
(* One webhook of a user at a time: what confirmPayment is about to confirm *)
(* was not confirmed by another.                                            *)

HookInv ==
  /\ Finite /\ OneHook
  /\ \A t \in tasks : At(t, "confirm", "write") => ref[t.ref].due = 0

LEMMA HookQuiet ==
  ASSUME HookInv, Finite', tasks \subseteq Task,
         \A q \in Referral : ref'[q].due = ref[q].due,
         \A u \in tasks' : u \in tasks \/ ~ Hooks(u)
  PROVE  HookInv'
<1>1. OneHook'
  BY DEF HookInv, OneHook
<1>2. \A t \in tasks' : At(t, "confirm", "write") => ref'[t.ref].due = 0
  BY DEF HookInv, At, Hooks, Task
<1> QED
  BY <1>1, <1>2 DEF HookInv, At

LEMMA HookNext ==
  ASSUME MaxWebhooks <= 1
  PROVE  IInv /\ HookInv /\ [Next]_vars => HookInv'
<1> SUFFICES ASSUME IInv, HookInv, [Next]_vars PROVE HookInv'
  OBVIOUS
<1>0. Finite /\ Finite' /\ ref \in [Referral -> Row] /\ tasks \subseteq Task
      /\ jobs \subseteq Job /\ MaxWebhooks \in Nat /\ OneHook
  BY FiniteNext, ReferralsAssumption DEF HookInv, IInv, TypeOK
<1>1. ASSUME NEW r \in Referral, Register(r) PROVE HookInv'
  <2>1. (\A q \in Referral : ref'[q].due = ref[q].due) /\ UNCHANGED tasks
    BY <1>0, <1>1 DEF Register, Row
  <2> QED
    BY <1>0, <2>1, HookQuiet
<1>2. ASSUME NEW r \in Referral, AccountChanges(r) \/ MarkPaid(r) \/ Reject(r)
      PROVE  HookInv'
  BY <1>0, <1>2, HookQuiet DEF AccountChanges, MarkPaid, Reject, Begin, Hooks
<1>3. ASSUME NEW r \in Referral, NEW kind \in {"confirm", "reset"}, Webhook(r, kind)
      PROVE  HookInv'
  <2>1. \A u \in tasks : ~ Hooks(u)
    BY <1>0, <1>3, NoneBusy DEF Webhook, Hooks
  <2>2. PICK x : x = [kind |-> kind, ref |-> r,
                      pc |-> IF kind = "confirm" THEN "document" ELSE "write"]
    OBVIOUS
  <2>3. ~ At(x, "confirm", "write") /\ tasks' = tasks \cup {x} /\ ref' = ref
    BY <1>3, <2>2 DEF Webhook, Begin, At
  <2>4. \A u \in tasks' : ~ At(u, "confirm", "write")
    BY <2>1, <2>3 DEF At, Hooks
  <2>5. OneHook'
    BY <2>1, <2>3 DEF OneHook
  <2> QED
    BY <1>0, <2>4, <2>5 DEF HookInv, At
<1>4. ASSUME NEW t \in tasks, ConfirmDocument(t) \/ ConfirmFind(t) PROVE HookInv'
  <2>1. \A pc : /\ [t EXCEPT !.pc = pc].kind = t.kind /\ [t EXCEPT !.pc = pc].ref = t.ref
                /\ [t EXCEPT !.pc = pc].pc = pc
    BY <1>0 DEF Task
  <2>2. Hooks(t) /\ ref' = ref
    BY <1>4 DEF ConfirmDocument, ConfirmFind, At, Hooks
  <2>3. PICK x : /\ tasks' \subseteq (tasks \ {t}) \cup {x}
                 /\ x \in tasks' /\ At(x, "confirm", "write") => ref[x.ref].due = 0
    <3>1. CASE ConfirmDocument(t)
      <4> PICK x : x = [t EXCEPT !.pc = "find"]
        OBVIOUS
      <4>1. tasks' = (tasks \ {t}) \cup {x} /\ x.pc = "find"
        BY <2>1, <3>1 DEF ConfirmDocument, Goto
      <4> QED
        BY <4>1 DEF At
    <3>2. CASE ConfirmFind(t)
      <4> PICK x : x = [t EXCEPT !.pc = "write"]
        OBVIOUS
      <4>1. /\ tasks' \subseteq (tasks \ {t}) \cup {x} /\ x.ref = t.ref
            /\ x \in tasks' => x \in tasks \ {t} \/ ref[t.ref].due = 0
        BY <2>1, <3>2 DEF ConfirmFind, MayConfirm, Goto, Done
      <4> QED
        BY <4>1 DEF HookInv
    <3> QED
      BY <1>4, <3>1, <3>2
  <2>4. \A u \in tasks \ {t} : ~ Hooks(u)
    BY <1>0, <2>2 DEF OneHook
  <2>5. OneHook'
    BY <2>3, <2>4 DEF OneHook
  <2>6. \A u \in tasks' : At(u, "confirm", "write") => ref'[u.ref].due = 0
    BY <2>2, <2>3, <2>4 DEF At, Hooks
  <2> QED
    BY <1>0, <2>5, <2>6 DEF HookInv, At
<1>5. ASSUME NEW t \in tasks, ConfirmWrite(t) \/ ResetWaitingPeriod(t) PROVE HookInv'
  <2>1. Hooks(t) /\ tasks' = tasks \ {t}
    BY <1>5 DEF ConfirmWrite, ResetWaitingPeriod, At, Hooks, Done
  <2>2. \A u \in tasks' : ~ Hooks(u)
    BY <1>0, <2>1 DEF OneHook
  <2> QED
    BY <1>0, <2>2 DEF HookInv, OneHook, At, Hooks
<1>6. ASSUME NEW t \in tasks, AdminWrite(t) PROVE HookInv'
  <2>1. (\A q \in Referral : ref'[q].due = ref[q].due) /\ tasks' \subseteq tasks
    BY <1>0, <1>6 DEF AdminWrite, Done, Row
  <2> QED
    BY <1>0, <2>1, HookQuiet
<1>7. ASSUME NEW t \in tasks, TaskFails(t) PROVE HookInv'
  BY <1>0, <1>7, HookQuiet DEF TaskFails, Done
<1>8. ASSUME NEW j \in jobs, JobWrite(j) PROVE HookInv'
  <2>1. (\A q \in Referral : ref'[q].due = ref[q].due) /\ tasks' = tasks
    BY <1>0, <1>8 DEF JobWrite, Row
  <2> QED
    BY <1>0, <2>1, HookQuiet
<1>9. ASSUME \/ JobStart \/ Tick \/ UNCHANGED vars
             \/ \E j \in jobs : JobCheck(j) \/ JobFails(j)
      PROVE  HookInv'
  BY <1>0, <1>9, HookQuiet DEF JobStart, JobCheck, JobFails, Tick, vars
<1> QED
  BY <1>1, <1>2, <1>3, <1>4, <1>5, <1>6, <1>7, <1>8, <1>9 DEF Next, TaskStep, JobStep

LEMMA HookInit == Init => HookInv
  BY FS_EmptySet DEF Init, HookInv, Finite, OneHook

(* A rejection is undone by a first confirmation only, or by a run that     *)
(* held the row: a second payment, a payout decided before it or a run that *)
(* starts later never does, while webhooks and administrators take turns.   *)
THEOREM RejectionsStay ==
  ASSUME MaxAdmins <= 1, MaxWebhooks <= 1
  PROVE  Spec => ConfirmedRejectionStays
<1>1. IInv /\ AdminInv /\ HookInv /\ [Next]_vars =>
        [\A r \in Referral :
           ref[r].status = "REJECTED" /\ ref'[r].status # "REJECTED"
             => ref[r].due = 0 \/ r \in raced]_vars
  <2> SUFFICES ASSUME IInv, AdminInv, HookInv, Next, NEW r \in Referral, r \notin raced,
                      ref[r].status = "REJECTED", ref'[r].status # "REJECTED"
               PROVE  ref[r].due = 0
    OBVIOUS
  <2>0. ref \in [Referral -> Row] /\ tasks \subseteq Task /\ jobs \subseteq Job
    BY DEF IInv, TypeOK
  <2>1. ASSUME NEW q \in Referral, Register(q) PROVE FALSE
    BY <2>0, <2>1 DEF Register, Row
  <2>2. ASSUME NEW t \in tasks, ConfirmWrite(t) PROVE ref[r].due = 0
    <3>1. t.ref = r
      BY <2>0, <2>2, WriteSteps DEF Writes, IInv
    <3> QED
      BY <2>2, <3>1 DEF HookInv, ConfirmWrite
  <2>3. ASSUME NEW t \in tasks, ResetWaitingPeriod(t) PROVE FALSE
    <3>1. t.ref = r
      BY <2>0, <2>3, WriteSteps DEF Writes, IInv
    <3> QED
      BY <2>3, <3>1 DEF ResetWaitingPeriod
  <2>4. ASSUME NEW t \in tasks, AdminWrite(t) PROVE FALSE
    <3>1. t.ref = r
      BY <2>0, <2>4, WriteSteps DEF Writes, IInv
    <3>2. t.kind = "paid"
      BY <2>0, <2>4, <3>1 DEF AdminWrite, At, Row
    <3> QED
      BY <3>1, <3>2 DEF AdminInv, AdminHolds
  <2>5. ASSUME NEW j \in jobs, JobWrite(j) PROVE FALSE
    <3>1. r \in j.chosen
      BY <2>0, <2>5 DEF JobWrite
    <3> QED
      BY <3>1 DEF AdminInv, HeldIsOpen, IInv, HeldIsDue
  <2>6. ref' # ref
    OBVIOUS
  <2> QED
    BY <2>1, <2>2, <2>3, <2>4, <2>5, <2>6
    DEF Next, TaskStep, JobStep, AccountChanges, MarkPaid, Reject, Webhook,
        ConfirmDocument, ConfirmFind, TaskFails, JobStart, JobCheck, JobFails, Tick
<1>2. Init => AdminInv /\ HookInv
  BY AdminInit, HookInit
<1>3. IInv /\ AdminInv /\ HookInv /\ [Next]_vars => AdminInv' /\ HookInv'
  BY AdminNext, HookNext
<1> QED
  BY <1>1, <1>2, <1>3, ReferralsInvariance, PTL DEF Spec, ConfirmedRejectionStays
----------------------------------------------------------------------------
(* One run of the job at a time: the antifraud query and the write after it *)
(* are two steps, and another run between them would grant a reward of the  *)
(* same document.                                                           *)

Granted(r) == ref[r].status \in {"ELIGIBLE", "PAID"}
Known(r) == user[r].document = DocumentOf[r]

(* A document that was stored is never stored otherwise. *)
DocumentsFixed == \A r \in Referral : Known(r) \/ user[r].document = NoDocument

HeldIsWaiting ==
  \A j \in jobs : \A r \in j.left :
    /\ r \notin raced => ref[r].status = "PENDING_WAITING_PERIOD"
    /\ r \notin j.suspect => Known(r)

(* What passed the query may be granted: nobody was granted one meanwhile.  *)
PassedIsAlone ==
  \A j \in jobs : \A r \in j.chosen : j.passed =>
    /\ r \notin j.suspect
    /\ \A q \in Referral \ {r} :
         q \notin raced /\ Granted(q) => DocumentOf[q] # DocumentOf[r]

PayoutIsEligible ==
  \A t \in tasks : t.kind = "paid" /\ t.ref \notin raced => ref[t.ref].status = "ELIGIBLE"

GrantedIsKnown == \A r \in Referral \ raced : Granted(r) => Known(r)

JobInv ==
  /\ OneJob /\ DocumentsFixed /\ HeldIsWaiting /\ PassedIsAlone /\ PayoutIsEligible
  /\ GrantedIsKnown /\ OneRewardPerDocument

(* Documents become known, handlers end, runs fail. *)
LEMMA JobQuiet ==
  ASSUME JobInv, jobs \subseteq Job, UNCHANGED <<ref, raced>>, jobs' \subseteq jobs,
         \A q \in Referral : Known(q)' \/ user'[q] = user[q]
                             \/ user'[q].document = user[q].document,
         \A u \in tasks' : u.kind = "paid" => u \in tasks \/ ref[u.ref].status = "ELIGIBLE"
  PROVE  JobInv'
<1>1. \A q \in Referral : /\ Known(q) => Known(q)'
                          /\ Known(q)' \/ user'[q].document = NoDocument
  BY DEF JobInv, DocumentsFixed, Known
<1>2. OneJob' /\ DocumentsFixed'
  BY <1>1 DEF JobInv, OneJob, DocumentsFixed
<1>3. HeldIsWaiting' /\ PassedIsAlone'
  BY <1>1 DEF JobInv, HeldIsWaiting, PassedIsAlone, Granted, Job
<1>4. PayoutIsEligible'
  BY DEF JobInv, PayoutIsEligible
<1>5. GrantedIsKnown' /\ OneRewardPerDocument'
  BY <1>1 DEF JobInv, GrantedIsKnown, Granted, OneRewardPerDocument
<1> QED
  BY <1>2, <1>3, <1>4, <1>5 DEF JobInv

LEMMA JobWrites ==
  ASSUME IInv, AdminInv, JobInv, NEW t \in tasks,
         ConfirmWrite(t) \/ ResetWaitingPeriod(t) \/ AdminWrite(t)
  PROVE  JobInv'
<1> PICK r : r = t.ref
  OBVIOUS
<1>1. Writes(t) /\ r \in Referral /\ ref \in [Referral -> Row] /\ jobs \subseteq Job
      /\ tasks \subseteq Task /\ t \in Task
  BY WriteSteps DEF IInv, TypeOK
<1>2. /\ \A q \in Referral \ {r} : ref'[q] = ref[q]
      /\ tasks' = tasks \ {t} /\ jobs' = jobs /\ raced \subseteq raced' /\ user' = user
      /\ \A j \in jobs : r \in j.left => r \in raced'
  BY <1>1, RacesFact DEF Writes, ConfirmWrite, ResetWaitingPeriod, AdminWrite
<1>3. r \notin raced =>
        /\ Granted(r)' => Granted(r)
        /\ \A u \in tasks' : u.ref = r /\ u.kind = "paid" => ref'[r].status = "ELIGIBLE"
  <2> SUFFICES ASSUME r \notin raced
               PROVE  /\ Granted(r)' => Granted(r)
                      /\ \A u \in tasks' : u.ref = r /\ u.kind = "paid" =>
                           ref'[r].status = "ELIGIBLE"
    OBVIOUS
  <2>p. \A u \in tasks : u.ref = r /\ u.kind = "paid" =>
          ref[r].status = "ELIGIBLE" /\ IsDue(r)
    BY DEF JobInv, PayoutIsEligible, IInv, PaidIsDue
  <2>1. CASE ConfirmWrite(t)
    <3>1. ref'[r].status = "PENDING_WAITING_PERIOD"
      BY <1>1, <2>1 DEF ConfirmWrite, Row
    <3>2. ~ IsDue(r)
      BY <2>1 DEF IInv, ConfirmedIsNotDue, ConfirmWrite
    <3> QED
      BY <1>2, <2>p, <3>1, <3>2 DEF Granted
  <2>2. CASE ResetWaitingPeriod(t)
    <3>1. \/ ref' = ref
          \/ /\ ref[r].status = "PENDING_WAITING_PERIOD"
             /\ ref'[r].status = "PENDING_PAYMENT"
      BY <1>1, <2>2 DEF ResetWaitingPeriod, Row
    <3> QED
      BY <1>2, <2>p, <3>1 DEF Granted
  <2>3. CASE AdminWrite(t)
    <3>1. \A u \in tasks' : u.kind # "paid"
      BY <1>2, <2>3 DEF AdminInv, OneAdmin, AdminWrite, At, Admins
    <3>2. \/ t.kind = "paid"
          \/ ref'[r].status = "REJECTED"
      BY <1>1, <2>3 DEF AdminWrite, At, Row
    <3> QED
      BY <2>p, <3>1, <3>2 DEF Granted
  <2> QED
    BY <2>1, <2>2, <2>3
<1>4. \A q \in Referral : q \notin raced' =>
        q \notin raced /\ (Granted(q)' => Granted(q)) /\ (Known(q)' <=> Known(q))
  BY <1>2, <1>3 DEF Granted, Known
<1>5. HeldIsWaiting'
  <2>1. \A j \in jobs : \A q \in j.left : q \in Referral
    BY <1>1 DEF Job
  <2> QED
    BY <1>2, <2>1 DEF JobInv, HeldIsWaiting, Known
<1>6. PassedIsAlone'
  BY <1>2, <1>4 DEF JobInv, PassedIsAlone
<1>7. PayoutIsEligible'
  <2>1. \A u \in tasks : u.ref \in Referral
    BY <1>1 DEF Task
  <2> QED
    BY <1>2, <1>3, <2>1 DEF JobInv, PayoutIsEligible
<1>8. GrantedIsKnown'
  BY <1>4 DEF JobInv, GrantedIsKnown
<1>9. OneRewardPerDocument'
  <2>1. \A q, s \in Referral \ raced : Granted(q) /\ Granted(s) /\ DocumentOf[q] = DocumentOf[s]
                                         => q = s
    BY DEF JobInv, OneRewardPerDocument, Granted
  <2>2. \A q, s \in Referral \ raced' :
          Granted(q)' /\ Granted(s)' /\ DocumentOf[q] = DocumentOf[s] => q = s
    BY <1>4, <2>1
  <2> QED
    BY <2>2 DEF OneRewardPerDocument, Granted
<1>10. OneJob' /\ DocumentsFixed'
  BY <1>2 DEF JobInv, OneJob, DocumentsFixed, Known
<1> QED
  BY <1>5, <1>6, <1>7, <1>8, <1>9, <1>10 DEF JobInv

LEMMA JobWriteAlone ==
  ASSUME IInv, JobInv, NEW j \in jobs, JobWrite(j)
  PROVE  JobInv'
<1>1. /\ ref \in [Referral -> Row] /\ tasks \subseteq Task /\ jobs \subseteq Job
      /\ user' = user /\ tasks' = tasks /\ raced' = raced /\ j \in Job
  BY DEF IInv, TypeOK, JobWrite
<1>2. PICK r \in j.chosen :
        /\ ref' = [ref EXCEPT ![r].status =
                     IF j.passed THEN "ELIGIBLE" ELSE "NEEDS_REVIEW"]
        /\ JobGoesOn(j, r)
  BY DEF JobWrite
<1>3. r \in Referral /\ r \in j.left /\ (r \notin j.suspect => Known(r))
      /\ (r \notin raced => ref[r].status = "PENDING_WAITING_PERIOD")
  BY <1>1, <1>2 DEF IInv, HeldIsDue, Job, JobInv, HeldIsWaiting
<1>4. /\ \A q \in Referral \ {r} : ref'[q] = ref[q]
      /\ Granted(r)' => j.passed
  BY <1>1, <1>2, <1>3 DEF Row, Granted
<1>5. j.passed =>
        /\ Known(r)
        /\ \A q \in Referral \ {r} :
             q \notin raced /\ Granted(q) => DocumentOf[q] # DocumentOf[r]
  BY <1>2, <1>3 DEF JobInv, PassedIsAlone
<1>6. \A q \in Referral : q # r => (Granted(q)' <=> Granted(q))
  BY <1>4 DEF Granted
<1>7. PICK x : x = [j EXCEPT !.left = @ \ {r}, !.suspect = @ \ {r}, !.chosen = {},
                             !.passed = FALSE]
  OBVIOUS
<1>8. /\ x.left = j.left \ {r} /\ x.suspect = j.suspect \ {r} /\ x.chosen = {}
      /\ jobs' \subseteq {x}
  BY <1>1, <1>2, <1>7 DEF JobGoesOn, Job, JobInv, OneJob
<1>9. OneJob' /\ DocumentsFixed' /\ PassedIsAlone'
  BY <1>1, <1>8 DEF OneJob, JobInv, DocumentsFixed, Known, PassedIsAlone
<1>10. HeldIsWaiting'
  <2>1. \A q \in j.left : q \in Referral
    BY <1>1 DEF Job
  <2>2. \A q \in j.left : /\ q \notin raced => ref[q].status = "PENDING_WAITING_PERIOD"
                          /\ q \notin j.suspect => Known(q)
    BY DEF JobInv, HeldIsWaiting
  <2>3. \A q \in x.left : /\ q \notin raced => ref'[q].status = "PENDING_WAITING_PERIOD"
                          /\ q \notin x.suspect => Known(q)'
    BY <1>1, <1>4, <1>8, <2>1, <2>2 DEF Known
  <2> QED
    BY <1>1, <1>8, <2>3 DEF HeldIsWaiting
<1>11. PayoutIsEligible'
  <2>1. \A u \in tasks : u.ref \in Referral
    BY <1>1 DEF Task
  <2>2. \A u \in tasks : u.kind = "paid" /\ u.ref \notin raced =>
          u.ref # r /\ ref[u.ref].status = "ELIGIBLE"
    BY <1>3 DEF JobInv, PayoutIsEligible
  <2> QED
    BY <1>1, <1>4, <2>1, <2>2 DEF PayoutIsEligible
<1>12. GrantedIsKnown'
  BY <1>1, <1>4, <1>5, <1>6 DEF JobInv, GrantedIsKnown, Known
<1>13. OneRewardPerDocument'
  <2>1. \A q, s \in Referral \ raced : Granted(q) /\ Granted(s) /\ DocumentOf[q] = DocumentOf[s]
                                         => q = s
    BY DEF JobInv, OneRewardPerDocument, Granted
  <2>2. \A q, s \in Referral \ raced :
          Granted(q)' /\ Granted(s)' /\ DocumentOf[q] = DocumentOf[s] => q = s
    BY <1>4, <1>5, <1>6, <2>1
  <2> QED
    BY <1>1, <2>2 DEF OneRewardPerDocument, Granted
<1> QED
  BY <1>9, <1>10, <1>11, <1>12, <1>13 DEF JobInv

LEMMA JobNext ==
  ASSUME MaxJobs <= 1
  PROVE  IInv /\ AdminInv /\ JobInv /\ [Next]_vars => JobInv'
<1> SUFFICES ASSUME IInv, AdminInv, JobInv, [Next]_vars PROVE JobInv'
  OBVIOUS
<1>0. Finite /\ ref \in [Referral -> Row] /\ user \in [Referral -> User]
      /\ tasks \subseteq Task /\ jobs \subseteq Job /\ MaxJobs \in Nat
  BY ReferralsAssumption DEF AdminInv, IInv, TypeOK
<1>1. ASSUME NEW r \in Referral, Register(r) PROVE JobInv'
  <2>1. /\ ref[r].status = "NONE" /\ ref'[r].status = "PENDING_PAYMENT"
        /\ \A q \in Referral \ {r} : ref'[q] = ref[q]
        /\ UNCHANGED <<user, tasks, jobs, raced>>
    BY <1>0, <1>1 DEF Register, Row
  <2>2. \A q \in Referral : (Granted(q)' <=> Granted(q)) /\ (Known(q)' <=> Known(q))
    BY <2>1 DEF Granted, Known
  <2>3. HeldIsWaiting' /\ PassedIsAlone'
    BY <1>0, <2>1, <2>2 DEF JobInv, HeldIsWaiting, PassedIsAlone, Job
  <2>4. PayoutIsEligible' /\ GrantedIsKnown'
    BY <1>0, <2>1, <2>2 DEF JobInv, PayoutIsEligible, GrantedIsKnown, Task
  <2>5. OneRewardPerDocument'
    BY <2>1, <2>2 DEF JobInv, OneRewardPerDocument, Granted
  <2>6. OneJob' /\ DocumentsFixed'
    BY <2>1, <2>2 DEF JobInv, OneJob, DocumentsFixed
  <2> QED
    BY <2>3, <2>4, <2>5, <2>6 DEF JobInv
<1>2. ASSUME NEW r \in Referral, AccountChanges(r) PROVE JobInv'
  <2>1. /\ \A q \in Referral : user'[q].document = user[q].document
        /\ UNCHANGED <<ref, tasks, jobs, raced>>
    BY <1>0, <1>2 DEF AccountChanges, User
  <2> QED
    BY <1>0, <2>1, JobQuiet
<1>3. ASSUME NEW r \in Referral, NEW kind \in {"confirm", "reset"}, Webhook(r, kind)
      PROVE  JobInv'
  <2>1. \A q \in Referral : user'[q].document = user[q].document
    BY <1>0, <1>3 DEF Webhook, User
  <2> QED
    BY <1>0, <1>3, <2>1, JobQuiet DEF Webhook, Begin
<1>4. ASSUME NEW r \in Referral, MarkPaid(r) \/ Reject(r) PROVE JobInv'
  BY <1>0, <1>4, JobQuiet DEF MarkPaid, Reject, Begin
<1>5. ASSUME NEW t \in tasks, ConfirmDocument(t) \/ ConfirmFind(t) PROVE JobInv'
  <2>1. \A pc : [t EXCEPT !.pc = pc].kind = t.kind
    BY <1>0 DEF Task
  <2>2. \A u \in tasks' : u.kind = "paid" => u \in tasks
    BY <1>5, <2>1 DEF ConfirmDocument, ConfirmFind, At, Goto, Done
  <2>3. \A q \in Referral : Known(q)' \/ user'[q] = user[q]
    BY <1>0, <1>5 DEF ConfirmDocument, ConfirmFind, Known, User
  <2> QED
    BY <1>0, <1>5, <2>2, <2>3, JobQuiet DEF ConfirmDocument, ConfirmFind
<1>6. ASSUME NEW t \in tasks, TaskStep(t) PROVE JobInv'
  BY <1>5, <1>6, JobWrites DEF TaskStep
<1>7. ASSUME NEW t \in tasks, TaskFails(t) PROVE JobInv'
  BY <1>0, <1>7, JobQuiet DEF TaskFails, Done
<1>8. CASE JobStart
  <2>1. jobs = {}
    <3>1. Cardinality(jobs) \in Nat /\ Cardinality(jobs) < MaxJobs
      BY <1>0, <1>8, FS_CardinalityType DEF Finite, JobStart
    <3>2. Cardinality(jobs) = 0
      BY <1>0, <3>1
    <3> QED
      BY <1>0, <3>2, FS_EmptySet DEF Finite
  <2>2. PICK left : left = {r \in Candidates : user[r].active}
    OBVIOUS
  <2>3. PICK j : j = [left |-> left, suspect |-> Suspect(Candidates) \cap left,
                      chosen |-> {}, passed |-> FALSE]
    OBVIOUS
  <2>4. /\ jobs' = {j} /\ j.left = left /\ j.chosen = {}
        /\ j.suspect = Suspect(Candidates) \cap left
        /\ UNCHANGED <<ref, user, tasks, raced>>
    BY <1>8, <2>1, <2>2, <2>3 DEF JobStart
  <2>5. \A r \in left : /\ ref[r].status = "PENDING_WAITING_PERIOD"
                        /\ r \notin Suspect(Candidates) => Known(r)
    BY <2>2 DEF Candidates, Suspect, JobInv, DocumentsFixed, Known
  <2>6. HeldIsWaiting' /\ PassedIsAlone' /\ OneJob'
    BY <2>4, <2>5 DEF HeldIsWaiting, PassedIsAlone, OneJob, Known
  <2>7. DocumentsFixed' /\ PayoutIsEligible' /\ GrantedIsKnown' /\ OneRewardPerDocument'
    BY <2>4 DEF JobInv, DocumentsFixed, PayoutIsEligible, GrantedIsKnown, Granted, Known,
                OneRewardPerDocument
  <2> QED
    BY <2>6, <2>7 DEF JobInv
<1>9. ASSUME NEW j \in jobs, JobCheck(j) PROVE JobInv'
  <2>1. PICK r \in j.left :
          jobs' = (jobs \ {j}) \cup {[j EXCEPT !.chosen = {r}, !.passed = Passes(j, r)]}
    BY <1>9 DEF JobCheck
  <2>2. PICK x : x = [j EXCEPT !.chosen = {r}, !.passed = Passes(j, r)]
    OBVIOUS
  <2>3. /\ j \in Job /\ r \in Referral /\ x.left = j.left /\ x.suspect = j.suspect
        /\ x.chosen = {r} /\ x.passed = Passes(j, r) /\ jobs' = {x}
    BY <1>0, <2>1, <2>2 DEF Job, JobInv, OneJob
  <2>4. UNCHANGED <<ref, user, tasks, raced>>
    BY <1>9 DEF JobCheck
  <2>5. HeldIsWaiting' /\ OneJob'
    BY <2>3, <2>4 DEF JobInv, HeldIsWaiting, OneJob, Known
  <2>6. Passes(j, r) =>
          /\ r \notin j.suspect
          /\ \A q \in Referral \ {r} :
               q \notin raced /\ Granted(q) => DocumentOf[q] # DocumentOf[r]
    BY DEF Passes, Granted, JobInv, GrantedIsKnown, Known
  <2>7. PassedIsAlone'
    BY <2>3, <2>4, <2>6 DEF PassedIsAlone, Granted
  <2>8. DocumentsFixed' /\ PayoutIsEligible' /\ GrantedIsKnown' /\ OneRewardPerDocument'
    BY <2>4 DEF JobInv, DocumentsFixed, PayoutIsEligible, GrantedIsKnown, Granted, Known,
                OneRewardPerDocument
  <2> QED
    BY <2>5, <2>7, <2>8 DEF JobInv
<1>10. ASSUME NEW j \in jobs, JobWrite(j) PROVE JobInv'
  BY <1>10, JobWriteAlone
<1>11. ASSUME NEW j \in jobs, JobFails(j) PROVE JobInv'
  BY <1>0, <1>11, JobQuiet DEF JobFails
<1>12. CASE Tick \/ UNCHANGED vars
  BY <1>0, <1>12, JobQuiet DEF Tick, vars
<1> QED
  BY <1>1, <1>2, <1>3, <1>4, <1>6, <1>7, <1>8, <1>9, <1>10, <1>11, <1>12 DEF Next, JobStep

(* One document earns one reward as long as one run of the job and one      *)
(* administrator at a time decide, however the documents become known and   *)
(* payments, resets and runs interleave; rows written under a run excepted. *)
THEOREM DocumentsEarnOnce ==
  ASSUME MaxJobs <= 1, MaxAdmins <= 1
  PROVE  Spec => []OneRewardPerDocument
<1>1. JobInv => OneRewardPerDocument
  BY DEF JobInv
<1>2. Init => AdminInv /\ JobInv
  <2>1. Init => JobInv
    BY DEF Init, JobInv, OneJob, DocumentsFixed, HeldIsWaiting, PassedIsAlone,
           PayoutIsEligible, GrantedIsKnown, Granted, Known, OneRewardPerDocument
  <2> QED
    BY <2>1, AdminInit
<1>3. IInv /\ AdminInv /\ JobInv /\ [Next]_vars => AdminInv' /\ JobInv'
  BY AdminNext, JobNext
<1> QED
  BY <1>1, <1>2, <1>3, ReferralsInvariance, PTL DEF Spec
=============================================================================
