------------------------------- MODULE Referrals -------------------------------
(***************************************************************************)
(* ReferralsService: the reward for a referred user who pays, written by   *)
(* four independent actors: the billing webhook (confirmPayment and        *)
(* resetWaitingPeriod), the eligibility job, the administrator (markPaid,  *)
(* reject) and registration. Except resetWaitingPeriod each of them reads  *)
(* the row and later writes it by id, whatever happened in between.        *)
(*                                                                         *)
(* Abstractions. A referral is its referred user. A user is `active` when  *)
(* isActive holds and the subscription is ACTIVE; the webhook, the end of  *)
(* a period and the administrator change that. A user always pays with the *)
(* same document, known once a webhook carried it. One unit of time is a   *)
(* day: what a request or a run of the job takes does not count.           *)
(***************************************************************************)
EXTENDS Integers, FiniteSets

CONSTANTS
  Referral,      \* users who may register with somebody's code
  Document, NoDocument,
  DocumentOf,    \* the CPF/CNPJ a user pays with, hashed
  Days,          \* readReferralEligibilityDays
  MaxTime,       \* bound on the clock
  MaxWebhooks, MaxJobs, MaxAdmins,   \* bounds on what is in flight at once
  MaxFailures    \* bound on the job runs cut short

ASSUME ReferralsAssumption ==
  /\ NoDocument \notin Document
  /\ DocumentOf \in [Referral -> Document]
  /\ Days \in Nat \ {0, 1}
  /\ {MaxTime, MaxWebhooks, MaxJobs, MaxAdmins, MaxFailures} \subseteq Nat

VARIABLES
  now,
  user,      \* what the referral reads of the referred user
  ref,       \* Referral rows
  tasks,     \* handlers in flight: webhooks and admin requests
  jobs,      \* runs of processEligible in flight
  raced,     \* history: rows written by another actor while a run held them
  failures

vars == <<now, user, ref, tasks, jobs, raced, failures>>

Status == {"NONE", "PENDING_PAYMENT", "PENDING_WAITING_PERIOD", "ELIGIBLE",
           "NEEDS_REVIEW", "PAID", "REJECTED"}

User == [active : BOOLEAN, document : Document \cup {NoDocument}]

(* "NONE": not registered. `due`: eligibleAt, set together with             *)
(* paymentConfirmedAt (0: both NULL); `paid`: paidAt is set.                *)
Row == [status : Status, due : Nat, paid : BOOLEAN]

Task == [kind : {"confirm", "reset", "paid", "rejected"}, ref : Referral,
         pc : {"document", "find", "write"}]

(* What a run has read: `left`: active candidates still to be judged;       *)
(* `suspect`: those without a document or with one that another candidate   *)
(* has; `chosen`: the one whose antifraud query has been answered.          *)
Job == [left : SUBSET Referral, suspect : SUBSET Referral,
        chosen : SUBSET Referral, passed : BOOLEAN]

TypeOK ==
  /\ now \in Nat /\ failures \in 0 .. MaxFailures
  /\ user \in [Referral -> User]
  /\ ref \in [Referral -> Row]
  /\ tasks \subseteq Task
  /\ jobs \subseteq Job
  /\ raced \subseteq Referral

Init ==
  /\ now = 0
  /\ user = [r \in Referral |-> [active |-> FALSE, document |-> NoDocument]]
  /\ ref = [r \in Referral |-> [status |-> "NONE", due |-> 0, paid |-> FALSE]]
  /\ tasks = {} /\ jobs = {}
  /\ raced = {}
  /\ failures = 0

----------------------------------------------------------------------------
Begin(kind, r, pc) ==
  tasks' = tasks \cup {[kind |-> kind, ref |-> r, pc |-> pc]}

Goto(t, pc) == tasks' = (tasks \ {t}) \cup {[t EXCEPT !.pc = pc]}

Done(t) == tasks' = tasks \ {t}

At(t, kind, pc) == t.kind = kind /\ t.pc = pc

Busy(kinds) == Cardinality({t \in tasks : t.kind \in kinds})

Races(r) == raced' = raced \cup {q \in {r} : \E j \in jobs : q \in j.left}

(* register: the user and the referral are created in one transaction. *)
Register(r) ==
  /\ ref[r].status = "NONE"
  /\ ref' = [ref EXCEPT ![r].status = "PENDING_PAYMENT"]
  /\ UNCHANGED <<now, user, tasks, jobs, raced, failures>>

(* The transaction of a webhook is committed; it leaves the user alone when *)
(* a newer subscription is ACTIVE. confirmPayment or resetWaitingPeriod is  *)
(* called afterwards.                                                       *)
Webhook(r, kind) ==
  /\ ref[r].status # "NONE"
  /\ Busy({"confirm", "reset"}) < MaxWebhooks
  /\ \E mayUpdate \in BOOLEAN :
       user' = IF mayUpdate THEN [user EXCEPT ![r].active = (kind = "confirm")]
                            ELSE user
  /\ Begin(kind, r, IF kind = "confirm" THEN "document" ELSE "write")
  /\ UNCHANGED <<now, ref, jobs, raced, failures>>

(* The event carries the payer's document or it does not. *)
ConfirmDocument(t) ==
  /\ At(t, "confirm", "document")
  /\ \E known \in BOOLEAN :
       user' = IF known THEN [user EXCEPT ![t.ref].document = DocumentOf[t.ref]]
                        ELSE user
  /\ Goto(t, "find")
  /\ UNCHANGED <<now, ref, jobs, raced, failures>>

(* Wrong: the confirmation of an earlier payment is not looked at. *)
MayConfirm_Again(row) == row.status \notin {"ELIGIBLE", "PAID"}

MayConfirm(row) == row.status \notin {"ELIGIBLE", "PAID"} /\ row.due = 0

ConfirmFind(t) ==
  /\ At(t, "confirm", "find")
  /\ IF MayConfirm(ref[t.ref]) THEN Goto(t, "write") ELSE Done(t)
  /\ UNCHANGED <<now, user, ref, jobs, raced, failures>>

EligibleAt == now + Days

ConfirmWrite(t) ==
  /\ At(t, "confirm", "write")
  /\ ref' = [ref EXCEPT ![t.ref].status = "PENDING_WAITING_PERIOD",
                        ![t.ref].due = EligibleAt]
  /\ Races(t.ref)
  /\ Done(t)
  /\ UNCHANGED <<now, user, jobs, failures>>

(* One conditional updateMany. *)
ResetWaitingPeriod(t) ==
  /\ At(t, "reset", "write")
  /\ ref' = IF ref[t.ref].status = "PENDING_WAITING_PERIOD"
            THEN [ref EXCEPT ![t.ref].status = "PENDING_PAYMENT", ![t.ref].due = 0]
            ELSE ref
  /\ Races(t.ref)
  /\ Done(t)
  /\ UNCHANGED <<now, user, jobs, failures>>

(* The end of a period, another webhook or the administrator changes the    *)
(* account without a word to the referral.                                  *)
AccountChanges(r) ==
  /\ ref[r].status # "NONE"
  /\ user' = [user EXCEPT ![r].active = ~@]
  /\ UNCHANGED <<now, ref, tasks, jobs, raced, failures>>

----------------------------------------------------------------------------
(* processEligible *)

(* Wrong: eligibleAt is not part of the WHERE. *)
Candidates_NotDue == {r \in Referral : ref[r].status = "PENDING_WAITING_PERIOD"}

Candidates == {r \in Referral : /\ ref[r].status = "PENDING_WAITING_PERIOD"
                                /\ ref[r].due <= now}

Suspect(batch) ==
  {r \in batch : \/ user[r].document = NoDocument
                 \/ \E q \in batch \ {r} : user[q].document = user[r].document}

(* The candidates and their users are read at once; inactive ones count as  *)
(* holders of their document but are not judged.                            *)
JobStart ==
  /\ Cardinality(jobs) < MaxJobs
  /\ \E r \in Candidates : user[r].active
  /\ LET left == {r \in Candidates : user[r].active}
     IN jobs' = jobs \cup {[left |-> left, suspect |-> Suspect(Candidates) \cap left,
                            chosen |-> {}, passed |-> FALSE]}
  /\ UNCHANGED <<now, user, ref, tasks, raced, failures>>

(* Wrong: only the batch is searched for the document. *)
Passes_Batch(j, r) == r \notin j.suspect

(* readAntifraudReason finds nothing. The tests of the referrer's link      *)
(* cannot fail: register writes both sides and nothing changes them.        *)
Passes(j, r) ==
  /\ r \notin j.suspect
  /\ \A q \in Referral \ {r} :
       ref[q].status \in {"ELIGIBLE", "PAID"} => user[q].document # DocumentOf[r]

JobCheck(j) ==
  /\ j.chosen = {}
  /\ \E r \in j.left :
       jobs' = (jobs \ {j}) \cup
               {[j EXCEPT !.chosen = {r}, !.passed = Passes(j, r)]}
  /\ UNCHANGED <<now, user, ref, tasks, raced, failures>>

JobGoesOn(j, r) ==
  jobs' = (jobs \ {j}) \cup
    IF j.left = {r} THEN {}
    ELSE {[j EXCEPT !.left = @ \ {r}, !.suspect = @ \ {r},
                    !.chosen = {}, !.passed = FALSE]}

(* Wrong: a candidate that does not pass keeps its status. *)
JobWrite_Leaves(j) ==
  /\ \E r \in j.chosen :
       /\ ref' = IF j.passed THEN [ref EXCEPT ![r].status = "ELIGIBLE"] ELSE ref
       /\ JobGoesOn(j, r)
  /\ UNCHANGED <<now, user, tasks, raced, failures>>

(* The row is written by id. *)
JobWrite(j) ==
  /\ \E r \in j.chosen :
       /\ ref' = [ref EXCEPT ![r].status =
                    IF j.passed THEN "ELIGIBLE" ELSE "NEEDS_REVIEW"]
       /\ JobGoesOn(j, r)
  /\ UNCHANGED <<now, user, tasks, raced, failures>>

----------------------------------------------------------------------------
(* The administrator. *)

MarkPaid(r) ==
  /\ ref[r].status = "ELIGIBLE"
  /\ Busy({"paid", "rejected"}) < MaxAdmins
  /\ Begin("paid", r, "write")
  /\ UNCHANGED <<now, user, ref, jobs, raced, failures>>

(* Wrong: what was paid may be rejected. *)
MayReject_Paid(r) == ref[r].status # "NONE"

MayReject(r) == ref[r].status \notin {"NONE", "PAID"}

Reject(r) ==
  /\ MayReject(r)
  /\ Busy({"paid", "rejected"}) < MaxAdmins
  /\ Begin("rejected", r, "write")
  /\ UNCHANGED <<now, user, ref, jobs, raced, failures>>

AdminWrite(t) ==
  /\ \/ /\ At(t, "paid", "write")
        /\ ref' = [ref EXCEPT ![t.ref].status = "PAID", ![t.ref].paid = TRUE]
     \/ /\ At(t, "rejected", "write")
        /\ ref' = [ref EXCEPT ![t.ref].status = "REJECTED"]
  /\ Races(t.ref)
  /\ Done(t)
  /\ UNCHANGED <<now, user, jobs, failures>>

----------------------------------------------------------------------------
(* A query throws or the process stops; a run of the job loses the rest of  *)
(* its batch.                                                               *)
TaskFails(t) ==
  /\ Done(t)
  /\ UNCHANGED <<now, user, ref, jobs, raced, failures>>

JobFails(j) ==
  /\ failures < MaxFailures
  /\ failures' = failures + 1
  /\ jobs' = jobs \ {j}
  /\ UNCHANGED <<now, user, ref, tasks, raced>>

Tick ==
  /\ now < MaxTime
  /\ tasks = {} /\ jobs = {}
  /\ now' = now + 1
  /\ UNCHANGED <<user, ref, tasks, jobs, raced, failures>>

TaskStep(t) ==
  \/ ConfirmDocument(t) \/ ConfirmFind(t) \/ ConfirmWrite(t)
  \/ ResetWaitingPeriod(t) \/ AdminWrite(t)

JobStep == \E j \in jobs : JobCheck(j) \/ JobWrite(j)

Next ==
  \/ \E r \in Referral :
       \/ Register(r) \/ AccountChanges(r) \/ MarkPaid(r) \/ Reject(r)
       \/ Webhook(r, "confirm") \/ Webhook(r, "reset")
  \/ \E t \in tasks : TaskStep(t) \/ TaskFails(t)
  \/ JobStart
  \/ JobStep
  \/ \E j \in jobs : JobFails(j)
  \/ Tick

Spec == Init /\ [][Next]_vars

(* The timer of the job keeps firing and its queries are answered. *)
FairSpec == Spec /\ WF_vars(JobStart) /\ WF_vars(JobStep)

----------------------------------------------------------------------------
(* Properties. With MaxJobs = 1 and MaxAdmins = 1 they are what the guards  *)
(* of the four actors add up to.                                            *)

(* A reward that was paid out stays PAID, whatever confirmation, job run or *)
(* rejection is still on its way, unless its row was written while a run    *)
(* held it: then it may have become payable between the two queries of a    *)
(* confirmation, which opens it again.                                      *)
PaidIsFinal ==
  \A r \in Referral : ref[r].paid /\ r \notin raced => ref[r].status = "PAID"

(* readAntifraudReason: one document earns one reward, though the documents *)
(* become known, and the batches are read, at different times; a row that   *)
(* was written while a run held it is again the exception.                  *)
OneRewardPerDocument ==
  \A q, r \in Referral \ raced :
    /\ {ref[q].status, ref[r].status} \subseteq {"ELIGIBLE", "PAID"}
    /\ DocumentOf[q] = DocumentOf[r]
    => q = r

(* A referral is ELIGIBLE or PAID before the waiting period of a confirmed  *)
(* payment is over only if the row was reset, confirmed or rejected while   *)
(* the run that judged it held an older copy.                               *)
EarlyRewardNeedsRace ==
  \A r \in Referral :
    ref[r].status \in {"ELIGIBLE", "PAID"} /\ r \notin raced
      => ref[r].due \in 1 .. now

(* A rejection is undone by a first confirmation, which does not look for   *)
(* REJECTED, or by a run that held the row; never once the payment was      *)
(* confirmed.                                                               *)
ConfirmedRejectionStays ==
  [][\A r \in Referral :
       ref[r].status = "REJECTED" /\ ref'[r].status # "REJECTED"
         => ref[r].due = 0 \/ r \in raced]_vars

(* A referral whose waiting period is over is judged while its user stays   *)
(* active: runs that fail, or skip it, are followed by others.              *)
WaitingIsJudged ==
  \A r \in Referral :
    ref[r].status = "PENDING_WAITING_PERIOD" /\ ref[r].due <= now /\ user[r].active
      ~> ref[r].status # "PENDING_WAITING_PERIOD" \/ ~user[r].active
=============================================================================
