-------------------------------- MODULE Billing --------------------------------
(***************************************************************************)
(* BillingService: the subscriptions of one user, what the payment         *)
(* provider (Asaas) reports about them, and the plan the user has. A       *)
(* checkout, a webhook, a look at the billing page and a cancellation are  *)
(* chains of awaited queries; each step here is one query with the code up *)
(* to the next. The webhook works on the row it read first.                *)
(*                                                                         *)
(* Abstractions. A subscription is its position in createdAt order, which  *)
(* also stands for its provider id; a payment is its number within the     *)
(* subscription; the identity of an event is its content. Time is counted  *)
(* in units the period of 30 days is a multiple of. No event comes before  *)
(* the checkout that creates the subscription has ended: the customer gets *)
(* the payment link from its answer.                                       *)
(***************************************************************************)
EXTENDS Integers, FiniteSets

CONSTANTS
  Paid,          \* the paid plans, BASIC and PRO
  Period,        \* 30 days
  MaxTime, MaxSubs, MaxPayments,   \* bounds: clock, checkouts, payments of each
  MaxEvents,     \* bound on the distinct webhook events
  MaxFailures,   \* bound on the requests cut short
  MaxTasks,      \* bound on the requests in flight, webhooks included
  MaxWebhooks    \* webhook deliveries in flight: 1 for a sequential Asaas queue

ASSUME BillingAssumption ==
  /\ Period \in Nat \ {0}
  /\ "FREE" \notin Paid
  /\ {MaxTime, MaxSubs, MaxPayments, MaxEvents, MaxFailures,
      MaxTasks, MaxWebhooks} \subseteq Nat

VARIABLES
  now,
  user,       \* User.plan and User.subscriptionStatus
  subs,       \* BillingSubscription rows
  count,      \* how many there are
  recorded,   \* BillingWebhookEvent rows
  processed,  \* those with processedAt
  applied,    \* history: events whose transaction was committed
  tasks,      \* requests in flight
  failures    \* how many requests were cut short

vars == <<now, user, subs, count, recorded, processed, applied, tasks, failures>>
webhooks == <<recorded, processed, applied>>

SubStatus == {"PENDING", "ACTIVE", "PAST_DUE", "CANCELED"}

(* `bound`: providerSubscriptionId is set; `payment`: the providerPaymentId  *)
(* of the last webhook; `end`: currentPeriodEnd (0: null); `atEnd`:         *)
(* cancelAtPeriodEnd.                                                       *)
Sub == [plan : Paid \cup {"FREE"}, status : SubStatus, bound : BOOLEAN,
        payment : 0 .. MaxPayments, end : Nat, atEnd : BOOLEAN]

NoSub == [plan |-> "FREE", status |-> "CANCELED", bound |-> FALSE,
          payment |-> 0, end |-> 0, atEnd |-> FALSE]

(* REVERSED stands for the events of CANCELED_EVENTS. *)
PaymentEvent == {"PAYMENT_CONFIRMED", "PAYMENT_RECEIVED", "PAYMENT_OVERDUE",
                 "PAYMENT_AWAITING_RISK_ANALYSIS", "REVERSED"}

Event ==
  [type : PaymentEvent, sub : 1 .. MaxSubs, payment : 1 .. MaxPayments] \cup
  [type : {"SUBSCRIPTION_DELETED"}, sub : 1 .. MaxSubs, payment : {0}]

NoEvent == [type |-> "none", sub |-> 0, payment |-> 0]

(* `row`: the subscription as it was read; `flag`: the answer of            *)
(* canUpdateUser, or whether a checkout found the user ACTIVE.              *)
Task == [kind : {"webhook", "checkout", "me", "cancel"},
         event : Event \cup {NoEvent}, sub : 0 .. MaxSubs, row : Sub, flag : BOOLEAN,
         pc : {"asaas", "user", "undo", "newer", "commit", "processed",
               "expire", "expireCommit", "pick", "mark"}]

TypeOK ==
  /\ now \in Nat /\ failures \in Nat
  /\ user \in [plan : Paid \cup {"FREE"}, status : SubStatus \cup {"INACTIVE"}]
  /\ subs \in [1 .. MaxSubs -> Sub]
  /\ count \in 0 .. MaxSubs
  /\ processed \subseteq recorded /\ recorded \subseteq Event
  /\ applied \subseteq recorded
  /\ tasks \subseteq Task

Init ==
  /\ now = 0
  /\ user = [plan |-> "FREE", status |-> "INACTIVE"]
  /\ subs = [s \in 1 .. MaxSubs |-> NoSub]
  /\ count = 0
  /\ recorded = {} /\ processed = {} /\ applied = {}
  /\ tasks = {}
  /\ failures = 0

----------------------------------------------------------------------------
NewTask(kind, event, sub, flag, pc) ==
  [kind |-> kind, event |-> event, sub |-> sub, row |-> NoSub, flag |-> flag,
   pc |-> pc]

HasRoom == Cardinality(tasks) < MaxTasks

Goto(t, pc) == tasks' = (tasks \ {t}) \cup {[t EXCEPT !.pc = pc]}

Done(t) == tasks' = tasks \ {t}

At(t, kind, pc) == t.kind = kind /\ t.pc = pc

----------------------------------------------------------------------------
(* checkout *)

(* The user is read, the PENDING row created, the provider asked. *)
Checkout(plan) ==
  /\ HasRoom /\ count < MaxSubs
  /\ count' = count + 1
  /\ subs' = [subs EXCEPT ![count + 1] = [NoSub EXCEPT !.plan = plan,
                                                       !.status = "PENDING"]]
  /\ tasks' = tasks \cup {NewTask("checkout", NoEvent, count + 1,
                                  user.status = "ACTIVE", "asaas")}
  /\ UNCHANGED <<now, failures, user, webhooks>>

(* FLEXIBLE gives the provider's subscription id, the card checkout none.   *)
CheckoutCreated(t) ==
  /\ At(t, "checkout", "asaas")
  /\ \E bound \in BOOLEAN :
       subs' = [subs EXCEPT ![t.sub].status = "PENDING", ![t.sub].bound = bound]
  /\ IF t.flag THEN Done(t) ELSE Goto(t, "user")
  /\ UNCHANGED <<now, failures, user, count, webhooks>>

CheckoutUser(t) ==
  /\ At(t, "checkout", "user")
  /\ user' = [user EXCEPT !.status = "PENDING"]
  /\ Done(t)
  /\ UNCHANGED <<now, failures, subs, count, webhooks>>

(* The provider or an update fails: the catch closes the subscription. *)
CheckoutFails(t) ==
  /\ t.kind = "checkout" /\ t.pc \in {"asaas", "user"}
  /\ Goto(t, "undo")
  /\ UNCHANGED <<now, failures, user, subs, count, webhooks>>

CheckoutUndo(t) ==
  /\ At(t, "checkout", "undo")
  /\ subs' = [subs EXCEPT ![t.sub].status = "CANCELED"]
  /\ Done(t)
  /\ UNCHANGED <<now, failures, user, count, webhooks>>

CheckoutStep(t) ==
  \/ CheckoutCreated(t) \/ CheckoutUser(t) \/ CheckoutFails(t) \/ CheckoutUndo(t)

----------------------------------------------------------------------------
(* handleAsaasWebhook *)

(* Wrong: the event counts as processed from the start. *)
EventRow_Processed(e) ==
  /\ recorded' = recorded \cup {e}
  /\ processed' = processed \cup {e}

(* The event row is unique: creating it again finds the first one. *)
EventRow(e) ==
  /\ recorded' = recorded \cup {e}
  /\ UNCHANGED processed

(* A delivery goes on unless its event was processed. Its subscription is   *)
(* found by the provider's subscription or payment id or by the external    *)
(* reference. Only this event's handler uses the event's row, so that one   *)
(* step stands for both queries.                                            *)
Deliver(e) ==
  /\ HasRoom
  /\ Cardinality({t \in tasks : t.kind = "webhook"}) < MaxWebhooks
  /\ e.sub <= count
  /\ ~ \E t \in tasks : t.kind = "checkout" /\ t.sub = e.sub
  /\ e \notin processed
  /\ e \in recorded \/ Cardinality(recorded) < MaxEvents
  /\ EventRow(e)
  /\ tasks' = tasks \cup {[NewTask("webhook", e, e.sub, FALSE, "newer")
                             EXCEPT !.row = subs[e.sub]]}
  /\ UNCHANGED <<now, failures, user, subs, count, applied>>

(* Wrong: the older subscriptions are looked at. *)
CanUpdateUser_Older(t) ==
  ~ \E s \in 1 .. t.sub - 1 : subs[s].status = "ACTIVE"

(* No newer subscription is ACTIVE; a NULL provider id is never "not" the   *)
(* one of the row.                                                          *)
CanUpdateUser(t) ==
  ~ \E s \in t.sub + 1 .. count :
      subs[s].status = "ACTIVE" /\ (t.row.bound => subs[s].bound)

WebhookNewer(t) ==
  /\ At(t, "webhook", "newer")
  /\ tasks' = (tasks \ {t}) \cup
       {[t EXCEPT !.flag = CanUpdateUser(t), !.pc = "commit"]}
  /\ UNCHANGED <<now, failures, user, subs, count, webhooks>>

(* readWebhookTransition *)
Activates(e) == e.type \in {"PAYMENT_CONFIRMED", "PAYMENT_RECEIVED"}

ResetsPlan(e) == e.type \in {"PAYMENT_OVERDUE", "REVERSED"}

BillingStatus(e) ==
  CASE Activates(e)                                  -> "ACTIVE"
    [] e.type = "PAYMENT_OVERDUE"                     -> "PAST_DUE"
    [] e.type = "PAYMENT_AWAITING_RISK_ANALYSIS"      -> "PENDING"
    [] e.type \in {"REVERSED", "SUBSCRIPTION_DELETED"} -> "CANCELED"

(* The row read first says the payment is the active one already: the       *)
(* period stays as it is.                                                   *)
SamePayment(t) == t.row.status = "ACTIVE" /\ t.row.payment = t.event.payment

(* Wrong: a period is measured backwards. *)
PeriodEnd_Back(t) == now - Period

(* readActivePeriod: a confirmation extends a running period, anything else *)
(* starts one now.                                                          *)
PeriodEnd(t) ==
  IF t.event.type = "PAYMENT_CONFIRMED" /\ t.row.end > now
  THEN t.row.end + Period ELSE now + Period

KeepsAccess(t) == t.event.type = "SUBSCRIPTION_DELETED" /\ t.row.end > now

SubAfter(t) ==
  LET e == t.event
      old == subs[t.sub]
      renews == Activates(e) /\ ~SamePayment(t)
  IN [old EXCEPT !.status = BillingStatus(e),
                 !.bound = TRUE,
                 !.payment = IF e.payment = 0 THEN old.payment ELSE e.payment,
                 !.end = IF renews THEN PeriodEnd(t) ELSE old.end,
                 !.atEnd = IF renews THEN FALSE
                           ELSE IF e.type = "SUBSCRIPTION_DELETED"
                                THEN KeepsAccess(t) ELSE old.atEnd]

UserAfter(t) ==
  LET deleted == t.event.type = "SUBSCRIPTION_DELETED" IN
  [plan |-> IF (deleted /\ ~KeepsAccess(t)) \/ ResetsPlan(t.event) THEN "FREE"
            ELSE IF Activates(t.event) THEN t.row.plan ELSE user.plan,
   status |-> IF deleted /\ KeepsAccess(t) THEN "ACTIVE"
              ELSE BillingStatus(t.event)]

(* One transaction over the subscription and, if canUpdateUser, the user.   *)
WebhookCommit(t) ==
  /\ At(t, "webhook", "commit")
  /\ subs' = [subs EXCEPT ![t.sub] = SubAfter(t)]
  /\ user' = IF t.flag THEN UserAfter(t) ELSE user
  /\ applied' = applied \cup {t.event}
  /\ tasks' = (tasks \ {t}) \cup
       {NewTask("webhook", t.event, t.sub, FALSE, "processed")}
  /\ UNCHANGED <<now, failures, count, recorded, processed>>

(* After ReferralsService has heard of the payment or of its end. *)
WebhookProcessed(t) ==
  /\ At(t, "webhook", "processed")
  /\ processed' = processed \cup {t.event}
  /\ IF t.event.type = "SUBSCRIPTION_DELETED" THEN Goto(t, "expire") ELSE Done(t)
  /\ UNCHANGED <<now, failures, user, subs, count, recorded, applied>>

WebhookStep(t) ==
  WebhookNewer(t) \/ WebhookCommit(t) \/ WebhookProcessed(t)

----------------------------------------------------------------------------
(* me, cancel and expireCanceledSubscription *)

Request(kind) ==
  /\ HasRoom
  /\ kind \in {"me", "cancel"}
  /\ ~ \E t \in tasks : t.kind = kind
  /\ tasks' = tasks \cup {NewTask(kind, NoEvent, 0, FALSE, "expire")}
  /\ UNCHANGED <<now, failures, user, subs, count, webhooks>>

AfterExpire(t) == IF t.kind = "cancel" THEN Goto(t, "user") ELSE Done(t)

Newest(S) == CHOOSE s \in S : \A r \in S : r <= s

Expired == {s \in 1 .. count : subs[s].atEnd /\ subs[s].end <= now}

ExpireFind(t) ==
  /\ t.pc = "expire"
  /\ IF Expired = {}
     THEN AfterExpire(t)
     ELSE tasks' = (tasks \ {t}) \cup
                   {[t EXCEPT !.sub = Newest(Expired), !.pc = "expireCommit"]}
  /\ UNCHANGED <<now, failures, user, subs, count, webhooks>>

(* Wrong: the user is left alone. *)
ExpireCommit_Half(t) ==
  /\ t.pc = "expireCommit"
  /\ subs' = [subs EXCEPT ![t.sub].status = "CANCELED", ![t.sub].atEnd = FALSE]
  /\ AfterExpire(t)
  /\ UNCHANGED <<now, failures, user, count, webhooks>>

(* The user's other subscriptions are not looked at. *)
ExpireCommit(t) ==
  /\ t.pc = "expireCommit"
  /\ subs' = [subs EXCEPT ![t.sub].status = "CANCELED", ![t.sub].atEnd = FALSE]
  /\ user' = [plan |-> "FREE", status |-> "CANCELED"]
  /\ AfterExpire(t)
  /\ UNCHANGED <<now, failures, count, webhooks>>

CancelUser(t) ==
  /\ At(t, "cancel", "user")
  /\ IF user.plan = "FREE" \/ user.status # "ACTIVE" THEN Done(t) ELSE Goto(t, "pick")
  /\ UNCHANGED <<now, failures, user, subs, count, webhooks>>

Cancelable == {s \in 1 .. count : subs[s].bound /\ subs[s].status = "ACTIVE"}

(* The newest ACTIVE subscription, unless its end is scheduled already.     *)
CancelPick(t) ==
  /\ At(t, "cancel", "pick")
  /\ IF Cancelable = {} \/ subs[Newest(Cancelable)].atEnd
     THEN Done(t)
     ELSE tasks' = (tasks \ {t}) \cup
                   {[t EXCEPT !.sub = Newest(Cancelable), !.pc = "mark"]}
  /\ UNCHANGED <<now, failures, user, subs, count, webhooks>>

(* The provider has cancelled; the row is written by id. *)
CancelMark(t) ==
  /\ At(t, "cancel", "mark")
  /\ subs' = [subs EXCEPT ![t.sub].status = "CANCELED", ![t.sub].atEnd = TRUE]
  /\ Done(t)
  /\ UNCHANGED <<now, failures, user, count, webhooks>>

AccountStep(t) == ExpireFind(t) \/ ExpireCommit(t) \/ CancelUser(t)
                  \/ CancelPick(t) \/ CancelMark(t)

(* A query throws or the process stops: the rest of the request is lost.    *)
Fails(t) ==
  /\ failures < MaxFailures
  /\ failures' = failures + 1
  /\ Done(t)
  /\ UNCHANGED <<now, user, subs, count, webhooks>>

Tick ==
  /\ now < MaxTime
  /\ now' = now + 1
  /\ UNCHANGED <<failures, user, subs, count, webhooks, tasks>>

Next ==
  \/ \E plan \in Paid : Checkout(plan)
  \/ \E e \in Event : Deliver(e)
  \/ \E kind \in {"me", "cancel"} : Request(kind)
  \/ \E t \in tasks : CheckoutStep(t) \/ WebhookStep(t) \/ AccountStep(t) \/ Fails(t)
  \/ Tick

Spec == Init /\ [][Next]_vars

----------------------------------------------------------------------------
(* Properties. *)

(* An event is marked processed only after its transaction: whatever fails  *)
(* in between, the provider's retry finds it unprocessed and applies it.    *)
ProcessedWasApplied == processed \subseteq applied

(* Whoever has a paid plan has a subscription of that plan that was paid    *)
(* for and neither failed nor was reversed, or was cancelled for the end of *)
(* its period.                                                              *)
PlanIsPaid ==
  user.plan # "FREE" => \E s \in 1 .. count :
    /\ subs[s].plan = user.plan
    /\ subs[s].atEnd \/ (subs[s].status \in {"ACTIVE", "PENDING"} /\ subs[s].end > 0)

(* A webhook takes the paid plan away only on behalf of a subscription that *)
(* no newer ACTIVE one replaced.                                            *)
OlderKeepsPlan ==
  [][\A t \in tasks :
       t.kind = "webhook" /\ t.pc = "commit" /\ t \notin tasks'
       /\ user.plan # "FREE" /\ user'.plan = "FREE"
         => \A s \in t.sub + 1 .. count : subs[s].status # "ACTIVE"]_vars

(* What the tests promise of a payment after a cancellation: between        *)
(* requests, a user whose newest subscription is ACTIVE within its period   *)
(* has a paid plan.                                                         *)
ReactivatedKeepsPlan ==
  tasks = {} /\ count > 0 /\ subs[count].status = "ACTIVE" /\ subs[count].end > now
    => user.plan # "FREE"
=============================================================================
