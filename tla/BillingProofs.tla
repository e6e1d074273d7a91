---------------------------- MODULE BillingProofs ----------------------------
(***************************************************************************)
(* Proofs about Billing for any plans, periods and numbers of              *)
(* subscriptions, payments, events, requests and failures. What depends on *)
(* the order of the webhooks assumes that Asaas sends them one at a time   *)
(* (MaxWebhooks <= 1, its sequential queue).                               *)
(***************************************************************************)
EXTENDS Billing, FiniteSetTheorems, TLAPS

USE BillingAssumption DEF BillingAssumption

----------------------------------------------------------------------------
(* Types. *)

(* findFirst ordered by createdAt: of subscriptions that exist, the newest. *)
LEMMA NewestIs ==
  ASSUME NEW n \in Nat, NEW S \in SUBSET (1 .. n), S # {}
  PROVE  Newest(S) \in S /\ \A r \in S : r <= Newest(S)
<1> DEFINE T == {n - s : s \in S}
<1>1. T \subseteq Nat /\ T # {}
  <2>1. \A s \in S : n - s \in Nat
    OBVIOUS
  <2> QED
    BY <2>1
<1>2. PICK x \in T : \A y \in T : <<y, x>> \notin OpToRel(<, Nat)
  BY <1>1, NatLessThanWellFounded, WFMin
<1>3. \A y \in T : x <= y
  <2>1. \A y \in T : <<y, x>> \in Nat \X Nat
    BY <1>1
  <2>2. OpToRel(<, Nat) = {p \in Nat \X Nat : p[1] < p[2]}
    BY DEF OpToRel
  <2> HIDE DEF T
  <2>3. \A y \in T : ~(y < x)
    BY <1>1, <1>2, <2>1, <2>2
  <2>4. x \in Nat /\ T \subseteq Nat
    BY <1>1
  <2> QED
    BY <2>3, <2>4
<1>4. PICK s \in S : x = n - s
  OBVIOUS
<1>5. \A r \in S : r <= s
  <2> SUFFICES ASSUME NEW r \in S PROVE r <= s
    OBVIOUS
  <2>1. n - r \in T
    OBVIOUS
  <2>2. n - s <= n - r
    BY <1>3, <1>4, <2>1
  <2> QED
    BY <2>2
<1> QED
  BY <1>5 DEF Newest

LEMMA Bounds ==
  /\ MaxTime \in Nat /\ MaxSubs \in Nat /\ MaxPayments \in Nat
  /\ MaxFailures \in Nat /\ MaxWebhooks \in Nat
  OBVIOUS

LEMMA SubTypes ==
  /\ NoSub \in Sub
  /\ \A x \in Sub, status \in SubStatus : [x EXCEPT !.status = status] \in Sub
  /\ \A x \in Sub, status \in SubStatus, b \in BOOLEAN :
       /\ [x EXCEPT !.status = status, !.bound = b] \in Sub
       /\ [x EXCEPT !.status = status, !.atEnd = b] \in Sub
<1>1. NoSub \in Sub
  BY Bounds DEF NoSub, Sub, SubStatus
<1>2. \A x \in Sub, status \in SubStatus : [x EXCEPT !.status = status] \in Sub
  BY DEF Sub
<1>3. \A x \in Sub, status \in SubStatus, b \in BOOLEAN :
        /\ [x EXCEPT !.status = status, !.bound = b] \in Sub
        /\ [x EXCEPT !.status = status, !.atEnd = b] \in Sub
  BY DEF Sub
<1> QED
  BY <1>1, <1>2, <1>3

LEMMA TaskTypes ==
  ASSUME NEW t \in Task
  PROVE  /\ t.sub \in 0 .. MaxSubs /\ t.row \in Sub /\ t.event \in Event \cup {NoEvent}
         /\ \A pc \in {"undo", "user", "expire", "pick", "mark"} :
              [t EXCEPT !.pc = pc] \in Task
         /\ \A s \in 0 .. MaxSubs, pc \in {"expireCommit", "mark"} :
              [t EXCEPT !.sub = s, !.pc = pc] \in Task
         /\ \A b \in BOOLEAN : [t EXCEPT !.flag = b, !.pc = "commit"] \in Task
  BY DEF Task

LEMMA NewTaskType ==
  ASSUME NEW kind \in {"webhook", "checkout", "me", "cancel"},
         NEW event \in Event \cup {NoEvent}, NEW sub \in 0 .. MaxSubs,
         NEW flag \in BOOLEAN, NEW pc \in {"asaas", "newer", "processed", "expire"}
  PROVE  NewTask(kind, event, sub, flag, pc) \in Task
  BY SubTypes DEF NewTask, Task

LEMMA EventTypes ==
  ASSUME NEW e \in Event
  PROVE  e.sub \in 1 .. MaxSubs /\ e.payment \in 0 .. MaxPayments
         /\ e.type \in PaymentEvent \cup {"SUBSCRIPTION_DELETED"}
         /\ BillingStatus(e) \in SubStatus
<1>1. /\ e.sub \in 1 .. MaxSubs /\ e.payment \in 0 .. MaxPayments
      /\ e.type \in PaymentEvent \cup {"SUBSCRIPTION_DELETED"}
  <2>1. CASE e \in [type : PaymentEvent, sub : 1 .. MaxSubs, payment : 1 .. MaxPayments]
    <3>1. e.payment \in 1 .. MaxPayments
      BY <2>1
    <3> QED
      BY <2>1, <3>1
  <2>2. CASE e \in [type : {"SUBSCRIPTION_DELETED"}, sub : 1 .. MaxSubs, payment : {0}]
    BY <2>2
  <2> QED
    BY <2>1, <2>2 DEF Event
<1>2. BillingStatus(e) \in SubStatus
  BY <1>1 DEF PaymentEvent, BillingStatus, Activates, SubStatus
<1> QED
  BY <1>1, <1>2

(* A webhook works on the recorded event it was started for, and what is    *)
(* written by a task exists.                                                *)
TasksOK ==
  \A t \in tasks :
    /\ t.kind = "webhook" => /\ t.event \in Event /\ t.event \in recorded
                            /\ t.event.sub \in 1 .. count
    /\ t.pc \in {"newer", "commit", "processed"} =>
         t.kind = "webhook" /\ t.sub = t.event.sub
    /\ t.kind = "checkout" => /\ t.sub \in 1 .. count
                             /\ t.pc \in {"asaas", "user", "undo"}

Typed == TypeOK /\ TasksOK

LEMMA InitTyped == Init => Typed
<1> SUFFICES ASSUME Init PROVE Typed
  OBVIOUS
<1>1. subs \in [1 .. MaxSubs -> Sub]
  BY SubTypes DEF Init
<1>2. user \in [plan : Paid \cup {"FREE"}, status : SubStatus \cup {"INACTIVE"}]
  BY DEF Init
<1> QED
  BY <1>1, <1>2 DEF Init, Typed, TypeOK, TasksOK

(* One task is replaced by another of its type, or ends. *)
LEMMA TaskReplaced ==
  ASSUME Typed, NEW t \in tasks, NEW S \in SUBSET Task,
         tasks' = (tasks \ {t}) \cup S,
         count' = count, recorded' = recorded,
         \A s \in S : /\ s.kind = t.kind /\ s.event = t.event
                      /\ s.pc \in {"newer", "commit", "processed"} =>
                           t.kind = "webhook" /\ s.sub = s.event.sub
                      /\ t.kind = "checkout" =>
                           s.sub = t.sub /\ s.pc \in {"asaas", "user", "undo"}
  PROVE  tasks' \subseteq Task /\ TasksOK'
<1>1. tasks' \subseteq Task
  BY DEF Typed, TypeOK
<1>2. ASSUME NEW s \in tasks'
      PROVE  /\ s.kind = "webhook" => /\ s.event \in Event /\ s.event \in recorded
                                     /\ s.event.sub \in 1 .. count
             /\ s.pc \in {"newer", "commit", "processed"} =>
                  s.kind = "webhook" /\ s.sub = s.event.sub
             /\ s.kind = "checkout" => /\ s.sub \in 1 .. count
                                      /\ s.pc \in {"asaas", "user", "undo"}
  <2>1. CASE s \in tasks
    BY <2>1 DEF Typed, TasksOK
  <2>2. CASE s \in S
    <3>1. /\ s.kind = t.kind /\ s.event = t.event
          /\ s.pc \in {"newer", "commit", "processed"} =>
               t.kind = "webhook" /\ s.sub = s.event.sub
          /\ t.kind = "checkout" =>
               s.sub = t.sub /\ s.pc \in {"asaas", "user", "undo"}
      BY <2>2
    <3>2. /\ t.kind = "webhook" => /\ t.event \in Event /\ t.event \in recorded
                                  /\ t.event.sub \in 1 .. count
          /\ t.kind = "checkout" => t.sub \in 1 .. count
      BY DEF Typed, TasksOK
    <3> QED
      BY <3>1, <3>2
  <2> QED
    BY <2>1, <2>2
<1> QED
  BY <1>1, <1>2 DEF TasksOK

LEMMA CheckoutTyped ==
  ASSUME Typed, NEW plan \in Paid, Checkout(plan)
  PROVE  Typed'
<1>1. count \in Nat /\ count + 1 \in 1 .. MaxSubs /\ count' = count + 1
  <2>1. count \in 0 .. MaxSubs /\ count < MaxSubs /\ count' = count + 1
    BY DEF Typed, TypeOK, Checkout
  <2> QED
    BY <2>1
<1>2. PICK new \in Task :
        /\ tasks' = tasks \cup {new}
        /\ new.kind = "checkout" /\ new.pc = "asaas" /\ new.sub = count + 1
  <2>1. NewTask("checkout", NoEvent, count + 1, user.status = "ACTIVE", "asaas") \in Task
    <3>1. (user.status = "ACTIVE") \in BOOLEAN /\ count + 1 \in 0 .. MaxSubs
      BY <1>1
    <3> QED
      BY <3>1, NewTaskType
  <2>2. LET new == NewTask("checkout", NoEvent, count + 1, user.status = "ACTIVE", "asaas")
        IN  new.kind = "checkout" /\ new.pc = "asaas" /\ new.sub = count + 1
    BY DEF NewTask
  <2>3. tasks' = tasks \cup
          {NewTask("checkout", NoEvent, count + 1, user.status = "ACTIVE", "asaas")}
    BY DEF Checkout
  <2> QED
    BY <2>1, <2>2, <2>3
<1>3. subs' \in [1 .. MaxSubs -> Sub]
  <2>1. [NoSub EXCEPT !.plan = plan, !.status = "PENDING"] \in Sub
    <3>1. \A x \in Sub : [x EXCEPT !.plan = plan, !.status = "PENDING"] \in Sub
      BY DEF Sub, SubStatus
    <3> QED
      BY <3>1, SubTypes
  <2> QED
    <3>1. subs \in [1 .. MaxSubs -> Sub]
      BY DEF Typed, TypeOK
    <3> QED
      BY <1>1, <2>1, <3>1 DEF Checkout
<1>4. TasksOK'
  <2>1. 1 .. count \subseteq 1 .. count' /\ count + 1 \in 1 .. count'
    BY <1>1
  <2> QED
    BY <1>2, <2>1 DEF Typed, TasksOK, Checkout, webhooks
<1> QED
  BY <1>1, <1>2, <1>3, <1>4 DEF Typed, TypeOK, Checkout, webhooks

LEMMA CheckoutStepTyped ==
  ASSUME Typed, NEW t \in tasks, CheckoutStep(t)
  PROVE  Typed'
<1>t. t \in Task /\ subs \in [1 .. MaxSubs -> Sub]
  BY DEF Typed, TypeOK
<1>1. tasks' \subseteq Task /\ TasksOK'
  <2>1. \A pc \in {"user", "undo"} : [t EXCEPT !.pc = pc] \in Task
    BY <1>t, TaskTypes
  <2>2. PICK S \in SUBSET {[t EXCEPT !.pc = "user"], [t EXCEPT !.pc = "undo"]} :
          tasks' = (tasks \ {t}) \cup S
    <3>1. Done(t) \/ Goto(t, "user") \/ Goto(t, "undo")
      BY DEF CheckoutStep, CheckoutCreated, CheckoutUser, CheckoutFails, CheckoutUndo
    <3>2. tasks \ {t} = (tasks \ {t}) \cup {}
      OBVIOUS
    <3> QED
      BY <3>1, <3>2 DEF Done, Goto
  <2>3. count' = count /\ recorded' = recorded /\ t.kind = "checkout"
    BY DEF CheckoutStep, CheckoutCreated, CheckoutUser, CheckoutFails, CheckoutUndo,
           At, webhooks
  <2>4. \A s \in S : /\ s.kind = t.kind /\ s.event = t.event /\ s.sub = t.sub
                    /\ s.pc \in {"user", "undo"}
    BY <1>t, <2>2 DEF Task
  <2> QED
    <3>1. S \in SUBSET Task
      BY <2>1, <2>2
    <3>2. t.kind # "webhook"
      BY <2>3
    <3> QED
      BY <2>2, <2>3, <2>4, <3>1, <3>2, TaskReplaced
<1>2. subs' \in [1 .. MaxSubs -> Sub]
  <2>1. CASE CheckoutCreated(t)
    <3> PICK b \in BOOLEAN :
          subs' = [subs EXCEPT ![t.sub].status = "PENDING", ![t.sub].bound = b]
      BY <2>1 DEF CheckoutCreated
    <3>1. t.sub \in 1 .. MaxSubs => subs[t.sub] \in Sub
      BY <1>t
    <3>2. t.sub \in 1 .. MaxSubs =>
            [subs[t.sub] EXCEPT !.status = "PENDING", !.bound = b] \in Sub
      BY <3>1, SubTypes DEF SubStatus
    <3>3. subs' = [subs EXCEPT ![t.sub] = [@ EXCEPT !.status = "PENDING", !.bound = b]]
      OBVIOUS
    <3> QED
      BY <1>t, <3>2, <3>3
  <2>2. CASE CheckoutUser(t) \/ CheckoutFails(t)
    BY <1>t, <2>2 DEF CheckoutUser, CheckoutFails
  <2>3. CASE CheckoutUndo(t)
    BY <1>t, <2>3 DEF CheckoutUndo, Sub, SubStatus
  <2> QED
    BY <2>1, <2>2, <2>3 DEF CheckoutStep
<1>3. user' \in [plan : Paid \cup {"FREE"}, status : SubStatus \cup {"INACTIVE"}]
  BY DEF CheckoutStep, CheckoutCreated, CheckoutUser, CheckoutFails, CheckoutUndo,
         Typed, TypeOK, SubStatus
<1> QED
  BY <1>1, <1>2, <1>3
  DEF CheckoutStep, CheckoutCreated, CheckoutUser, CheckoutFails, CheckoutUndo,
      Typed, TypeOK, webhooks

LEMMA DeliverTyped ==
  ASSUME Typed, NEW e \in Event, Deliver(e)
  PROVE  Typed'
<1>1. e.sub \in 1 .. count
  BY EventTypes DEF Deliver, Typed, TypeOK
<1>2. PICK new \in Task :
        /\ tasks' = tasks \cup {new}
        /\ new.kind = "webhook" /\ new.pc = "newer" /\ new.event = e /\ new.sub = e.sub
  <2>1. e.sub \in 0 .. MaxSubs /\ subs[e.sub] \in Sub
    BY EventTypes DEF Typed, TypeOK
  <2>2. NewTask("webhook", e, e.sub, FALSE, "newer") \in Task
    BY <2>1, NewTaskType
  <2>3. [NewTask("webhook", e, e.sub, FALSE, "newer") EXCEPT !.row = subs[e.sub]] \in Task
    BY <2>1, <2>2 DEF Task
  <2> QED
    BY <2>3 DEF Deliver, NewTask
<1>3. TasksOK'
  BY <1>1, <1>2 DEF Typed, TasksOK, Deliver, EventRow
<1> QED
  BY <1>2, <1>3 DEF Typed, TypeOK, Deliver, EventRow

(* The new row and user of a webhook's transaction have their types. *)
LEMMA CommitTypes ==
  ASSUME Typed, NEW t \in tasks, WebhookCommit(t)
  PROVE  /\ subs' \in [1 .. MaxSubs -> Sub]
         /\ user' \in [plan : Paid \cup {"FREE"}, status : SubStatus \cup {"INACTIVE"}]
<1>t. /\ t \in Task /\ t.row \in Sub /\ subs \in [1 .. MaxSubs -> Sub]
      /\ t.event \in Event /\ t.sub = t.event.sub /\ now \in Nat
      /\ user \in [plan : Paid \cup {"FREE"}, status : SubStatus \cup {"INACTIVE"}]
  BY TaskTypes DEF Typed, TypeOK, TasksOK, WebhookCommit, At
<1>e. /\ t.sub \in 1 .. MaxSubs /\ t.event.payment \in 0 .. MaxPayments
      /\ BillingStatus(t.event) \in SubStatus
  BY <1>t, EventTypes
<1>1. PeriodEnd(t) \in Nat
  <2>1. t.row.end \in Nat /\ Period \in Nat
    BY <1>t DEF Sub
  <2> QED
    BY <1>t, <2>1 DEF PeriodEnd
<1>2. KeepsAccess(t) \in BOOLEAN
  BY DEF KeepsAccess
<1>3. SubAfter(t) \in Sub
  <2> DEFINE e == t.event
             renews == Activates(e) /\ ~SamePayment(t)
             x == subs[t.sub]
             payment == IF e.payment = 0 THEN x.payment ELSE e.payment
             end == IF renews THEN PeriodEnd(t) ELSE x.end
             b == IF renews THEN FALSE
                  ELSE IF e.type = "SUBSCRIPTION_DELETED" THEN KeepsAccess(t) ELSE x.atEnd
  <2>1. x \in Sub
    BY <1>t, <1>e
  <2>2. x.payment \in 0 .. MaxPayments /\ x.end \in Nat /\ x.atEnd \in BOOLEAN
    BY <2>1 DEF Sub
  <2>3. payment \in 0 .. MaxPayments /\ end \in Nat /\ b \in BOOLEAN
    BY <1>1, <1>2, <1>e, <2>2
  <2>4. SubAfter(t) =
          [x EXCEPT !.status = BillingStatus(e), !.bound = TRUE,
                    !.payment = payment, !.end = end, !.atEnd = b]
    BY DEF SubAfter
  <2> HIDE DEF x, payment, end, b
  <2> QED
    BY <1>e, <2>1, <2>3, <2>4 DEF Sub
<1>4. UserAfter(t) \in [plan : Paid \cup {"FREE"}, status : SubStatus \cup {"INACTIVE"}]
  <2>1. t.row.plan \in Paid \cup {"FREE"} /\ user.plan \in Paid \cup {"FREE"}
    BY <1>t DEF Sub
  <2>2. "ACTIVE" \in SubStatus
    BY DEF SubStatus
  <2> QED
    BY <1>e, <2>1, <2>2 DEF UserAfter
<1> QED
  BY <1>t, <1>3, <1>4 DEF WebhookCommit

LEMMA WebhookStepTyped ==
  ASSUME Typed, NEW t \in tasks, WebhookStep(t)
  PROVE  Typed'
<1>t. t \in Task /\ t.kind = "webhook" /\ t.event \in Event
  BY DEF Typed, TypeOK, TasksOK, WebhookStep, WebhookNewer, WebhookCommit,
         WebhookProcessed, At
<1>1. CASE WebhookNewer(t)
  <2> DEFINE s == [t EXCEPT !.flag = CanUpdateUser(t), !.pc = "commit"]
  <2>1. CanUpdateUser(t) \in BOOLEAN
    BY DEF CanUpdateUser
  <2>2. s \in Task
    BY <1>t, <2>1, TaskTypes
  <2>3. s.kind = t.kind /\ s.event = t.event /\ s.sub = t.sub
    BY <1>t DEF Task
  <2>4. t.sub = t.event.sub
    BY <1>1 DEF WebhookNewer, At, Typed, TasksOK
  <2>5. tasks' = (tasks \ {t}) \cup {s} /\ UNCHANGED <<count, recorded>>
    BY <1>1 DEF WebhookNewer, webhooks
  <2> HIDE DEF s
  <2>6. tasks' \subseteq Task /\ TasksOK'
    <3>1. {s} \in SUBSET Task
      BY <2>2
    <3> QED
      <4>1. \A x \in {s} : /\ x.kind = t.kind /\ x.event = t.event
                           /\ t.kind = "webhook" /\ x.sub = x.event.sub
        BY <1>t, <2>3, <2>4
      <4> QED
        BY <2>5, <3>1, <4>1, TaskReplaced
  <2> QED
    BY <1>1, <2>6 DEF WebhookNewer, webhooks, Typed, TypeOK
<1>2. CASE WebhookCommit(t)
  <2> DEFINE s == NewTask("webhook", t.event, t.sub, FALSE, "processed")
  <2>1. t.sub = t.event.sub /\ t.event \in recorded
    BY <1>2 DEF WebhookCommit, At, Typed, TasksOK
  <2>2. s \in Task
    BY <1>t, TaskTypes, NewTaskType
  <2>3. s.kind = t.kind /\ s.event = t.event /\ s.sub = t.sub
    BY <1>t DEF NewTask
  <2>4. tasks' = (tasks \ {t}) \cup {s} /\ UNCHANGED <<count, recorded>>
    BY <1>2 DEF WebhookCommit
  <2> HIDE DEF s
  <2>5. tasks' \subseteq Task /\ TasksOK'
    <3>1. {s} \in SUBSET Task
      BY <2>2
    <3> QED
      <4>1. \A x \in {s} : /\ x.kind = t.kind /\ x.event = t.event
                           /\ t.kind = "webhook" /\ x.sub = x.event.sub
        BY <1>t, <2>1, <2>3
      <4> QED
        BY <2>4, <3>1, <4>1, TaskReplaced
  <2>6. applied' \subseteq recorded
    BY <1>2, <2>1 DEF WebhookCommit, Typed, TypeOK
  <2> QED
    BY <1>2, <2>5, <2>6, CommitTypes DEF WebhookCommit, Typed, TypeOK
<1>3. CASE WebhookProcessed(t)
  <2>1. PICK S \in SUBSET {[t EXCEPT !.pc = "expire"]} : tasks' = (tasks \ {t}) \cup S
    <3>1. Done(t) \/ Goto(t, "expire")
      BY <1>3 DEF WebhookProcessed
    <3>2. tasks \ {t} = (tasks \ {t}) \cup {}
      OBVIOUS
    <3> QED
      BY <3>1, <3>2 DEF Done, Goto
  <2>2. \A s \in S : s.kind = t.kind /\ s.event = t.event /\ s.pc = "expire"
    BY <1>t, <2>1 DEF Task
  <2>3. S \in SUBSET Task
    BY <1>t, <2>1, TaskTypes
  <2>4. tasks' \subseteq Task /\ TasksOK'
    <3>1. count' = count /\ recorded' = recorded
      BY <1>3 DEF WebhookProcessed
    <3>2. t.kind # "checkout"
      BY <1>t
    <3> QED
      BY <2>1, <2>2, <2>3, <3>1, <3>2, TaskReplaced
  <2>5. processed' \subseteq recorded
    BY <1>3, <1>t DEF WebhookProcessed, Typed, TypeOK, TasksOK
  <2> QED
    BY <1>3, <2>4, <2>5 DEF WebhookProcessed, Typed, TypeOK
<1> QED
  BY <1>1, <1>2, <1>3 DEF WebhookStep

LEMMA RequestTyped ==
  ASSUME Typed, NEW kind \in {"me", "cancel"}, Request(kind)
  PROVE  Typed'
<1>1. PICK new \in Task :
        tasks' = tasks \cup {new} /\ new.kind \in {"me", "cancel"} /\ new.pc = "expire"
  <2>1. NewTask(kind, NoEvent, 0, FALSE, "expire") \in Task
    <3>1. 0 \in 0 .. MaxSubs
      BY Bounds
    <3> QED
      BY <3>1, NewTaskType
  <2> QED
    BY <2>1 DEF Request, NewTask
<1>2. TasksOK'
  BY <1>1 DEF Typed, TasksOK, Request, webhooks
<1> QED
  BY <1>1, <1>2 DEF Typed, TypeOK, Request, webhooks

LEMMA AccountStepTyped ==
  ASSUME Typed, NEW t \in tasks, AccountStep(t)
  PROVE  Typed'
<1>t. /\ t \in Task /\ subs \in [1 .. MaxSubs -> Sub] /\ count \in 0 .. MaxSubs
      /\ t.pc \in {"expire", "expireCommit", "user", "pick", "mark"}
  BY DEF Typed, TypeOK, AccountStep, ExpireFind, ExpireCommit, CancelUser, CancelPick,
         CancelMark, At
<1>e. \A s \in 1 .. count : s \in 0 .. MaxSubs
  BY <1>t
<1>n. /\ Expired # {} => Newest(Expired) \in 1 .. count
      /\ Cancelable # {} => Newest(Cancelable) \in 1 .. count
  <2>1. Expired \in SUBSET (1 .. count) /\ Cancelable \in SUBSET (1 .. count)
    BY DEF Expired, Cancelable
  <2>2. count \in Nat
    BY <1>t
  <2> QED
    BY <2>1, <2>2, NewestIs
<1>1. tasks' \subseteq Task /\ TasksOK'
  <2>1. PICK S \in SUBSET Task :
          /\ tasks' = (tasks \ {t}) \cup S
          /\ \A s \in S : /\ s.kind = t.kind /\ s.event = t.event
                          /\ s.pc \in {"user", "pick", "expireCommit", "mark"}
                          /\ t.kind # "checkout"
    <3>0. tasks \ {t} = (tasks \ {t}) \cup {}
      OBVIOUS
    <3>1. CASE Done(t)
      <4>1. {} \in SUBSET Task /\ tasks' = (tasks \ {t}) \cup {}
        BY <3>0, <3>1 DEF Done
      <4> QED
        BY <4>1
    <3>2. CASE \E pc \in {"user", "pick"} : t.kind = "cancel" /\ Goto(t, pc)
      <4> PICK pc \in {"user", "pick"} : t.kind = "cancel" /\ Goto(t, pc)
        BY <3>2
      <4> DEFINE s == [t EXCEPT !.pc = pc]
      <4>1. s \in Task
        BY <1>t, TaskTypes
      <4>2. s.kind = t.kind /\ s.event = t.event /\ s.pc = pc
        BY <1>t DEF Task
      <4>3. tasks' = (tasks \ {t}) \cup {s}
        BY DEF Goto
      <4> HIDE DEF s
      <4>4. {s} \in SUBSET Task
        BY <4>1
      <4> QED
        BY <4>2, <4>3, <4>4
    <3>3. CASE \E n \in 1 .. count, pc \in {"expireCommit", "mark"} :
                 /\ t.kind # "checkout"
                 /\ tasks' = (tasks \ {t}) \cup {[t EXCEPT !.sub = n, !.pc = pc]}
      <4> PICK n \in 1 .. count, pc \in {"expireCommit", "mark"} :
                 /\ t.kind # "checkout"
                 /\ tasks' = (tasks \ {t}) \cup {[t EXCEPT !.sub = n, !.pc = pc]}
        BY <3>3
      <4> DEFINE s == [t EXCEPT !.sub = n, !.pc = pc]
      <4>1. s \in Task
        BY <1>t, <1>e, TaskTypes
      <4>2. s.kind = t.kind /\ s.event = t.event /\ s.pc = pc
        BY <1>t DEF Task
      <4> HIDE DEF s
      <4>4. {s} \in SUBSET Task
        BY <4>1
      <4> QED
        BY <4>2, <4>4 DEF s
    <3>4. CASE ExpireFind(t)
      <4>1. CASE Expired = {}
        BY <3>1, <3>2, <3>4, <4>1 DEF ExpireFind, AfterExpire
      <4>2. CASE Expired # {}
        <5>1. t.kind # "checkout"
          BY <3>4 DEF ExpireFind, Typed, TasksOK
        <5>2. tasks' = (tasks \ {t}) \cup
                       {[t EXCEPT !.sub = Newest(Expired), !.pc = "expireCommit"]}
          BY <3>4, <4>2 DEF ExpireFind
        <5> QED
          BY <1>n, <3>3, <4>2, <5>1, <5>2
      <4> QED
        BY <4>1, <4>2
    <3>5. CASE ExpireCommit(t)
      BY <3>1, <3>2, <3>5 DEF ExpireCommit, AfterExpire
    <3>6. CASE CancelUser(t)
      BY <3>1, <3>2, <3>6 DEF CancelUser, At
    <3>7. CASE CancelPick(t)
      BY <1>n, <3>1, <3>3, <3>7 DEF CancelPick, At
    <3>8. CASE CancelMark(t)
      BY <3>1, <3>8 DEF CancelMark
    <3> QED
      BY <3>4, <3>5, <3>6, <3>7, <3>8 DEF AccountStep
  <2>2. count' = count /\ recorded' = recorded
    BY DEF AccountStep, ExpireFind, ExpireCommit, CancelUser, CancelPick, CancelMark,
           webhooks
  <2> QED
    BY <2>1, <2>2, TaskReplaced
<1>2. subs' \in [1 .. MaxSubs -> Sub]
  <2>1. CASE UNCHANGED subs
    BY <1>t, <2>1
  <2>2. CASE \E b \in BOOLEAN :
               subs' = [subs EXCEPT ![t.sub].status = "CANCELED", ![t.sub].atEnd = b]
    <3> PICK b \in BOOLEAN :
          subs' = [subs EXCEPT ![t.sub].status = "CANCELED", ![t.sub].atEnd = b]
      BY <2>2
    <3>1. t.sub \in 1 .. MaxSubs => subs[t.sub] \in Sub
      BY <1>t
    <3>2. t.sub \in 1 .. MaxSubs =>
            [subs[t.sub] EXCEPT !.status = "CANCELED", !.atEnd = b] \in Sub
      BY <3>1, SubTypes DEF SubStatus
    <3>3. subs' = [subs EXCEPT ![t.sub] = [@ EXCEPT !.status = "CANCELED", !.atEnd = b]]
      OBVIOUS
    <3> QED
      BY <1>t, <3>2, <3>3
  <2> QED
    BY <2>1, <2>2
    DEF AccountStep, ExpireFind, ExpireCommit, CancelUser, CancelPick, CancelMark
<1>3. user' \in [plan : Paid \cup {"FREE"}, status : SubStatus \cup {"INACTIVE"}]
  BY DEF AccountStep, ExpireFind, ExpireCommit, CancelUser, CancelPick, CancelMark,
         Typed, TypeOK, SubStatus
<1> QED
  BY <1>1, <1>2, <1>3
  DEF AccountStep, ExpireFind, ExpireCommit, CancelUser, CancelPick, CancelMark,
      Typed, TypeOK, webhooks

LEMMA TypedStep == Typed /\ [Next]_vars => Typed'
<1> SUFFICES ASSUME Typed, [Next]_vars PROVE Typed'
  OBVIOUS
<1>1. ASSUME NEW plan \in Paid, Checkout(plan) PROVE Typed'
  BY <1>1, CheckoutTyped
<1>2. ASSUME NEW e \in Event, Deliver(e) PROVE Typed'
  BY <1>2, DeliverTyped
<1>3. ASSUME NEW kind \in {"me", "cancel"}, Request(kind) PROVE Typed'
  BY <1>3, RequestTyped
<1>4. ASSUME NEW t \in tasks, CheckoutStep(t) PROVE Typed'
  BY <1>4, CheckoutStepTyped
<1>5. ASSUME NEW t \in tasks, WebhookStep(t) PROVE Typed'
  BY <1>5, WebhookStepTyped
<1>6. ASSUME NEW t \in tasks, AccountStep(t) PROVE Typed'
  BY <1>6, AccountStepTyped
<1>7. ASSUME NEW t \in tasks, Fails(t) PROVE Typed'
  BY <1>7 DEF Fails, Done, Typed, TypeOK, TasksOK, webhooks
<1>8. CASE Tick
  BY <1>8 DEF Tick, Typed, TypeOK, TasksOK, webhooks
<1>9. CASE UNCHANGED vars
  BY <1>9 DEF vars, Typed, TypeOK, TasksOK
<1> QED
  BY <1>1, <1>2, <1>3, <1>4, <1>5, <1>6, <1>7, <1>8, <1>9 DEF Next

LEMMA AlwaysTyped == Spec => []Typed
<1> QED
  BY InitTyped, TypedStep, PTL DEF Spec

(* Type correctness of the user, the subscriptions, the events and the      *)
(* requests in flight; a processed event is a recorded one.                 *)
THEOREM BillingTypes == Spec => []TypeOK
<1>1. Typed => TypeOK
  BY DEF Typed
<1> QED
  BY <1>1, AlwaysTyped, PTL
----------------------------------------------------------------------------
(* An event is processed after its transaction. *)

Applied ==
  /\ processed \subseteq applied
  /\ \A t \in tasks : t.pc = "processed" => t.event \in applied

(* An event is marked processed only after its transaction: whatever fails  *)
(* in between, the provider's retry finds it unprocessed and applies it.    *)
THEOREM EventsAppliedFirst == Spec => []ProcessedWasApplied
<1>1. Init => Applied
  BY DEF Init, Applied
<1>2. Typed /\ Applied /\ [Next]_vars => Applied'
  <2> SUFFICES ASSUME Typed, Applied, [Next]_vars PROVE Applied'
    OBVIOUS
  <2>1. ASSUME NEW plan \in Paid, Checkout(plan) PROVE Applied'
    BY <2>1 DEF Checkout, NewTask, Applied, webhooks
  <2>2. ASSUME NEW e \in Event, Deliver(e) PROVE Applied'
    BY <2>2 DEF Deliver, EventRow, NewTask, Applied
  <2>3. ASSUME NEW kind \in {"me", "cancel"}, Request(kind) PROVE Applied'
    BY <2>3 DEF Request, NewTask, Applied, webhooks
  <2>4. ASSUME NEW t \in tasks, NEW S, tasks' = (tasks \ {t}) \cup S,
               \A s \in S : s.pc # "processed",
               UNCHANGED <<applied, processed>>
        PROVE  Applied'
    BY <2>4 DEF Applied
  <2>5. ASSUME NEW t \in tasks, UNCHANGED <<applied, processed>>,
               \/ Done(t)
               \/ \E pc \in {"user", "undo", "pick"} : Goto(t, pc)
        PROVE  Applied'
    <3>1. CASE Done(t)
      BY <2>5, <3>1 DEF Applied, Done
    <3>2. ASSUME NEW pc \in {"user", "undo", "pick"}, Goto(t, pc) PROVE Applied'
      <4>1. t \in Task
        BY DEF Typed, TypeOK
      <4>2. [t EXCEPT !.pc = pc].pc # "processed"
        BY <4>1 DEF Task
      <4> QED
        BY <2>5, <3>2, <4>2 DEF Goto, Applied
    <3> QED
      BY <2>5, <3>1, <3>2
  <2>6. ASSUME NEW t \in tasks, CheckoutStep(t) PROVE Applied'
    <3>1. Done(t) \/ Goto(t, "user") \/ Goto(t, "undo")
      BY <2>6 DEF CheckoutStep, CheckoutCreated, CheckoutUser, CheckoutFails, CheckoutUndo
    <3>2. UNCHANGED <<applied, processed>>
      BY <2>6 DEF CheckoutStep, CheckoutCreated, CheckoutUser, CheckoutFails, CheckoutUndo,
                  webhooks
    <3> QED
      BY <2>5, <3>1, <3>2
  <2>7. ASSUME NEW t \in tasks, WebhookStep(t) PROVE Applied'
    <3> t \in Task
      BY DEF Typed, TypeOK
    <3>1. CASE WebhookNewer(t)
      <4>1. [t EXCEPT !.flag = CanUpdateUser(t), !.pc = "commit"].pc # "processed"
        BY DEF Task
      <4> QED
        BY <2>4, <3>1, <4>1 DEF WebhookNewer, webhooks
    <3>2. CASE WebhookCommit(t)
      BY <3>2 DEF WebhookCommit, NewTask, Applied
    <3>3. CASE WebhookProcessed(t)
      <4>1. [t EXCEPT !.pc = "expire"].pc # "processed"
        BY DEF Task
      <4>2. t.event \in applied /\ processed' = processed \cup {t.event}
            /\ applied' = applied
        BY <3>3 DEF WebhookProcessed, At, Applied
      <4>3. \A s \in tasks' : s \in tasks \/ s.pc # "processed"
        BY <3>3, <4>1 DEF WebhookProcessed, Done, Goto
      <4> QED
        BY <4>2, <4>3 DEF Applied
    <3> QED
      BY <2>7, <3>1, <3>2, <3>3 DEF WebhookStep
  <2>8. ASSUME NEW t \in tasks, AccountStep(t) PROVE Applied'
    <3> t \in Task
      BY DEF Typed, TypeOK
    <3>1. UNCHANGED <<applied, processed>>
      BY <2>8 DEF AccountStep, ExpireFind, ExpireCommit, CancelUser, CancelPick,
                  CancelMark, webhooks
    <3>2. CASE Done(t) \/ Goto(t, "user") \/ Goto(t, "pick")
      BY <2>5, <3>1, <3>2
    <3>3. ASSUME NEW n, NEW pc \in {"expireCommit", "mark"},
                 tasks' = (tasks \ {t}) \cup {[t EXCEPT !.sub = n, !.pc = pc]}
          PROVE  Applied'
      <4>1. [t EXCEPT !.sub = n, !.pc = pc].pc # "processed"
        BY DEF Task
      <4> QED
        BY <2>4, <3>1, <3>3, <4>1
    <3> QED
      BY <2>8, <3>2, <3>3
      DEF AccountStep, ExpireFind, ExpireCommit, CancelUser, CancelPick, CancelMark,
          AfterExpire
  <2>9. ASSUME NEW t \in tasks, Fails(t) PROVE Applied'
    BY <2>5, <2>9 DEF Fails, webhooks
  <2>10. CASE Tick \/ UNCHANGED vars
    BY <2>10 DEF Tick, vars, Applied, webhooks
  <2> QED
    BY <2>1, <2>2, <2>3, <2>6, <2>7, <2>8, <2>9, <2>10 DEF Next
<1>3. Applied => ProcessedWasApplied
  BY DEF Applied, ProcessedWasApplied
<1> QED
  BY <1>1, <1>2, <1>3, AlwaysTyped, PTL DEF Spec
----------------------------------------------------------------------------
(* The paid plan. Between two webhooks nobody activates a subscription or   *)
(* moves its period, which is what the row read first relies on.            *)

Sequential == MaxWebhooks <= 1

Handling(t) == t.kind = "webhook" /\ t.pc \in {"newer", "commit"}

OneWebhook ==
  \A t, u \in tasks : t.kind = "webhook" /\ u.kind = "webhook" => t = u

(* No webhook handles a subscription whose checkout has not ended. *)
Apart == \A t, u \in tasks : Handling(t) /\ u.kind = "checkout" => t.sub # u.sub

PaidRow(s) ==
  /\ subs[s].status = "ACTIVE" => subs[s].bound
  /\ subs[s].status = "ACTIVE" \/ subs[s].atEnd => subs[s].end > 0

Good(s) ==
  subs[s].atEnd \/ (subs[s].status \in {"ACTIVE", "PENDING"} /\ subs[s].end > 0)

NoNewer(s) == \A n \in s + 1 .. count : subs[n].status # "ACTIVE"

Pays(s) == subs[s].plan = user.plan /\ Good(s) /\ NoNewer(s)

(* The newest of the subscriptions that count pays for the plan. *)
Cover == user.plan # "FREE" => \E s \in 1 .. count : Pays(s)

RowRead(t) ==
  Handling(t) => /\ t.row.plan = subs[t.sub].plan
                 /\ t.row.end = subs[t.sub].end
                 /\ t.row.status = "ACTIVE" => t.row.end > 0

(* The answer of canUpdateUser still holds when the transaction begins. *)
FlagOK(t) ==
  t.kind = "webhook" /\ t.pc = "commit" =>
    /\ t.flag => NoNewer(t.sub)
    /\ ~t.flag /\ user.plan # "FREE" => \E s \in t.sub + 1 .. count : Pays(s)

Picked(t) ==
  t.pc \in {"expireCommit", "mark"} => t.sub \in 1 .. count /\ subs[t.sub].end > 0

Opening(t) == t.kind = "checkout" => subs[t.sub].end = 0

TaskInv(t) == RowRead(t) /\ FlagOK(t) /\ Picked(t) /\ Opening(t)

PaidInv ==
  /\ Typed /\ OneWebhook /\ Apart
  /\ \A s \in 1 .. count : PaidRow(s)
  /\ Cover
  /\ \A t \in tasks : TaskInv(t)

(* What a step other than a webhook's transaction does to the subscriptions *)
(* and to the user.                                                         *)
Quiet ==
  /\ count' \in Nat /\ count <= count'
  /\ \A s \in 1 .. count :
       /\ subs'[s].plan = subs[s].plan /\ subs'[s].end = subs[s].end
       /\ subs'[s].status = "ACTIVE" => subs[s].status = "ACTIVE"
       /\ user'.plan # "FREE" /\ Good(s) => Good(s)'
  /\ \A s \in count + 1 .. count' : subs'[s].status # "ACTIVE"
  /\ user'.plan # "FREE" => user'.plan = user.plan
  /\ \A s \in 1 .. count' : PaidRow(s)'

LEMMA QuietPays ==
  ASSUME Typed, Quiet, NEW s \in 1 .. count, Pays(s), user'.plan # "FREE"
  PROVE  Pays(s)'
<1>1. count \in Nat /\ count' \in Nat /\ count <= count'
  BY DEF Typed, TypeOK, Quiet
<1>2. ASSUME NEW n \in s + 1 .. count' PROVE subs'[n].status # "ACTIVE"
  <2>1. CASE n \in 1 .. count
    <3>1. n \in s + 1 .. count
      BY <1>1, <2>1
    <3> QED
      BY <2>1, <3>1 DEF Pays, NoNewer, Quiet
  <2>2. CASE n \in count + 1 .. count'
    BY <2>2 DEF Quiet
  <2> QED
    BY <1>1, <2>1, <2>2
<1>3. Good(s)' /\ subs'[s].plan = user'.plan
  BY DEF Quiet, Pays
<1> QED
  BY <1>2, <1>3 DEF Pays, NoNewer

LEMMA QuietTask ==
  ASSUME PaidInv, Quiet, NEW t \in tasks
  PROVE  TaskInv(t)'
<1>1. count \in Nat /\ count' \in Nat /\ count <= count' /\ 1 .. count \subseteq 1 .. count'
  BY DEF PaidInv, Typed, TypeOK, Quiet
<1>2. TaskInv(t) /\ Typed
  BY DEF PaidInv
<1>3. /\ t.pc \in {"newer", "commit", "processed"} => t.sub \in 1 .. count
      /\ t.kind = "checkout" => t.sub \in 1 .. count
  BY <1>2 DEF Typed, TasksOK
<1>4. RowRead(t)'
  BY <1>2, <1>3 DEF TaskInv, RowRead, Handling, Quiet
<1>5. Picked(t)'
  BY <1>1, <1>2 DEF TaskInv, Picked, Quiet
<1>6. Opening(t)'
  BY <1>2, <1>3 DEF TaskInv, Opening, Quiet
<1>7. FlagOK(t)'
  <2> SUFFICES ASSUME t.kind = "webhook", t.pc = "commit" PROVE FlagOK(t)'
    BY DEF FlagOK
  <2>0. t.sub \in 1 .. count
    BY <1>3
  <2>1. ASSUME t.flag PROVE NoNewer(t.sub)'
    <3>1. NoNewer(t.sub)
      BY <1>2, <2>1 DEF TaskInv, FlagOK
    <3>2. ASSUME NEW n \in t.sub + 1 .. count' PROVE subs'[n].status # "ACTIVE"
      <4>1. CASE n \in 1 .. count
        <5>1. n \in t.sub + 1 .. count
          BY <1>1, <2>0, <4>1
        <5> QED
          BY <3>1, <4>1, <5>1 DEF NoNewer, Quiet
      <4>2. CASE n \in count + 1 .. count'
        BY <4>2 DEF Quiet
      <4> QED
        BY <1>1, <2>0, <4>1, <4>2
    <3> QED
      BY <3>2 DEF NoNewer
  <2>2. ASSUME ~t.flag, user'.plan # "FREE"
        PROVE  \E s \in t.sub + 1 .. count' : Pays(s)'
    <3>1. user.plan # "FREE"
      BY <2>2 DEF Quiet
    <3>2. PICK s \in t.sub + 1 .. count : Pays(s)
      BY <1>2, <2>2, <3>1 DEF TaskInv, FlagOK
    <3>3. s \in 1 .. count /\ s \in t.sub + 1 .. count'
      BY <1>1, <2>0
    <3>4. Pays(s)'
      BY <1>2, <2>2, <3>2, <3>3, QuietPays
    <3> QED
      BY <3>3, <3>4
  <2> QED
    BY <2>1, <2>2 DEF FlagOK
<1> QED
  BY <1>4, <1>5, <1>6, <1>7 DEF TaskInv

(* What a quiet step leaves to show of the requests in flight. *)
LEMMA QuietKeeps ==
  ASSUME PaidInv, Quiet, Typed', OneWebhook', Apart',
         \A t \in tasks' \ tasks : TaskInv(t)'
  PROVE  PaidInv'
<1>1. \A s \in 1 .. count' : PaidRow(s)'
  BY DEF Quiet
<1>2. Cover'
  <2> SUFFICES ASSUME user'.plan # "FREE" PROVE \E s \in 1 .. count' : Pays(s)'
    BY DEF Cover
  <2>1. PICK s \in 1 .. count : Pays(s)
    BY DEF PaidInv, Cover, Quiet
  <2>2. Pays(s)'
    BY <2>1, QuietPays DEF PaidInv
  <2>3. s \in 1 .. count'
    BY DEF PaidInv, Typed, TypeOK, Quiet
  <2> QED
    BY <2>2, <2>3
<1>3. ASSUME NEW t \in tasks' PROVE TaskInv(t)'
  <2>1. CASE t \in tasks
    BY <2>1, QuietTask
  <2>2. CASE t \notin tasks
    BY <2>2
  <2> QED
    BY <2>1, <2>2
<1> QED
  BY <1>1, <1>2, <1>3 DEF PaidInv

(* A quiet step that replaces one request by its next step, or ends it. *)
LEMMA QuietStep ==
  ASSUME PaidInv, Quiet, Typed', NEW t \in tasks, NEW x,
         tasks' \subseteq (tasks \ {t}) \cup {x},
         x.kind = t.kind,
         t.kind = "checkout" => x.sub = t.sub,
         Handling(x) => Handling(t) /\ x.sub = t.sub /\ x.row = t.row,
         FlagOK(x)', Picked(x)'
  PROVE  PaidInv'
<1>1. OneWebhook'
  BY DEF PaidInv, OneWebhook
<1>2. Apart'
  <2> SUFFICES ASSUME NEW a \in tasks', NEW b \in tasks', Handling(a), b.kind = "checkout"
               PROVE  a.sub # b.sub
    BY DEF Apart, Handling
  <2>1. Apart
    BY DEF PaidInv
  <2>2. PICK a1 \in tasks : Handling(a1) /\ a1.sub = a.sub
    <3>1. CASE a \in tasks
      BY <3>1
    <3>2. CASE a = x
      BY <3>2
    <3> QED
      BY <3>1, <3>2
  <2>3. PICK b1 \in tasks : b1.kind = "checkout" /\ b1.sub = b.sub
    <3>1. CASE b \in tasks
      BY <3>1
    <3>2. CASE b = x
      BY <3>2
    <3> QED
      BY <3>1, <3>2
  <2> QED
    BY <2>1, <2>2, <2>3 DEF Apart
<1>3. TaskInv(x)'
  <2>1. TaskInv(t)'
    BY QuietTask
  <2>2. Opening(x)'
    BY <2>1 DEF TaskInv, Opening
  <2>3. RowRead(x)'
    BY <2>1 DEF TaskInv, RowRead, Handling
  <2> QED
    BY <2>2, <2>3 DEF TaskInv
<1> QED
  BY <1>1, <1>2, <1>3, QuietKeeps

(* A quiet step that ends a request or leaves the requests alone. *)
LEMMA QuietEnd ==
  ASSUME PaidInv, Quiet, Typed', tasks' \subseteq tasks
  PROVE  PaidInv'
<1>1. OneWebhook' /\ Apart'
  BY DEF PaidInv, OneWebhook, Apart, Handling
<1> QED
  BY <1>1, QuietKeeps

(* Nothing is written that another request relies on. *)
LEMMA StillQuiet ==
  ASSUME PaidInv, UNCHANGED <<subs, count>>, user'.plan \in {user.plan, "FREE"}
  PROVE  Quiet
<1>1. count \in Nat
  BY DEF PaidInv, Typed, TypeOK
<1> QED
  BY <1>1 DEF PaidInv, Quiet, Good, PaidRow

(* A row loses its ACTIVE status, and the plan with it unless it stays good. *)
LEMMA RowClosed ==
  ASSUME PaidInv, NEW k \in 1 .. count, NEW r,
         subs' = [subs EXCEPT ![k] = r], count' = count,
         r.plan = subs[k].plan, r.end = subs[k].end,
         r.status # "ACTIVE", r.atEnd => r.end > 0,
         user'.plan \in {user.plan, "FREE"},
         user'.plan # "FREE" /\ Good(k) => r.atEnd
  PROVE  Quiet
<1>1. count \in Nat /\ count' = count /\ subs \in [1 .. MaxSubs -> Sub]
      /\ 1 .. count \subseteq 1 .. MaxSubs
  BY DEF PaidInv, Typed, TypeOK
<1>2. subs'[k] = r /\ \A s \in 1 .. count : s # k => subs'[s] = subs[s]
  BY <1>1
<1>3. ASSUME NEW s \in 1 .. count
      PROVE  /\ subs'[s].plan = subs[s].plan /\ subs'[s].end = subs[s].end
             /\ subs'[s].status = "ACTIVE" => subs[s].status = "ACTIVE"
             /\ user'.plan # "FREE" /\ Good(s) => Good(s)'
             /\ PaidRow(s)'
  <2>1. CASE s = k
    BY <1>2, <2>1 DEF Good, PaidRow
  <2>2. CASE s # k
    BY <1>2, <2>2 DEF Good, PaidRow, PaidInv
  <2> QED
    BY <2>1, <2>2
<1>4. \A s \in count + 1 .. count' : subs'[s].status # "ACTIVE"
  BY <1>1
<1> QED
  BY <1>1, <1>3, <1>4 DEF Quiet

LEMMA CheckoutPaid ==
  ASSUME PaidInv, NEW plan \in Paid, Checkout(plan)
  PROVE  PaidInv'
<1>1. Typed'
  BY CheckoutTyped DEF PaidInv
<1>2. /\ count \in Nat /\ count + 1 \in 1 .. MaxSubs /\ count' = count + 1
      /\ subs \in [1 .. MaxSubs -> Sub] /\ 1 .. count \subseteq 1 .. MaxSubs
  <2>1. count \in 0 .. MaxSubs /\ count < MaxSubs /\ count' = count + 1
        /\ subs \in [1 .. MaxSubs -> Sub]
    BY DEF PaidInv, Typed, TypeOK, Checkout
  <2> QED
    BY <2>1
<1>3. subs'[count + 1].status = "PENDING" /\ subs'[count + 1].end = 0
      /\ subs'[count + 1].atEnd = FALSE
  <2>1. PICK r : r = [NoSub EXCEPT !.plan = plan, !.status = "PENDING"]
    OBVIOUS
  <2>2. r.status = "PENDING" /\ r.end = 0 /\ r.atEnd = FALSE
    BY <2>1 DEF NoSub
  <2>3. subs'[count + 1] = r
    BY <1>2, <2>1 DEF Checkout
  <2> QED
    BY <2>2, <2>3
<1>4. \A s \in 1 .. count : subs'[s] = subs[s]
  BY <1>2 DEF Checkout
<1>5. Quiet
  <2>1. user' = user /\ 1 .. count' = (1 .. count) \cup {count + 1}
        /\ count + 1 .. count' = {count + 1}
    BY <1>2 DEF Checkout
  <2>2. \A s \in 1 .. count' : PaidRow(s)'
    BY <1>3, <1>4, <2>1 DEF PaidRow, PaidInv
  <2> QED
    BY <1>2, <1>3, <1>4, <2>1, <2>2 DEF Quiet, Good
<1>6. PICK x : /\ tasks' = tasks \cup {x} /\ x.kind = "checkout"
               /\ x.pc = "asaas" /\ x.sub = count + 1
  <2>1. tasks' = tasks \cup {NewTask("checkout", NoEvent, count + 1,
                                     user.status = "ACTIVE", "asaas")}
    BY DEF Checkout
  <2>2. LET new == NewTask("checkout", NoEvent, count + 1, user.status = "ACTIVE", "asaas")
        IN  new.kind = "checkout" /\ new.pc = "asaas" /\ new.sub = count + 1
    BY DEF NewTask
  <2> QED
    BY <2>1, <2>2
<1>7. OneWebhook'
  BY <1>6 DEF PaidInv, OneWebhook
<1>8. Apart'
  <2>1. \A t \in tasks : Handling(t) => t.sub # count + 1
    <3>1. \A t \in tasks : Handling(t) => t.sub \in 1 .. count
      BY DEF Handling, PaidInv, Typed, TasksOK
    <3> QED
      BY <1>2, <3>1
  <2> QED
    BY <1>6, <2>1 DEF PaidInv, Apart, Handling
<1>9. TaskInv(x)'
  BY <1>3, <1>6 DEF TaskInv, RowRead, Handling, FlagOK, Picked, Opening
<1> QED
  BY <1>1, <1>5, <1>6, <1>7, <1>8, <1>9, QuietKeeps
LEMMA RequestPaid ==
  ASSUME PaidInv, NEW kind \in {"me", "cancel"}, Request(kind)
  PROVE  PaidInv'
<1>1. Typed' /\ Quiet
  BY RequestTyped, StillQuiet DEF PaidInv, Request
<1>2. PICK x : tasks' = tasks \cup {x} /\ x.kind \in {"me", "cancel"} /\ x.pc = "expire"
  <2>1. LET new == NewTask(kind, NoEvent, 0, FALSE, "expire")
        IN  new.kind \in {"me", "cancel"} /\ new.pc = "expire"
    BY DEF NewTask
  <2> QED
    BY <2>1 DEF Request
<1>3. OneWebhook' /\ Apart'
  BY <1>2 DEF PaidInv, OneWebhook, Apart, Handling
<1>4. TaskInv(x)'
  BY <1>2 DEF TaskInv, RowRead, Handling, FlagOK, Picked, Opening
<1> QED
  BY <1>1, <1>2, <1>3, <1>4, QuietKeeps

LEMMA NoOtherWebhook ==
  ASSUME Sequential, Cardinality({t \in tasks : t.kind = "webhook"}) < MaxWebhooks,
         OneWebhook
  PROVE  \A t \in tasks : t.kind # "webhook"
<1> SUFFICES ASSUME NEW t \in tasks, t.kind = "webhook" PROVE FALSE
  OBVIOUS
<1>1. {u \in tasks : u.kind = "webhook"} = {t}
  BY DEF OneWebhook
<1>2. Cardinality({t}) = 1
  BY FS_Singleton
<1>3. 1 < MaxWebhooks
  BY <1>1, <1>2
<1> QED
  BY <1>3, Bounds DEF Sequential

LEMMA DeliverPaid ==
  ASSUME Sequential, PaidInv, NEW e \in Event, Deliver(e)
  PROVE  PaidInv'
<1>1. Typed' /\ Quiet
  BY DeliverTyped, StillQuiet DEF PaidInv, Deliver
<1>2. /\ e.sub \in 1 .. count /\ e.sub \in 1 .. MaxSubs
      /\ subs[e.sub] \in Sub /\ PaidRow(e.sub)
  BY EventTypes DEF Deliver, PaidInv, Typed, TypeOK
<1>3. PICK x : /\ tasks' = tasks \cup {x} /\ x.kind = "webhook" /\ x.pc = "newer"
               /\ x.sub = e.sub /\ x.row = subs[e.sub]
  <2>1. PICK x : x = [NewTask("webhook", e, e.sub, FALSE, "newer")
                        EXCEPT !.row = subs[e.sub]]
    OBVIOUS
  <2>2. /\ x.kind = "webhook" /\ x.pc = "newer" /\ x.sub = e.sub /\ x.row = subs[e.sub]
    BY <2>1 DEF NewTask
  <2>3. tasks' = tasks \cup {x}
    BY <2>1 DEF Deliver
  <2> QED
    BY <2>2, <2>3
<1>4. OneWebhook'
  <2>1. \A t \in tasks : t.kind # "webhook"
    BY NoOtherWebhook DEF Deliver, PaidInv
  <2> QED
    BY <1>3, <2>1 DEF OneWebhook
<1>5. Apart'
  BY <1>3 DEF PaidInv, Apart, Handling, Deliver
<1>6. TaskInv(x)'
  <2>1. subs' = subs
    BY DEF Deliver
  <2> QED
    BY <1>2, <1>3, <2>1 DEF TaskInv, RowRead, FlagOK, Picked, Opening, PaidRow
<1> QED
  BY <1>1, <1>3, <1>4, <1>5, <1>6, QuietKeeps

LEMMA CheckoutStepPaid ==
  ASSUME PaidInv, NEW t \in tasks, CheckoutStep(t)
  PROVE  PaidInv'
<1>1. Typed'
  BY CheckoutStepTyped DEF PaidInv
<1>t. /\ t \in Task /\ t.kind = "checkout" /\ subs \in [1 .. MaxSubs -> Sub]
      /\ user \in [plan : Paid \cup {"FREE"}, status : SubStatus \cup {"INACTIVE"}]
  BY DEF PaidInv, Typed, TypeOK, CheckoutStep, CheckoutCreated, CheckoutUser,
         CheckoutFails, CheckoutUndo, At
<1>s. t.sub \in 1 .. count /\ t.sub \in 1 .. MaxSubs /\ subs[t.sub] \in Sub
  BY <1>t DEF PaidInv, Typed, TypeOK, TasksOK
<1>e. subs[t.sub].end = 0 /\ ~subs[t.sub].atEnd /\ ~Good(t.sub)
  <2>1. Opening(t) /\ PaidRow(t.sub)
    BY <1>s DEF PaidInv, TaskInv
  <2>2. subs[t.sub].end = 0
    BY <1>t, <2>1 DEF Opening
  <2> QED
    BY <2>1, <2>2 DEF PaidRow, Good
<1>2. Quiet
  <2>1. CASE CheckoutCreated(t)
    <3>1. PICK b \in BOOLEAN :
            subs' = [subs EXCEPT ![t.sub].status = "PENDING", ![t.sub].bound = b]
      BY <2>1 DEF CheckoutCreated
    <3>2. PICK r : r = [subs[t.sub] EXCEPT !.status = "PENDING", !.bound = b]
      OBVIOUS
    <3>3. /\ r.plan = subs[t.sub].plan /\ r.end = subs[t.sub].end
          /\ r.status = "PENDING" /\ r.atEnd = subs[t.sub].atEnd
      BY <1>s, <3>2 DEF Sub
    <3>4. subs' = [subs EXCEPT ![t.sub] = r]
      BY <3>1, <3>2
    <3>5. count' = count /\ user' = user
      BY <2>1 DEF CheckoutCreated
    <3> QED
      BY <1>s, <1>e, <3>3, <3>4, <3>5, RowClosed
  <2>2. CASE CheckoutUndo(t)
    <3>2. PICK r : r = [subs[t.sub] EXCEPT !.status = "CANCELED"]
      OBVIOUS
    <3>3. /\ r.plan = subs[t.sub].plan /\ r.end = subs[t.sub].end
          /\ r.status = "CANCELED" /\ r.atEnd = subs[t.sub].atEnd
      BY <1>s, <3>2 DEF Sub
    <3>4. subs' = [subs EXCEPT ![t.sub] = r]
      BY <2>2, <3>2 DEF CheckoutUndo
    <3>5. count' = count /\ user' = user
      BY <2>2 DEF CheckoutUndo
    <3> QED
      BY <1>s, <1>e, <3>3, <3>4, <3>5, RowClosed
  <2>3. CASE CheckoutUser(t) \/ CheckoutFails(t)
    <3>1. user'.plan = user.plan
      BY <1>t, <2>3 DEF CheckoutUser, CheckoutFails
    <3> QED
      BY <2>3, <3>1, StillQuiet DEF CheckoutUser, CheckoutFails
  <2> QED
    BY <2>1, <2>2, <2>3 DEF CheckoutStep
<1>3. CASE Done(t)
  BY <1>1, <1>2, <1>3, QuietEnd DEF Done
<1>4. ASSUME NEW pc \in {"user", "undo"}, Goto(t, pc) PROVE PaidInv'
  <2>1. PICK x : x = [t EXCEPT !.pc = pc]
    OBVIOUS
  <2>2. x.kind = "checkout" /\ x.sub = t.sub /\ x.pc \in {"user", "undo"}
    BY <1>t, <2>1 DEF Task
  <2>3. tasks' = (tasks \ {t}) \cup {x}
    BY <1>4, <2>1 DEF Goto
  <2>4. FlagOK(x)' /\ Picked(x)' /\ ~Handling(x)
    BY <2>2 DEF FlagOK, Picked, Handling
  <2> QED
    BY <1>1, <1>2, <1>t, <2>2, <2>3, <2>4, QuietStep
<1> QED
  BY <1>3, <1>4 DEF CheckoutStep, CheckoutCreated, CheckoutUser, CheckoutFails, CheckoutUndo

LEMMA WebhookNewerPaid ==
  ASSUME PaidInv, NEW t \in tasks, WebhookNewer(t)
  PROVE  PaidInv'
<1>1. Typed' /\ Quiet
  BY WebhookStepTyped, StillQuiet DEF PaidInv, WebhookNewer, WebhookStep
<1>2. /\ t \in Task /\ Handling(t) /\ t.kind = "webhook" /\ t.sub \in 1 .. count
      /\ count \in Nat
  BY DEF PaidInv, Typed, TypeOK, TasksOK, WebhookNewer, At, Handling
<1>3. PICK x : x = [t EXCEPT !.flag = CanUpdateUser(t), !.pc = "commit"]
  OBVIOUS
<1>4. /\ x.kind = t.kind /\ x.sub = t.sub /\ x.row = t.row /\ x.pc = "commit"
      /\ x.flag = CanUpdateUser(t)
  BY <1>2, <1>3 DEF Task
<1>5. tasks' = (tasks \ {t}) \cup {x}
  BY <1>3 DEF WebhookNewer
<1>6. CanUpdateUser(t) => NoNewer(t.sub)
  <2>1. \A s \in t.sub + 1 .. count : PaidRow(s)
    BY <1>2 DEF PaidInv
  <2> QED
    BY <2>1 DEF CanUpdateUser, NoNewer, PaidRow
<1>7. ASSUME ~CanUpdateUser(t), user.plan # "FREE"
      PROVE  \E s \in t.sub + 1 .. count : Pays(s)
  <2>1. PICK n \in t.sub + 1 .. count : subs[n].status = "ACTIVE"
    BY <1>7 DEF CanUpdateUser
  <2>2. PICK s \in 1 .. count : Pays(s)
    BY <1>7 DEF PaidInv, Cover
  <2>3. n \notin s + 1 .. count
    BY <2>1, <2>2 DEF Pays, NoNewer
  <2>4. s \in t.sub + 1 .. count
    BY <1>2, <2>3
  <2> QED
    BY <2>2, <2>4
<1>8. FlagOK(x)'
  <2>1. UNCHANGED <<subs, user, count>>
    BY DEF WebhookNewer
  <2> QED
    BY <1>4, <1>6, <1>7, <2>1 DEF FlagOK, NoNewer, Pays, Good
<1>9. Picked(x)'
  BY <1>4 DEF Picked
<1> QED
  BY <1>1, <1>2, <1>4, <1>5, <1>8, <1>9, QuietStep

LEMMA WebhookProcessedPaid ==
  ASSUME PaidInv, NEW t \in tasks, WebhookProcessed(t)
  PROVE  PaidInv'
<1>1. Typed' /\ Quiet
  BY WebhookStepTyped, StillQuiet DEF PaidInv, WebhookProcessed, WebhookStep
<1>2. CASE Done(t)
  BY <1>1, <1>2, QuietEnd DEF Done
<1>3. CASE Goto(t, "expire")
  <2>1. PICK x : x = [t EXCEPT !.pc = "expire"]
    OBVIOUS
  <2>2. x.kind = t.kind /\ x.sub = t.sub /\ x.pc = "expire"
    BY <2>1 DEF Task, PaidInv, Typed, TypeOK
  <2>3. tasks' = (tasks \ {t}) \cup {x}
    BY <1>3, <2>1 DEF Goto
  <2>4. FlagOK(x)' /\ Picked(x)' /\ ~Handling(x)
    BY <2>2 DEF FlagOK, Picked, Handling
  <2> QED
    BY <1>1, <2>2, <2>3, <2>4, QuietStep
<1> QED
  BY <1>2, <1>3 DEF WebhookProcessed
LEMMA AccountStepPaid ==
  ASSUME PaidInv, NEW t \in tasks, AccountStep(t)
  PROVE  PaidInv'
<1>1. Typed'
  BY AccountStepTyped DEF PaidInv
<1>t. t \in Task /\ count \in Nat /\ subs \in [1 .. MaxSubs -> Sub]
      /\ 1 .. count \subseteq 1 .. MaxSubs
  BY DEF PaidInv, Typed, TypeOK
<1>n. /\ Expired # {} => /\ Newest(Expired) \in 1 .. count
                         /\ subs[Newest(Expired)].end > 0
      /\ Cancelable # {} => /\ Newest(Cancelable) \in 1 .. count
                            /\ subs[Newest(Cancelable)].end > 0
  <2>1. Expired \in SUBSET (1 .. count) /\ Cancelable \in SUBSET (1 .. count)
    BY DEF Expired, Cancelable
  <2>2. /\ Expired # {} => Newest(Expired) \in Expired
        /\ Cancelable # {} => Newest(Cancelable) \in Cancelable
    BY <1>t, <2>1, NewestIs
  <2>3. \A s \in Expired \cup Cancelable : subs[s].end > 0
    BY <2>1 DEF Expired, Cancelable, PaidInv, PaidRow
  <2> QED
    BY <2>1, <2>2, <2>3
<1>2. Quiet
  <2>1. CASE ExpireFind(t) \/ CancelUser(t) \/ CancelPick(t)
    BY <2>1, StillQuiet DEF ExpireFind, CancelUser, CancelPick
  <2>2. ASSUME NEW b \in BOOLEAN, t.pc \in {"expireCommit", "mark"},
               subs' = [subs EXCEPT ![t.sub].status = "CANCELED", ![t.sub].atEnd = b],
               count' = count, user'.plan \in {user.plan, "FREE"},
               user'.plan = "FREE" \/ b
        PROVE  Quiet
    <3>1. t.sub \in 1 .. count /\ subs[t.sub].end > 0 /\ subs[t.sub] \in Sub
      BY <1>t, <2>2 DEF PaidInv, TaskInv, Picked
    <3>2. PICK r : r = [subs[t.sub] EXCEPT !.status = "CANCELED", !.atEnd = b]
      OBVIOUS
    <3>3. /\ r.plan = subs[t.sub].plan /\ r.end = subs[t.sub].end
          /\ r.status = "CANCELED" /\ r.atEnd = b
      BY <3>1, <3>2 DEF Sub
    <3>4. subs' = [subs EXCEPT ![t.sub] = r]
      BY <2>2, <3>2
    <3> QED
      BY <2>2, <3>1, <3>3, <3>4, RowClosed
  <2>3. CASE ExpireCommit(t)
    BY <2>2, <2>3 DEF ExpireCommit
  <2>4. CASE CancelMark(t)
    BY <2>2, <2>4 DEF CancelMark, At
  <2> QED
    BY <2>1, <2>3, <2>4 DEF AccountStep
<1>3. CASE Done(t)
  BY <1>1, <1>2, <1>3, QuietEnd DEF Done
<1>4. ASSUME NEW pc \in {"user", "pick"}, Goto(t, pc) PROVE PaidInv'
  <2>1. PICK x : x = [t EXCEPT !.pc = pc]
    OBVIOUS
  <2>2. x.kind = t.kind /\ x.sub = t.sub /\ x.pc \in {"user", "pick"}
    BY <1>t, <2>1 DEF Task
  <2>3. tasks' = (tasks \ {t}) \cup {x}
    BY <1>4, <2>1 DEF Goto
  <2>4. FlagOK(x)' /\ Picked(x)' /\ ~Handling(x)
    BY <2>2 DEF FlagOK, Picked, Handling
  <2> QED
    BY <1>1, <1>2, <2>2, <2>3, <2>4, QuietStep
<1>5. ASSUME NEW n \in 1 .. count, NEW pc \in {"expireCommit", "mark"},
             subs[n].end > 0, t.kind # "checkout", UNCHANGED <<subs, count>>,
             tasks' = (tasks \ {t}) \cup {[t EXCEPT !.sub = n, !.pc = pc]}
      PROVE  PaidInv'
  <2>1. PICK x : x = [t EXCEPT !.sub = n, !.pc = pc]
    OBVIOUS
  <2>2. x.kind = t.kind /\ x.sub = n /\ x.pc = pc
    BY <1>t, <2>1 DEF Task
  <2>3. tasks' = (tasks \ {t}) \cup {x}
    BY <1>5, <2>1
  <2>4. FlagOK(x)' /\ ~Handling(x)
    BY <2>2 DEF FlagOK, Handling
  <2>5. Picked(x)'
    BY <1>5, <2>2 DEF Picked
  <2> QED
    BY <1>1, <1>2, <1>5, <2>2, <2>3, <2>4, <2>5, QuietStep
<1>6. CASE ExpireFind(t)
  <2>1. t.kind # "checkout"
    BY <1>6 DEF ExpireFind, PaidInv, Typed, TasksOK
  <2>2. CASE Expired = {}
    BY <1>3, <1>4, <1>6, <2>2 DEF ExpireFind, AfterExpire
  <2>3. CASE Expired # {}
    <3>1. tasks' = (tasks \ {t}) \cup
                     {[t EXCEPT !.sub = Newest(Expired), !.pc = "expireCommit"]}
          /\ UNCHANGED <<subs, count>>
      BY <1>6, <2>3 DEF ExpireFind
    <3> QED
      BY <1>n, <1>5, <2>1, <2>3, <3>1
  <2> QED
    BY <2>2, <2>3
<1>7. CASE CancelPick(t)
  <2>1. CASE Done(t)
    BY <1>3, <2>1
  <2>2. CASE Cancelable # {} /\ tasks' = (tasks \ {t}) \cup
               {[t EXCEPT !.sub = Newest(Cancelable), !.pc = "mark"]}
    <3>1. t.kind # "checkout" /\ UNCHANGED <<subs, count>>
      BY <1>7 DEF CancelPick, At
    <3> QED
      BY <1>n, <1>5, <2>2, <3>1
  <2> QED
    BY <1>7, <2>1, <2>2 DEF CancelPick
<1>8. CASE ExpireCommit(t) \/ CancelUser(t) \/ CancelMark(t)
  BY <1>3, <1>4, <1>8 DEF ExpireCommit, CancelUser, CancelMark, AfterExpire
<1> QED
  BY <1>6, <1>7, <1>8 DEF AccountStep

(* What a webhook's transaction makes of the row. *)
LEMMA CommitRow ==
  ASSUME PaidInv, NEW t \in tasks, WebhookCommit(t)
  PROVE  /\ SubAfter(t).plan = subs[t.sub].plan /\ SubAfter(t).bound
         /\ SubAfter(t).status = BillingStatus(t.event)
         /\ Activates(t.event) => SubAfter(t).end > 0
         /\ subs[t.sub].end > 0 => SubAfter(t).end > 0
         /\ SubAfter(t).atEnd => SubAfter(t).end > 0
         /\ KeepsAccess(t) => SubAfter(t).atEnd
         /\ t.event.type = "PAYMENT_AWAITING_RISK_ANALYSIS" =>
              /\ SubAfter(t).atEnd = subs[t.sub].atEnd
              /\ SubAfter(t).end = subs[t.sub].end
<1>t. /\ t \in Task /\ t.event \in Event /\ t.row \in Sub /\ Handling(t)
      /\ t.sub \in 1 .. count /\ subs[t.sub] \in Sub /\ now \in Nat
  <2>1. /\ t \in Task /\ t.event \in Event /\ Handling(t)
        /\ t.sub \in 1 .. count /\ now \in Nat
    BY DEF PaidInv, Typed, TypeOK, TasksOK, WebhookCommit, At, Handling
  <2>2. subs[t.sub] \in Sub
    BY <2>1 DEF PaidInv, Typed, TypeOK
  <2> QED
    BY <2>1, <2>2, TaskTypes
<1>r. /\ t.row.end = subs[t.sub].end /\ t.row.end \in Nat
      /\ t.row.status = "ACTIVE" => t.row.end > 0
      /\ subs[t.sub].atEnd => subs[t.sub].end > 0
  <2>1. RowRead(t) /\ PaidRow(t.sub)
    BY <1>t DEF PaidInv, TaskInv
  <2> QED
    BY <1>t, <2>1 DEF RowRead, PaidRow, Sub
<1> DEFINE e == t.event
           x == subs[t.sub]
           renews == Activates(e) /\ ~SamePayment(t)
           payment == IF e.payment = 0 THEN x.payment ELSE e.payment
           end == IF renews THEN PeriodEnd(t) ELSE x.end
           b == IF renews THEN FALSE
                ELSE IF e.type = "SUBSCRIPTION_DELETED" THEN KeepsAccess(t) ELSE x.atEnd
<1>1. SubAfter(t) = [x EXCEPT !.status = BillingStatus(e), !.bound = TRUE,
                              !.payment = payment, !.end = end, !.atEnd = b]
  BY DEF SubAfter
<1>2. PeriodEnd(t) > 0
  BY <1>t, <1>r DEF PeriodEnd
<1>3. /\ Activates(e) => end > 0
      /\ x.end > 0 => end > 0
      /\ b => end > 0
  BY <1>t, <1>r, <1>2 DEF SamePayment, KeepsAccess
<1>4. KeepsAccess(t) => b
  BY DEF KeepsAccess, Activates
<1>5. e.type = "PAYMENT_AWAITING_RISK_ANALYSIS" => b = x.atEnd /\ end = x.end
  BY DEF Activates
<1> HIDE DEF x, payment, end, b
<1>6. x \in Sub /\ x = subs[t.sub]
  BY <1>t DEF x
<1>7. /\ SubAfter(t).plan = x.plan /\ SubAfter(t).bound
      /\ SubAfter(t).status = BillingStatus(e)
      /\ SubAfter(t).end = end /\ SubAfter(t).atEnd = b
  BY <1>1, <1>6 DEF Sub
<1> QED
  BY <1>3, <1>4, <1>5, <1>6, <1>7

LEMMA CommitCover ==
  ASSUME PaidInv, NEW t \in tasks, WebhookCommit(t)
  PROVE  Cover'
<1> SUFFICES ASSUME user'.plan # "FREE" PROVE \E s \in 1 .. count' : Pays(s)'
  BY DEF Cover
<1>t. /\ t.sub \in 1 .. count /\ t.sub \in 1 .. MaxSubs /\ count \in Nat
      /\ subs \in [1 .. MaxSubs -> Sub] /\ t.event \in Event
      /\ TaskInv(t) /\ Handling(t) /\ t.pc = "commit" /\ t.kind = "webhook"
  BY DEF PaidInv, Typed, TypeOK, TasksOK, WebhookCommit, At, Handling
<1>1. /\ count' = count /\ subs'[t.sub] = SubAfter(t)
      /\ \A s : s # t.sub => subs'[s] = subs[s]
  BY <1>t DEF WebhookCommit
<1>2. \A s \in 1 .. count : s >= t.sub /\ NoNewer(s) => NoNewer(s)'
  BY <1>1, <1>t DEF NoNewer
<1>3. CASE ~t.flag
  <2>1. user' = user
    BY <1>3 DEF WebhookCommit
  <2>2. PICK s \in t.sub + 1 .. count : Pays(s)
    BY <1>t, <1>3, <2>1 DEF TaskInv, FlagOK
  <2>3. s \in 1 .. count /\ s >= t.sub /\ s # t.sub
    BY <1>t
  <2>4. Pays(s)'
    BY <1>1, <1>2, <2>1, <2>2, <2>3 DEF Pays, Good
  <2> QED
    BY <1>1, <2>3, <2>4
<1>4. CASE t.flag
  <2>0. user' = UserAfter(t) /\ NoNewer(t.sub)'
    BY <1>2, <1>4, <1>t DEF WebhookCommit, TaskInv, FlagOK
  <2>e. t.event.type \in PaymentEvent \cup {"SUBSCRIPTION_DELETED"}
    BY <1>t, EventTypes
  <2>1. CASE Activates(t.event)
    <3>1. user'.plan = t.row.plan /\ t.row.plan = subs[t.sub].plan
      BY <1>t, <2>0, <2>1
      DEF UserAfter, Activates, ResetsPlan, TaskInv, RowRead
    <3>2. subs'[t.sub].status = "ACTIVE"
      BY <1>1, <2>1, CommitRow DEF BillingStatus, Activates
    <3>3. Pays(t.sub)'
      BY <1>1, <2>0, <2>1, <3>1, <3>2, CommitRow DEF Pays, Good
    <3> QED
      BY <1>t, <1>1, <3>3
  <2>2. CASE ~Activates(t.event)
    <3>1. /\ user'.plan = user.plan
          /\ KeepsAccess(t) \/ t.event.type = "PAYMENT_AWAITING_RISK_ANALYSIS"
      BY <2>0, <2>2, <2>e
      DEF UserAfter, Activates, ResetsPlan, PaymentEvent
    <3>2. subs'[t.sub].status # "ACTIVE"
      BY <1>1, <2>2, <2>e, CommitRow DEF BillingStatus, PaymentEvent, Activates
    <3>3. PICK s \in 1 .. count : Pays(s)
      BY <3>1 DEF PaidInv, Cover
    <3>4. CASE s = t.sub
      <4>1. Good(s)'
        <5>1. CASE KeepsAccess(t)
          BY <1>1, <3>4, <5>1, CommitRow DEF Good
        <5>2. CASE t.event.type = "PAYMENT_AWAITING_RISK_ANALYSIS"
          <6>1. BillingStatus(t.event) = "PENDING"
            BY <5>2 DEF BillingStatus, Activates
          <6> QED
            BY <1>1, <3>3, <3>4, <5>2, <6>1, CommitRow DEF Good, Pays
        <5> QED
          BY <3>1, <5>1, <5>2
      <4> QED
        BY <1>1, <2>0, <3>1, <3>3, <3>4, <4>1, CommitRow DEF Pays
    <3>5. CASE s # t.sub
      <4>1. NoNewer(s)'
        BY <1>1, <3>2, <3>3 DEF Pays, NoNewer
      <4> QED
        BY <1>1, <3>1, <3>3, <3>5, <4>1 DEF Pays, Good
    <3> QED
      BY <3>4, <3>5
  <2> QED
    BY <2>1, <2>2
<1> QED
  BY <1>3, <1>4

LEMMA WebhookCommitPaid ==
  ASSUME PaidInv, NEW t \in tasks, WebhookCommit(t)
  PROVE  PaidInv'
<1>1. Typed' /\ Cover'
  BY WebhookStepTyped, CommitCover DEF PaidInv, WebhookStep
<1>t. /\ t.sub \in 1 .. count /\ t.sub \in 1 .. MaxSubs
      /\ subs \in [1 .. MaxSubs -> Sub] /\ t.event \in Event
      /\ Handling(t) /\ t.kind = "webhook"
  BY DEF PaidInv, Typed, TypeOK, TasksOK, WebhookCommit, At, Handling
<1>2. /\ count' = count /\ subs'[t.sub] = SubAfter(t)
      /\ \A s : s # t.sub => subs'[s] = subs[s]
  BY <1>t DEF WebhookCommit
<1>3. PICK x : tasks' = (tasks \ {t}) \cup {x} /\ x.kind = "webhook" /\ x.pc = "processed"
  <2>1. LET new == NewTask("webhook", t.event, t.sub, FALSE, "processed")
        IN  new.kind = "webhook" /\ new.pc = "processed"
    BY DEF NewTask
  <2> QED
    BY <2>1 DEF WebhookCommit
<1>4. OneWebhook' /\ Apart'
  BY <1>t, <1>3 DEF PaidInv, OneWebhook, Apart, Handling
<1>5. ASSUME NEW s \in 1 .. count' PROVE PaidRow(s)'
  <2>1. CASE s = t.sub
    <3>1. t.event.type \in PaymentEvent \cup {"SUBSCRIPTION_DELETED"}
      BY <1>t, EventTypes
    <3>2. BillingStatus(t.event) = "ACTIVE" => Activates(t.event)
      BY <3>1 DEF BillingStatus, PaymentEvent, Activates
    <3> QED
      BY <1>2, <2>1, <3>2, CommitRow DEF PaidRow
  <2>2. CASE s # t.sub
    BY <1>2, <2>2 DEF PaidInv, PaidRow
  <2> QED
    BY <2>1, <2>2
<1>6. ASSUME NEW u \in tasks' PROVE TaskInv(u)'
  <2>1. CASE u = x
    BY <1>3, <2>1 DEF TaskInv, RowRead, Handling, FlagOK, Picked, Opening
  <2>2. CASE u \in tasks /\ u # t
    <3>1. u.kind # "webhook" /\ TaskInv(u)
      BY <1>t, <2>2 DEF PaidInv, OneWebhook
    <3>2. Picked(u)'
      <4>1. CASE u.sub = t.sub
        BY <1>2, <3>1, <4>1, CommitRow DEF TaskInv, Picked
      <4>2. CASE u.sub # t.sub
        BY <1>2, <3>1, <4>2 DEF TaskInv, Picked
      <4> QED
        BY <4>1, <4>2
    <3>3. Opening(u)'
      BY <1>t, <1>2, <2>2, <3>1 DEF PaidInv, Apart, TaskInv, Opening
    <3> QED
      BY <3>1, <3>2, <3>3 DEF TaskInv, RowRead, Handling, FlagOK
  <2> QED
    BY <1>3, <2>1, <2>2
<1> QED
  BY <1>1, <1>4, <1>5, <1>6 DEF PaidInv

LEMMA InitPaid == Init => PaidInv
<1> SUFFICES ASSUME Init PROVE PaidInv
  OBVIOUS
<1>1. 1 .. count = {} /\ tasks = {} /\ user.plan = "FREE"
  BY DEF Init
<1> QED
  BY <1>1, InitTyped DEF PaidInv, OneWebhook, Apart, Cover

LEMMA PaidStep ==
  ASSUME Sequential
  PROVE  PaidInv /\ [Next]_vars => PaidInv'
<1> SUFFICES ASSUME PaidInv, [Next]_vars PROVE PaidInv'
  OBVIOUS
<1>1. ASSUME NEW plan \in Paid, Checkout(plan) PROVE PaidInv'
  BY <1>1, CheckoutPaid
<1>2. ASSUME NEW e \in Event, Deliver(e) PROVE PaidInv'
  BY <1>2, DeliverPaid
<1>3. ASSUME NEW kind \in {"me", "cancel"}, Request(kind) PROVE PaidInv'
  BY <1>3, RequestPaid
<1>4. ASSUME NEW t \in tasks, CheckoutStep(t) PROVE PaidInv'
  BY <1>4, CheckoutStepPaid
<1>5. ASSUME NEW t \in tasks, WebhookStep(t) PROVE PaidInv'
  BY <1>5, WebhookNewerPaid, WebhookCommitPaid, WebhookProcessedPaid DEF WebhookStep
<1>6. ASSUME NEW t \in tasks, AccountStep(t) PROVE PaidInv'
  BY <1>6, AccountStepPaid
<1>7. Typed'
  BY TypedStep DEF PaidInv
<1>8. ASSUME NEW t \in tasks, Fails(t) PROVE PaidInv'
  BY <1>7, <1>8, StillQuiet, QuietEnd DEF Fails, Done
<1>9. CASE Tick \/ UNCHANGED vars
  <2>1. UNCHANGED <<user, subs, count, tasks>>
    BY <1>9 DEF Tick, vars
  <2> QED
    BY <1>7, <2>1, StillQuiet, QuietEnd
<1> QED
  BY <1>1, <1>2, <1>3, <1>4, <1>5, <1>6, <1>8, <1>9 DEF Next

(* Whoever has a paid plan has a subscription of that plan that was paid    *)
(* for and neither failed nor was reversed, or was cancelled for the end of *)
(* its period, when webhooks come one at a time.                            *)
THEOREM PlanFollowsPayments ==
  ASSUME Sequential
  PROVE  Spec => []PlanIsPaid
<1>1. PaidInv => PlanIsPaid
  BY DEF PaidInv, Cover, Pays, Good, PlanIsPaid
<1> QED
  BY <1>1, InitPaid, PaidStep, PTL DEF Spec

(* A webhook of an older subscription never takes the plan of a newer       *)
(* ACTIVE one away, when webhooks come one at a time.                       *)
THEOREM NewerKeepsPlan ==
  ASSUME Sequential
  PROVE  Spec => OlderKeepsPlan
<1>1. PaidInv /\ [Next]_vars =>
        [\A t \in tasks :
           t.kind = "webhook" /\ t.pc = "commit" /\ t \notin tasks'
           /\ user.plan # "FREE" /\ user'.plan = "FREE"
             => \A s \in t.sub + 1 .. count : subs[s].status # "ACTIVE"]_vars
  <2> SUFFICES ASSUME PaidInv, [Next]_vars, NEW t \in tasks,
                      t.kind = "webhook", t.pc = "commit", t \notin tasks',
                      user.plan # "FREE", user'.plan = "FREE"
               PROVE  NoNewer(t.sub)
    BY DEF NoNewer
  <2>1. t.flag => NoNewer(t.sub)
    BY DEF PaidInv, TaskInv, FlagOK
  <2>2. WebhookCommit(t)
    <3>1. \A u \in tasks : t \notin tasks' /\
            (CheckoutStep(u) \/ WebhookStep(u) \/ AccountStep(u) \/ Fails(u)) => u = t
      BY DEF CheckoutStep, CheckoutCreated, CheckoutUser, CheckoutFails, CheckoutUndo,
             WebhookStep, WebhookNewer, WebhookCommit, WebhookProcessed, AccountStep,
             ExpireFind, ExpireCommit, CancelUser, CancelPick, CancelMark, Fails,
             AfterExpire, Done, Goto
    <3>2. ~CheckoutStep(t) /\ ~WebhookNewer(t) /\ ~WebhookProcessed(t) /\ ~AccountStep(t)
      BY DEF CheckoutStep, CheckoutCreated, CheckoutUser, CheckoutFails, CheckoutUndo,
             WebhookNewer, WebhookProcessed, AccountStep, At,
             ExpireFind, ExpireCommit, CancelUser, CancelPick, CancelMark
    <3>3. ~Fails(t) /\ ~UNCHANGED vars /\ ~Tick
      BY DEF Fails, vars, Tick
    <3>4. /\ \A plan \in Paid : ~Checkout(plan)
          /\ \A e \in Event : ~Deliver(e)
          /\ \A kind \in {"me", "cancel"} : ~Request(kind)
      BY DEF Checkout, Deliver, Request
    <3>5. Next
      BY <3>3
    <3>6. PICK u \in tasks : CheckoutStep(u) \/ WebhookStep(u) \/ AccountStep(u) \/ Fails(u)
      BY <3>3, <3>4, <3>5 DEF Next
    <3> QED
      BY <3>1, <3>2, <3>3, <3>6 DEF WebhookStep
  <2>3. CASE ~t.flag
    BY <2>2, <2>3 DEF WebhookCommit
  <2> QED
    BY <2>1, <2>3
<1> QED
  BY <1>1, InitPaid, PaidStep, PTL DEF Spec, OlderKeepsPlan
=============================================================================
