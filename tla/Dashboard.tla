------------------------------ MODULE Dashboard ------------------------------
(***************************************************************************)
(* One page of the web application in a browser tab, and what the API      *)
(* stores of the elements the page lists or edits: sessions, routes,       *)
(* subscriptions, credentials, referrals, the fields of a form.            *)
(*                                                                         *)
(* A handler runs up to its next await; a flight is a handler that waits   *)
(* for the answers of its calls. A call is served by the API at one        *)
(* moment and answered at a later one, and the answers of different        *)
(* flights come in any order. Leaving a page does not stop its handlers;   *)
(* what they set then is not seen.                                         *)
(*                                                                         *)
(* The revision of an element counts its changes: 0 means it never existed *)
(* or, in the page, that it was never read.                                *)
(***************************************************************************)
EXTENDS Integers, FiniteSets, Pages

CONSTANTS
  Item, AnyItem,            \* the elements of the page; AnyItem stands for none of them
  First,                    \* of a form: the URL of the generator, the
                            \* settings (the other fields are the prices)
  SourceOf, DestinationOf,  \* the groups of a route
  Plan, Limits,             \* PLAN_LIMITS: sessions, sources, destinations
  MaxFlights,               \* bound on the handlers in flight, beside polls
  MaxPolls,                 \* bound on the polls in flight of one session
  Budgets                   \* per page, the bounds to try: how often it is opened
                            \* again, clicks, edits, failures, changes by others

ASSUME DashboardAssumption ==
  /\ IsFiniteSet(Item) /\ First \in Item /\ AnyItem \notin Item
  /\ DOMAIN SourceOf = Item /\ DOMAIN DestinationOf = Item
  /\ Limits \in [Plan -> [sessions : Nat, sources : Nat, destinations : Nat]]
  /\ MaxFlights \in Nat \ {0} /\ MaxPolls \in Nat
  /\ Budgets \in [Page -> SUBSET [{"open", "click", "edit", "fail", "change"} -> Nat]]

VARIABLES
  page,      \* the page that is open in this behaviour
  db,        \* the elements at the API
  plan,      \* the user's plan
  tab,       \* the state of the page's component, see Mounted
  flight,    \* per slot, the handler waiting for an answer
  wrote,     \* per element, the revision a handler that ended well wrote
  overtaken, \* elements shown from a read older than what was shown before
  left       \* what is left of the budget

vars == <<page, db, plan, tab, flight, wrote, overtaken, left>>

NoOne == [op |-> "none"]
Absent == [is |-> "absent", rev |-> 0]
Blank == [rev |-> 0, edited |-> FALSE]
NoUsage == [plan |-> AnyItem]
FlagName == {"actionId", "savingId", "checkoutPlan", "canceling", "saving",
             "savingPrices", "testing", "testingRaw", "payingId", "rejectingId"}

(* The polls of a session have slots of their own. *)
Slot == ({AnyItem} \X (1 .. MaxFlights)) \cup (Item \X (1 .. MaxPolls))

(* A component as it is mounted: nothing read, `loading`. *)
Mounted(n) ==
  [visit   |-> n,
   loading |-> page # "referrals",
   read    |-> "no",             \* the list: "no", "yes" or "failed"
   view    |-> [i \in Item |-> Absent],
   usage   |-> NoUsage,          \* `planUsage`
   listed  |-> FALSE,            \* `groupsBySession` of the chosen session
   draft   |-> [i \in Item |-> Blank],
   busy    |-> [f \in FlagName |-> NoOne]]

(* The elements a write sends: a form sends all of its fields. *)
Sent(op, i) ==
  CASE page \in {"user", "generator"} /\ op = "save" -> Item
    [] page = "settings" /\ op = "savePrices"         -> Item \ {First}
    [] op \in {"load", "poll", "status", "qr", "sync", "groups", "test", "raw"} -> {}
    [] OTHER -> {i}

Flight(t, op, i) ==
  [visit   |-> t.visit, op |-> op, item |-> i, step |-> 1,
   got     |-> <<>>,             \* the answers of the calls served
   refused |-> FALSE,
   body    |-> [j \in Item |-> IF j \in Sent(op, i) THEN t.draft[j] ELSE Blank],
   seen    |-> [j \in Item |-> IF j \in Sent(op, i) THEN t.view[j].rev ELSE 0],
   read    |-> t.read,
   wrote   |-> [j \in Item |-> 0],
   freed   |-> FALSE]            \* its flag was cleared or set by another

Spend(what) == left[what] > 0 /\ left' = [left EXCEPT ![what] = @ - 1]

----------------------------------------------------------------------------
(* The API. *)

(* What a list shows of an element. GET /routes leaves inactive routes out; *)
(* a checkout that is pending hides that the plan was canceled.             *)
RowIs(i) ==
  CASE db[i].is = "inactive" -> "absent"
    [] db[i].is = "canceled" /\ \E j \in Item : db[j].is = "pending" -> "active"
    [] OTHER -> db[i].is
Row(i) == [db[i] EXCEPT !.is = RowIs(i)]
Rows == [i \in Item |-> Row(i)]
Exists(i) == db[i].is # "absent"
Filled(field) == field.edited \/ field.rev > 0

Active == {i \in Item : db[i].is = "active"}
Groups(of, routes) == {of[i] : i \in routes}

UsageNow ==
  [plan         |-> plan,
   sessions     |-> Cardinality({i \in Item : Exists(i)}),
   sources      |-> Cardinality(Groups(SourceOf, Active)),
   destinations |-> Cardinality(Groups(DestinationOf, Active))]

(* assertCanCreateRoute: distinct groups, those of the new route included. *)
LimitAllows(i) ==
  /\ Cardinality(Groups(SourceOf, Active \cup {i})) <= Limits[plan].sources
  /\ Cardinality(Groups(DestinationOf, Active \cup {i})) <= Limits[plan].destinations

(* Whether the API takes a write. *)
Accepts(f) ==
  LET i == f.item
  IN  CASE f.op = "connect" -> UsageNow.sessions < Limits[plan].sessions
        [] f.op = "createRoute" -> db[i].is # "active" /\ LimitAllows(i)
        [] f.op = "resume" -> LimitAllows(i)
        [] f.op = "invite" -> db[i].is = "inactive" \/ LimitAllows(i)
        [] f.op = "remove" -> Exists(i)
        [] f.op = "cancel" -> db[i].is = "active"
        [] f.op = "paid" -> db[i].is = "eligible"
        [] f.op = "reject" -> db[i].is # "paid"
        [] f.op = "savePrices" -> \A j \in Item \ {First} : Filled(f.body[j])
        [] OTHER -> TRUE

Becomes(op, is) ==
  CASE op = "connect"  -> "pending"   [] op = "remove"                 -> "absent"
    [] op = "pause"    -> "inactive"  [] op \in {"resume", "createRoute"} -> "active"
    [] op = "checkout" -> "pending"   [] op = "cancel"                 -> "canceled"
    [] op = "paid"     -> "paid"      [] op = "reject"                 -> "rejected"
    [] op = "invite"   -> is          [] OTHER                         -> "set"

(* A form sends every field as it stands: one that was not edited and is    *)
(* stored as the page read it stays the same.                               *)
Same(f, i) ==
  page \in Forms /\ f.op # "setActive" /\ ~f.body[i].edited /\ f.body[i].rev = db[i].rev

Stored(f) ==
  [i \in Item |->
     IF i \in Sent(f.op, f.item) /\ ~Same(f, i)
     THEN [is |-> Becomes(f.op, db[i].is), rev |-> db[i].rev + 1] ELSE db[i]]

(* What happens to an element without this page: the runtime, a payment    *)
(* event, the daily job, another tab or another administrator.             *)
Moves ==
  CASE page = "whatsapp" ->
         {<<"pending", "connected">>, <<"pending", "disconnected">>,
          <<"pending", "absent">>, <<"connected", "disconnected">>,
          <<"disconnected", "pending">>}
    [] page \in {"routes", "groups"} -> {<<"active", "inactive">>, <<"inactive", "active">>}
    [] page = "billing" -> {<<"pending", "active">>}
    [] page = "referrals" -> {<<"waiting", "eligible">>}
    [] OTHER -> {<<"set", "set">>}

(* A user has one plan: a payment of one ends the other. *)
AfterMove(i, is) ==
  [j \in Item |->
     CASE j = i -> [is |-> is, rev |-> db[j].rev + 1]
       [] page = "billing" /\ j # i /\ db[j].is \in {"active", "canceled"}
            -> [is |-> "none", rev |-> db[j].rev + 1]
       [] OTHER -> db[j]]

Moved(i) ==
  /\ Spend("change")
  /\ \E m \in Moves : db[i].is = m[1] /\ db' = AfterMove(i, m[2])
  /\ UNCHANGED <<page, plan, tab, flight, wrote, overtaken>>

PlanMoved ==
  /\ page \in {"whatsapp", "routes", "groups"}
  /\ Spend("change")
  /\ plan' \in Plan \ {plan}
  /\ UNCHANGED <<page, db, tab, flight, wrote, overtaken>>

----------------------------------------------------------------------------
(* What the user may do, page by page. *)

Shown(i) == tab.view[i].is # "absent"
ShowsAs(i, is) == tab.view[i].is = is
BusyWith(flag, op, i) ==
  tab.busy[flag].op = op /\ tab.busy[flag].item = i
BusyOn_Ignored(flag, i) == FALSE
BusyOn(flag, i) == tab.busy[flag] # NoOne /\ tab.busy[flag].item = i
Free(flag) == tab.busy[flag] = NoOne

WhatsAppLimitReached ==
  tab.usage # NoUsage /\ tab.usage.sessions >= Limits[tab.usage.plan].sessions

(* A session that is shown can be selected, and only the aside of the      *)
(* selected one offers "qr" and, while not connected, a second "status". A *)
(* new session is an element that never existed.                           *)
WhatsAppClick(op, i) ==
  \/ /\ op = "connect" /\ db[i].rev = 0
     /\ ~tab.loading \/ \E j \in Item : Shown(j)
     /\ tab.busy["actionId"].op # "connect" /\ ~WhatsAppLimitReached
  \/ /\ op = "status" /\ Shown(i)
     /\ IF ShowsAs(i, "connected") THEN ~BusyOn("actionId", i)
                                   ELSE ~BusyWith("actionId", "status", i)
  \/ /\ op = "qr" /\ Shown(i) /\ ~ShowsAs(i, "connected")
     /\ ~BusyWith("actionId", "qr", i)
  \/ op = "sync" /\ ShowsAs(i, "connected") /\ ~BusyOn("actionId", i)
  \/ op = "remove" /\ Shown(i) /\ ~BusyOn("actionId", i)

RoutesClick(op, i) ==
  /\ ~BusyOn("savingId", i)
  /\ \/ op = "pause" /\ Shown(i)
     \/ op = "invite" /\ Shown(i)
     \/ op = "resume" /\ ShowsAs(i, "inactive")

RouteLimitMessage_AllNew(i) ==
  /\ tab.usage # NoUsage
  /\ \/ tab.usage.sources + 1 > Limits[tab.usage.plan].sources
     \/ tab.usage.destinations + 1 > Limits[tab.usage.plan].destinations

(* readRouteLimitMessage: whether there is a message for the route i. *)
RouteLimitMessage(i) ==
  LET active == {j \in Item : ShowsAs(j, "active")}
      NextOf(of, n) == n + (IF of[i] \in Groups(of, active) THEN 0 ELSE 1)
  IN  /\ tab.usage # NoUsage
      /\ \/ NextOf(SourceOf, tab.usage.sources) > Limits[tab.usage.plan].sources
         \/ NextOf(DestinationOf, tab.usage.destinations) > Limits[tab.usage.plan].destinations

GroupsClick(op, i) ==
  /\ ~tab.loading
  /\ \/ op = "groups" /\ i = First /\ ~BusyWith("actionId", "groups", i)
     \/ /\ op = "createRoute" /\ tab.busy["actionId"].op # "createRoute"
        /\ tab.listed /\ ~RouteLimitMessage(i) /\ ~ShowsAs(i, "active")

(* The plan of the user is the current one until its period ends. *)
MayCheckout(i) ==
  /\ tab.read = "yes" /\ tab.view[i].is \notin {"active", "canceled"}
  /\ ~BusyOn("checkoutPlan", i)
MayCancel(i) == ShowsAs(i, "active") /\ Free("canceling")

BillingClick(op, i) ==
  (op = "checkout" /\ MayCheckout(i)) \/ (op = "cancel" /\ MayCancel(i))

CredentialsClick(op, i) ==
  /\ ~tab.loading
  /\ \/ op = "save" /\ Filled(tab.draft[i]) /\ ~BusyOn("saving", i)
     \/ op = "test" /\ i = First /\ Free("testing")
     \/ op = "raw" /\ i = First /\ Free("testingRaw")

ReferralsClick(op, i) ==
  \/ op = "paid" /\ ShowsAs(i, "eligible") /\ ~BusyOn("payingId", i)
  \/ /\ op = "reject" /\ Shown(i) /\ tab.view[i].is \notin {"paid", "rejected"}
     /\ ~BusyOn("rejectingId", i)

(* No form while `loading` or without a user. *)
UserClick(op, i) ==
  /\ ~tab.loading /\ tab.read = "yes"
  /\ op \in {"save", "setActive"} /\ i = First /\ Free("saving")

SettingsClick(op, i) ==
  /\ ~tab.loading /\ i = First
  /\ \/ op = "save" /\ Free("saving")
     \/ op = "savePrices" /\ Free("savingPrices")

GeneratorClick(op, i) ==
  /\ i = First
  /\ \/ op = "save" /\ ~tab.loading /\ Filled(tab.draft[First]) /\ Free("saving")
     \/ op = "test" /\ Free("testing")

MayClick(op, i) ==
  CASE page = "whatsapp"    -> WhatsAppClick(op, i)
    [] page = "routes"      -> RoutesClick(op, i)
    [] page = "groups"      -> GroupsClick(op, i)
    [] page = "billing"     -> BillingClick(op, i)
    [] page = "credentials" -> CredentialsClick(op, i)
    [] page = "referrals"   -> ReferralsClick(op, i)
    [] page = "user"        -> UserClick(op, i)
    [] page = "settings"    -> SettingsClick(op, i)
    [] page = "generator"   -> GeneratorClick(op, i)

----------------------------------------------------------------------------
(* A handler starts: a click of the user, the timer of the polls, a mount.  *)

(* What a handler writes in its flag: the element, except for the buttons  *)
(* that make a new one.                                                    *)
Mark(op, i) == [op |-> op, item |-> IF op \in {"connect", "createRoute"} THEN AnyItem ELSE i]

IsFree(k) == flight[k] = NoOne

(* The handlers of the page that wait and set the flag. *)
Holding(flag) ==
  {k \in Slot : /\ flag \in FlagName /\ ~IsFree(k) /\ flight[k].visit = tab.visit
                /\ Flag(page, flight[k].op) = flag}

(* They lose it to a handler that sets it to something else or clears it.   *)
FlagTaken(from) ==
  [k \in Slot |-> IF k \in from THEN [flight[k] EXCEPT !.freed = TRUE] ELSE flight[k]]

FirstFree(k, i) ==
  k[1] = i /\ IsFree(k) /\ \A n \in 1 .. k[2] - 1 : ~IsFree(<<i, n>>)

Click(op, i) ==
  LET flag == Flag(page, op)
      others == {k \in Holding(flag) : Mark(flight[k].op, flight[k].item) # Mark(op, i)}
  IN  /\ MayClick(op, i)
      /\ Spend("click")
      /\ \E k \in Slot :
           /\ FirstFree(k, AnyItem)
           /\ flight' = [FlagTaken(others) EXCEPT ![k] = Flight(tab, op, i)]
      /\ tab' = [tab EXCEPT !.busy[flag] = Mark(op, i)]
      /\ UNCHANGED <<page, db, plan, wrote, overtaken>>

(* The effect on `sessions` renews the timer whenever the list changes, so  *)
(* a tick polls the sessions that are shown as neither connected nor        *)
(* disconnected; this is the part of one session in a tick.                 *)
IsPending(is) == is \notin {"absent", "connected", "disconnected"}

PollIsDue_AtMount(i) == tab.read = "no" /\ page = "whatsapp" /\ IsPending(tab.view[i].is)
PollIsDue(i) == page = "whatsapp" /\ IsPending(tab.view[i].is)

Poll(i) ==
  /\ PollIsDue(i)
  /\ \E k \in Slot :
       FirstFree(k, i) /\ flight' = [flight EXCEPT ![k] = Flight(tab, "poll", i)]
  /\ UNCHANGED <<page, db, plan, tab, wrote, overtaken, left>>

FormShown == page \in Forms /\ ~tab.loading /\ (page = "user" => tab.read = "yes")

Edit(i) ==
  /\ FormShown /\ ~tab.draft[i].edited
  /\ Spend("edit")
  /\ tab' = [tab EXCEPT !.draft[i].edited = TRUE]
  /\ UNCHANGED <<page, db, plan, flight, wrote, overtaken>>

(* The user leaves the page and comes back. *)
Reopen ==
  /\ Spend("open")
  /\ tab' = Mounted(tab.visit + 1)
  /\ \E k \in Slot :
       /\ FirstFree(k, AnyItem)
       /\ flight' = [flight EXCEPT ![k] = Flight(tab', "load", First)]
  /\ wrote' = [i \in Item |-> 0] /\ overtaken' = {}
  /\ UNCHANGED <<page, db, plan>>

----------------------------------------------------------------------------
(* Calls and answers. *)

StepCalls(f) == Calls(page, f.op)[f.step]

Answer(f, call) ==
  CASE call = "write" -> Stored(f)
    [] call = "rows"  -> Rows
    [] call = "row"   -> Row(f.item)
    [] call = "usage" -> UsageNow
    [] call = "other" -> TRUE

Refuses(f, call) ==
  \/ call = "write" /\ ~Accepts(f)
  \/ page = "whatsapp" /\ call \in {"row", "other"} /\ ~Exists(f.item)

WithAnswer(got, call, answer) ==
  [c \in DOMAIN got \cup {call} |-> IF c = call THEN answer ELSE got[c]]

(* The API serves one call of a handler. *)
Serve(k) ==
  LET f == flight[k]
  IN  /\ ~IsFree(k) /\ ~f.refused
      /\ \E call \in StepCalls(f) \ DOMAIN f.got :
           IF Refuses(f, call)
           THEN flight' = [flight EXCEPT ![k].refused = TRUE] /\ UNCHANGED db
           ELSE /\ flight' = [flight EXCEPT
                     ![k].got = WithAnswer(@, call, Answer(f, call)),
                     ![k].wrote = IF call # "write" THEN @
                                  ELSE [j \in Item |-> IF j \in Sent(f.op, f.item)
                                                        THEN Stored(f)[j].rev ELSE 0]]
                /\ db' = IF call = "write" THEN Stored(f) ELSE db
      /\ UNCHANGED <<page, plan, tab, wrote, overtaken, left>>

Unedited(rows) == [i \in Item |-> [rev |-> rows[i].rev, edited |-> FALSE]]

ShowRows_DraftKept(t, rows) == [t EXCEPT !.view = rows, !.read = "yes"]

(* What the answers f has got change in the page. *)
ShowRows(t, rows) ==
  [t EXCEPT !.view = rows, !.read = "yes",
            !.draft = IF page \in Forms THEN Unedited(rows) ELSE @]

ShowWritten(t, f) ==
  LET rows == f.got["write"]
      Is(i) == i \in Sent(f.op, f.item)
  IN  [t EXCEPT !.view = [i \in Item |-> IF Is(i) THEN rows[i] ELSE @[i]],
                !.draft = [i \in Item |-> IF Is(i) /\ page \in Forms
                                           THEN Unedited(rows)[i] ELSE @[i]]]

Show(t, f) ==
  LET Has(call) == call \in DOMAIN f.got
      t1 == IF Has("write") /\ ShowsAnswer(page, f.op) THEN ShowWritten(t, f) ELSE t
      t2 == IF Has("rows") THEN ShowRows(t1, f.got["rows"]) ELSE t1
      t3 == IF Has("row") /\ t2.view[f.item].is # "absent"
            THEN [t2 EXCEPT !.view[f.item] = f.got["row"]] ELSE t2
      t4 == IF Has("usage") THEN [t3 EXCEPT !.usage = f.got["usage"]] ELSE t3
  IN  [t4 EXCEPT !.listed = @ \/ (page = "groups" /\ Has("other"))]

(* The QR code is read only while the session is not connected. *)
IsLast(f) ==
  \/ f.step = Len(Calls(page, f.op))
  \/ f.op \in {"poll", "status"} /\ f.got["row"].is = "connected"

(* `loading` spans the load, and the reload of the user page. *)
Loads(f) == f.op = "load" \/ (page = "user" /\ f.step = 2)

Later(a, b) == IF a > b THEN a ELSE b

(* The handler of slot k ends, `finally` included; t is the page it leaves. *)
End(k, t, well) ==
  LET f == flight[k]
      flag == Flag(page, f.op)
      cleared == IF flag \in FlagName THEN [t EXCEPT !.busy[flag] = NoOne] ELSE t
  IN  IF f.visit = tab.visit
      THEN /\ tab' = [cleared EXCEPT !.loading = @ /\ ~Loads(f)]
           /\ flight' = [FlagTaken(Holding(flag)) EXCEPT ![k] = NoOne]
           /\ wrote' = IF well THEN [i \in Item |-> Later(wrote[i], f.wrote[i])] ELSE wrote
      ELSE /\ flight' = [flight EXCEPT ![k] = NoOne]
           /\ UNCHANGED <<tab, wrote>>

(* The handler goes on after an await: it shows what it got, and makes its *)
(* next calls or ends.                                                     *)
GoOn(k) ==
  LET f == flight[k]
      held == ShowsAtEnd(page, f.op) /\ ~IsLast(f)
      t == IF held \/ f.visit # tab.visit THEN tab ELSE Show(tab, f)
  IN  /\ IF IsLast(f) THEN End(k, t, TRUE)
         ELSE /\ tab' = IF f.visit # tab.visit THEN tab
                        ELSE [t EXCEPT !.loading = @ \/ page = "user"]
              /\ flight' = [flight EXCEPT ![k].step = @ + 1,
                                          ![k].got = IF held THEN @ ELSE <<>>]
              /\ UNCHANGED wrote
      /\ overtaken' = overtaken \cup {i \in Item : t.view[i].rev < tab.view[i].rev}
      /\ UNCHANGED <<page, db, plan>>

(* The answers of a step have come. *)
Answered(k) ==
  /\ ~IsFree(k) /\ StepCalls(flight[k]) \subseteq DOMAIN flight[k].got
  /\ GoOn(k)
  /\ UNCHANGED left

(* An exception ends the handler in its catch. *)
Thrown(k) ==
  LET f == flight[k]
      failed == f.op = "load" /\ f.visit = tab.visit /\ tab.read = "no"
  IN  /\ End(k, IF failed THEN [tab EXCEPT !.read = "failed"] ELSE tab, FALSE)
      /\ UNCHANGED <<page, db, plan, overtaken>>

(* The API has refused a call. *)
RefusalCame(k) ==
  /\ ~IsFree(k) /\ flight[k].refused
  /\ Thrown(k)
  /\ UNCHANGED left

(* A call fails, before or after it was served: no connection, a timeout, a *)
(* limit of requests, an error of the database.                             *)
CallFails(k) ==
  /\ ~IsFree(k) /\ ~flight[k].refused
  /\ Spend("fail")
  /\ IF page = "routes" /\ flight[k].op = "load" /\ flight[k].step = 2
     THEN GoOn(k) ELSE Thrown(k)

----------------------------------------------------------------------------
InitDb ==
  LET Old(is) == [is |-> is, rev |-> 1]
      Both(is) == [i \in Item |-> Old(is)]
      FirstIs(is, other) == [i \in Item |-> IF i = First THEN Old(is) ELSE other]
  IN  CASE page = "whatsapp"    -> {FirstIs(is, Absent) : is \in {"pending", "connected"}}
        [] page = "routes"      -> {Both("active")}
        [] page = "groups"      -> {FirstIs("active", Old("inactive"))}
        [] page = "billing"     -> {Both("none"), FirstIs("active", Old("none"))}
        [] page = "credentials" -> {FirstIs("set", Absent)}
        [] page = "referrals"   -> {FirstIs("eligible", Old("waiting"))}
        [] page = "generator"   -> {Both("set"), [i \in Item |-> Absent]}
        [] OTHER                -> {Both("set")}

Init ==
  /\ page \in Page /\ db \in InitDb
  /\ plan \in Plan
  /\ tab = Mounted(1)
  /\ flight = [k \in Slot |-> IF k = <<AnyItem, 1>>
                              THEN Flight(tab, "load", First) ELSE NoOne]
  /\ wrote = [i \in Item |-> 0] /\ overtaken = {}
  /\ left \in Budgets[page]

Next ==
  \/ \E i \in Item : Moved(i) \/ Edit(i) \/ Poll(i)
  \/ \E i \in Item : \E op \in DOMAIN Pages[page] : Click(op, i)
  \/ PlanMoved \/ Reopen
  \/ \E k \in Slot : Serve(k) \/ Answered(k) \/ RefusalCame(k) \/ CallFails(k)

(* The API answers what it is asked, and the timer of the polls runs. *)
Fairness ==
  /\ \A k \in Slot : WF_vars(Serve(k) \/ Answered(k) \/ RefusalCame(k))
  /\ \A i \in Item : WF_vars(Poll(i))

Spec == Init /\ [][Next]_vars
FairSpec == Spec /\ Fairness

----------------------------------------------------------------------------
(* What a handler wrote and ended well, the page shows, or something newer: *)
(* every handler reads again, or shows what the write answered, after it    *)
(* wrote. Only a read that was served earlier and answered later undoes it. *)
(* The page of the generator never reads again.                             *)
OwnWritesShown ==
  page # "generator" =>
    \A i \in Item : tab.view[i].rev < wrote[i] => i \in overtaken

(* The polls find out that a session that is shown as pending connected or  *)
(* was disconnected, whatever calls fail on the way.                        *)
PendingIsFollowed ==
  \A i \in Item :
    (page = "whatsapp" /\ IsPending(tab.view[i].is) /\ db[i].is \in {"connected", "disconnected"})
      ~> (~IsPending(tab.view[i].is) \/ db[i].is \notin {"connected", "disconnected"})

(* The page of the groups forbids the routes that the API would refuse, and *)
(* no other, whenever what it shows is what is stored: it counts with the   *)
(* numbers of the API, and the API with the groups.                         *)
LimitMessageAgrees ==
  (page = "groups" /\ tab.view = Rows /\ tab.usage = UsageNow) =>
    \A i \in Item : db[i].is # "active" => (RouteLimitMessage(i) <=> ~LimitAllows(i))

(* A form sends a field that was not edited as the page read it last, and   *)
(* one that was never read only after the load failed or found nothing:     *)
(* what was typed and saved before is not sent again, nor an initial value. *)
SavesWhatWasRead ==
  \A k \in Slot : (~IsFree(k) /\ page \in Forms) =>
    LET f == flight[k]
    IN  \A i \in Sent(f.op, f.item) :
          f.body[i].edited \/ (f.read # "no" /\ f.body[i].rev = f.seen[i])

(* A button is pressed again while its handler waits only after another     *)
(* handler with the same flag started or ended: a user who repeats a click  *)
(* does not repeat the write.                                               *)
TwiceNeedsOther ==
  \A k, n \in Slot :
    LET f == flight[k]  g == flight[n]
    IN  (/\ k # n /\ ~IsFree(k) /\ ~IsFree(n) /\ f.visit = g.visit
         /\ Flag(page, f.op) \in FlagName /\ Mark(f.op, f.item) = Mark(g.op, g.item))
          => f.freed \/ g.freed
=============================================================================
