# PromoHub: models, checks and proofs

PromoHub listens to WhatsApp groups, rewrites the affiliate links of the offers
it finds there and forwards them to the groups of its customers. This directory
holds TLA+ modules translated from the source of the API and of the web
application, the TLC configurations that check them on small instances, and
TLAPS proofs of what matters most.
`PROJECT.json` lists the components, the runs, the lines each definition
translates, the hazards and the theorems.

## 1. The system

The parts are NestJS services of `apps/api`, over one PostgreSQL database
(Prisma), and the pages of `apps/web` in a browser; Redis serves caches, rate
limits and queues. JavaScript is
single-threaded: a handler runs without interruption up to its next `await`.
Whatever is read before an `await` may be stale after it, and several processes
(API replicas and workers) share the database; a page has several handlers in
flight and shows answers that come in any order. That is where the hard
behaviour is.

| Component | State it keeps | Operations | Talks to | Hard behaviour |
|---|---|---|---|---|
| Session lease (`worker-lease.service`) | `workerId`, `workerLeaseToken`, `workerLeaseExpiresAt` of a session row | acquire, renew, release, assertLeaseOwner | database, worker nodes | two workers at once, late and lost requests, crash with a lease, twin `WORKER_NAME` |
| Session manager (`whatsapp-session.manager`) | maps `sessions`, `pendingStarts`, set `retiredSockets`; session status; Baileys credentials | create, reconnect, delete, connection events, renewal timer, startup, shutdown | lease, Baileys, auth store, message capture | handlers interleave at each await; entries are removed by session id |
| Routed groups cache | `entries` with TTL, `generations`, `pendingLoads` | isRouted, invalidate | `MessageRoute` table | a load that answers after an invalidation |
| Message routes | `MessageRoute` rows | create, update, softDelete | plan limits, cache | check-then-write, stale reads |
| Message capture | `WhatsAppMessage` rows | recordIncomingGroupMessage | cache, forwarding | duplicate delivery |
| Message forwarding | `ForwardedMessage` rows | forwardMessageById | plan limits, rewriter, session manager | limits checked before sends, partial failure |
| Plan limits | none (counts rows) | canForwardMessage, assertCan... | | counts are stale when used |
| Billing | `BillingSubscription`, `BillingWebhookEvent`, `User.plan` | checkout, webhook, cancel, me, subscription, expiry | Asaas, referrals | events repeated, late, out of order; crash between steps |
| Referrals | `Referral` rows | confirmPayment, processEligible, resetWaitingPeriod, markPaid, reject | billing, job | check-then-update |
| Worker nodes | `WorkerNode` rows | register, heartbeat, drain, stop, recompute | lease | late heartbeats |
| Worker application, queue producer | BullMQ jobs | publish, process (dry run) | Redis | deterministic job ids |
| Affiliate rewriting | `AffiliateLinkCache` rows | rewriteMessageForUser, the decision to forward | credentials, providers, forwarding | links in parallel while the credential changes; expired rows; text replaced link by link |
| Affiliate providers, generators | none | rewriteLink, generate, choice of the product of a social page | marketplaces | failures, ambiguous pages |
| Affiliate credentials | `AffiliateCredential` rows | create, update, delete | rewriting | read, then write |
| Settings, plan prices, users (admin) | rows | read, PATCH of a form | web application | forms that write back what they read |
| Auth, monitoring, audit, rate limit | rows, counters | CRUD, counters | | counter expiry |
| Group discovery, invites, session cache, product extractor | upserts, Redis keys | sync | Baileys | none that decides anything |
| Web application | per page: list, form, flags, usage; a timer of polls | load, click, edit, poll | API | answers out of order, flags that handlers share, stale forms |

What makes each part correct:

* **Lease**: one owner per session; a running lease is not taken by another
  worker; a replaced or released token never owns a session again.
* **Manager**: an entry of the map is a live socket that holds the lease; it is
  never overwritten; the lease is handed back after the socket ended; a lost
  lease is noticed; a session that was not logged out is reconnected.
* **Cache**: no answer is older than the last invalidation; one query per
  generation.
* **Capture and forwarding**: an automatic run sends a message to a group once;
  rows say what happened; the daily limit holds.
* **Referrals**: one reward per document, none before its waiting period is
  over; what was paid stays paid; what waits is judged.
* **Affiliate rewriting**: a rewritten link is the user's own and leads to the
  product the offer is about; each link of the text is replaced by its own
  rewriting; preview and forwarding agree.
* **Web application**: what was written is shown; a form writes back only what
  it read or the user typed; a limit it shows is the API's; a double click does
  not write twice; a session being connected is followed to the end.
* **Billing**: an event is applied at least once; a paid plan is backed by a
  subscription; a replaced subscription does not take the plan away.

## 2. The modules

| Module | Models | Abstract or detailed |
|---|---|---|
| `SessionLease` | what the lease columns promise | abstract specification |
| `WorkerLease` | `WorkerLeaseService`, implements `SessionLease` | detailed |
| `WorkerLeaseProofs` | its theorems | proofs |
| `SessionManager` | `WhatsAppSessionManager`, one session, several processes | detailed |
| `SessionManagerProofs` | its theorems | proofs |
| `RoutedGroupsCache` | `RoutedGroupsCacheService` | detailed |
| `MessageRoutes` | `MessageRoutesService` with the limits of routes and the cache | composed |
| `MessageRoutesProofs` | its theorems, and those of the cache | proofs |
| `MessageForwarding` | `WhatsAppMessagesService` with `MessageForwardingService` and the daily limit | composed |
| `MessageForwardingProofs` | its theorems | proofs |
| `Billing` | `BillingService`, one user | detailed |
| `BillingProofs` | its theorems | proofs |
| `Referrals` | `ReferralsService`, its job, its callers | detailed |
| `ReferralsProofs` | its theorems | proofs |
| `SocialPage` | the choice of a product of a social page (`mercadolivre.provider`) | pure operators |
| `AffiliateRewriting` | the rewriter, credentials, link cache, providers, and what forwarding decides from them | composed |
| `AffiliateRewritingProofs` | its theorems | proofs |
| `Pages` | the handlers of the nine pages that write | constants |
| `Dashboard` | one page, what it shows, its handlers in flight, and the API behind it | composed |
| `DashboardProofs` | its theorems | proofs |
| `MC*` | finite instances of the above | |

### WorkerLease and SessionLease

A request is a record in `calls` that moves from `sent` to an answer. The clock
reading `at` and the token of an acquisition are taken when it is sent, the
conditional `updateMany` is one step (`AcquireApply`, `RenewApply`,
`ReleaseApply`) whose guard is the `where` clause, and the answer another. In
between, other processes step, the clock ticks, a process crashes (its requests
may still reach the database: phase `orphan`) and answers are lost. `held` is
what the managers keep; `spent` is a history of the tokens a row lost.

The refinement mapping sends the worker and token columns to `owner` and
`grant`, "expires later than now and not deleted" to `valid`, and `spent` to
`past`. Assumed: synchronised clocks (the code compares the client's clock to
the column) and tokens that never repeat (32 random bytes).

### SessionManager

A task is a handler suspended at an `await`; its `pc` names what it waits for.
A step is the answer with the synchronous code after it. A boot's number stands
for its lease token and for its socket. `Disturbances` says what may come from
outside in a run: reconnect and delete requests, an error of the renewal's
query, a lease that runs out under a live process, a crash or shutdown. Of the
lease, only holder, owner and "has time left" remain: `WorkerLease` has the rest.

### RoutedGroupsCache

One step per synchronous section: a hit, the start of a load or joining one, the
table being read, the answer, a failure. `since[s]` collects the contents the
table had since the last invalidation of `s`, `legit` those since a caller's
call: they are histories the properties compare answers with. The writers of the
routes are an environment: the table changes (`Write`), and the invalidation is
a later step of its own (`Invalidate`).

### MessageRoutes

Extends the cache with the real writers. A request is a record in a slot; its
`pc` names the query it waits for: the search of the route, of a duplicate, of
the limits, the write, and the answer, on which the cache is invalidated. The
cache's steps go on in between (`CacheStep`). Every commit is the cache's
`Write` and every answer its `Invalidate`, so the composition implements
`Spec` of the cache. `owes` are the sessions a request will invalidate. Three
histories: `unannounced` (sessions with a change nobody will invalidate),
`fresh` (requests during which nobody else wrote) and `raced` (the limits are
passed, by a write that was not fresh).

### MessageForwarding

Handlers of an arriving message (`captures`) and calls of `forwardMessageById`
(`runs`), one step per `await`. `style` stands for the result of rewriting the
links, which decides the status a delivery gets. `DayEnds` is midnight in São
Paulo. A crash drops every handler and run; rows and captured messages stay.

### Billing

One user. Requests in flight are tasks; a step is a query with the code up to
the next. A webhook works on the row it read first (`row`) and on the answer of
`canUpdateUser` (`flag`). Deliveries are repeatable until `processedAt` is set;
`Fails` cuts any request short. `MaxWebhooks = 1` in the run is the provider's
sequential queue: with two webhooks in flight the answer of `canUpdateUser` can
be stale, and `OlderKeepsPlan` and `PlanIsPaid` are violated.

### Referrals

A referral is its referred user; an account that is switched on or off, or whose
subscription starts or ends, is `user`. A webhook, a request of the
administrator and a run of the job are records in flight with what they read;
each query is a step. `raced` is a history: rows that somebody else wrote while
a run of the job held an older copy. The code guards none of the writes by id,
so the properties are about the rows outside `raced`; `MaxAdmins = 1` and
`MaxJobs = 1` in the run because two administrators, or two replicas that run
the job at once, break `PaidIsFinal` and `OneRewardPerDocument`.

### SocialPage and AffiliateRewriting

`SocialPage` has the rules by which the Mercado Livre provider takes one product
of a page of several: the action "ver produto", the item of `pdp_filters`, or
the words of the message with a clear margin. `AffiliateRewriting` is
`rewriteMessageForUser` over it: the links of a message go on in parallel, each
a record with its own `pc` (credential, cache, page, generator, save), kept by
link; `ExtractLinks` gives their order in the text, which is the order of the
results. Texts and URLs are sequences of atoms, so a link may begin
with another, and may stand in the text without `https://`; `Substitute` is
`replaceLinksInText` on them. `ForwardText` and `Forwards` are what
`MessageForwardingService` does with the same results, in an automatic and a
manual run. `source` is a history: from which page, for which message, when.

### Pages and Dashboard

`Pages` gives each handler its flag and its calls of the API in order.
`Dashboard` opens one of the nine pages: `db` is what the API stores of two
elements (with a revision that counts changes), `tab` the component's state,
`flight` the handlers that wait. A call is served at one moment (`Serve`) and
its answer handled at a later one (`Answered`); `CallFails` and refusals end in
the handler's `catch`. `Reopen` leaves a page and mounts it anew: old handlers
finish unseen. `Moved` and `PlanMoved` are everybody else. Two histories:
`wrote`, the revision a handler that ended well wrote, and `overtaken`, elements
shown from a read older than what was shown before; a third, `freed`, says that
a handler lost its flag: another set it to something else, or a `finally` cleared
it. A click on the same button sets the flag to what it was, and frees nobody.

Left out: secrets, which are never read back; the lists of groups (only that
they are there); the redirect of a 401; unlimited PRO limits, which forbid
nothing; the form of the invite link on the routes page; labels kept in
`localStorage`. The two reads of the settings page are one.

## 3. The runs

| Run | Shows | Bounds |
|---|---|---|
| `worker_lease` | one owner, no theft, refinement of `SessionLease` | 3 processes, 2 of them with one name, 1 session |
| `session_manager` | entries hold the lease, are not overwritten, not dead; release after close; a lost lease is noticed | 2 processes; either every request and crashes, or leases that lapse under live processes with one handler at a time (`MCScenarios`) |
| `session_manager_leak` | violated: a late renewal answer forgets a newer socket | 3 boots |
| `session_manager_stranded` | violated: a close during the start is not reconnected | |
| `message_routes` | hits show the routes; answers are current; only overlapping requests pass the limits | 2 sessions, 2 rows, 3 requests, 2 at a time, limits of 1 |
| `message_forwarding` | sent once, rows truthful, overrun of the limit bounded | 1 message, 2 destinations, 2 runs, limit 1 |
| `daily_limit` | violated: fallback deliveries are not counted | 1 run |
| `billing` | applied before processed, plan paid for, replaced subscription harmless | 2 subscriptions, 2 events, 1 failure |
| `billing_expiry` | violated: expiry takes the plan of the new subscription | 2 periods |
| `referrals` | one reward per document, none early, paid is final, all that wait are judged | 2 users, 1 document, a webhook, a job and an administrator at once, a waiting period of 2 of 2 days |
| `affiliate_rewriting` | links are the user's own, of the product shown, each replaced; preview is forwarding | 7 links, 5 messages, 5 pages, 2 requests, 1 edit, a cache row that expires |
| `dashboard` | own writes shown, forms write what was read, limits agree, clicks not repeated, pending sessions followed | 9 pages, 2 elements, 2 handlers and a poll per session in flight |

In the run `dashboard` the budget of a page (`MCBudgets`) has alternatives: two
or three clicks, or a failure with changes by others, or leaving and opening the
page again. Each alternative has two handlers in flight, which is what its
hazards take. The routes page also has four clicks: a button, another
with the same flag, the first again, and once more when the `finally` of its
first handler cleared the flag of the second.

The four violated runs each state what a doc or a test of the repository says;
`PROJECT.json` quotes the line.

**Why the bounds suffice.** Each hazard needs two actors and one disturbance: two
processes or two requests, one late or lost answer, one crash. The bounds allow
them together: three acquisitions with a clock that passes a lease's end; two
boots, so that a second socket meets the remains of the first (the leak run
boots three times); two loads and two invalidations; three requests, so that a
route is created and moved twice; two runs over two destinations with a limit of
one; two subscriptions with an event each and one retry. Groups and plans are
symmetric. Two referrals of one document, so that one is suspect; two links of
which one begins with the other, and one page in both orders. Where a run says
`CHECK_DEADLOCK FALSE`, the system may rest: no request has to come.

**Fairness.** Assumed only where a liveness property needs it:

* `session_manager` (`LostLeaseDropped`): the renewal timer keeps firing
  (`setInterval` at `onModuleInit`) and its queries are answered or fail (the
  database pool's timeout). Only in the scenario with lapses.
* `referrals` (`WaitingIsJudged`): the daily timer starts runs, and the queries of
  a run are answered or fail; failures are bounded.
* `dashboard` (`PendingIsFollowed`): the interval of the polls fires, and the API
  answers or refuses what it is asked; failures are bounded, and a failed poll
  is followed by another.

Nothing is assumed of users, requests, Baileys, webhooks or marketplaces.

## 4. The proofs

TLC checks instances; TLAPS proves the following for every value of the
constants.

**Lease** (`WorkerLeaseProofs`). `UniqueOwner` is not inductive: two processes
with one name pass the row's worker condition, so the argument is about tokens.
`IInv` adds that a drawn token is in one place only: of an acquisition in flight
(`Fresh`), of a granted call (`Private`), of one holder (`HeldOnce`), that a
release in flight is of a token nobody holds any more (`GivenBack`), and that a
row's token is not spent and no two rows share one (`RowTokens`). `InvStep` has
a step per action. `NoTheft`, `NoSilentRelease` (a lease
is cleared only with its own token) and the refinement follow from the invariant
and the step. Assumption: `LeaseAssumption`.

**Cache** (the first part of `MessageRoutesProofs`). The invariant says that a load of the
current generation is the pending one and saw the table after the last
invalidation (`LoadsCurrent`); an answer of an older generation is not stored.
That entries and answers are current, that one
query per generation is in flight (`OneLoad`) and that what is pending is in
flight (`PendingInFlight`) follow.

**Routes and cache** (the rest of `MessageRoutesProofs`). Every step of the composition is a
step of the cache or leaves it alone (`RoutesImplementCache`), so the cache's
theorems carry over. `RoutesInv` adds what the two share: outside the sessions
with an invalidation due, lost or missed, what was loaded under the current
generation is the present table (`CacheShowsTable`); and what a request found
stays true while nobody else writes (`CheckHolds`), from which
`OverrunNeedsRace` follows, a reactivation of a row that was moved meanwhile
included. Assumptions: `CacheAssumption`, `RoutesAssumption`.

**Session manager** (`SessionManagerProofs`). The map of a process is changed by
handlers that were suspended while others changed it. `IInv` says what each of
them stands for: which boot, socket and lease a suspended handler has
(`TaskInv`), that an entry is a socket of its own process which is
retired or closed only while somebody is about to drop it (`EntryInv`), which sockets exist and are retired
(`SocketInv`), and that a process has one start at a time (`OneBoot`, which is
`pendingStarts`). From it: an entry is never replaced by that of another socket,
a dead one is being dropped, a lease goes back only after its socket ended. That
an entry holds the lease is part of `EntryInv`, for the scenarios in which no
lease lapses under a live process, as the property says; the others hold in all
of them. Assumption: `ManagerAssumption`.

**Forwarding** (`MessageForwardingProofs`). `IInv` numbers the runs and says of
each what its `pc` promises (`EachRunOK`): the destinations it has left, those
with a row before it began, and that what it is about to record was accepted.
An automatic run comes only from the handler that created the message's row, so
there is one (`AutoRunsAlone`), nothing happened to the message before
(`Untouched`), and what the run has ahead was not sent yet (`AheadUnsent`): hence
`AutoOnce`. For the limit the count alone is not inductive:
`OverrunBound` adds to it the runs that passed the check and have not recorded
(`PastLimit`), a finite set of at most `MaxRuns`. Assumption:
`ForwardingAssumption`.

**Billing** (`BillingProofs`). `EventsAppliedFirst` needs only that a webhook
about to set `processedAt` has committed (`Applied`), for any number of
webhooks. The other two assume `Sequential`, one webhook in flight, which is the
provider's sequential queue: without it TLC refutes both. `PaidInv` then says
that a paid plan has its subscription, and none newer is ACTIVE (`Cover`), that
the plan and the period a webhook read are still the row's (`RowRead`), that the answer of `canUpdateUser` still holds at the
transaction (`FlagOK`), what the expiry picked had a period (`Picked`), and that
a checkout in flight is of a subscription nobody has paid for (`Opening`); the
checkouts, cancellations and queries of the user overlap as they like.
Assumption: `BillingAssumption`.

**Referrals** (`ReferralsProofs`). `EarlyRewardNeedsRace` is about the row, and a
reward is granted from a copy of it. `IInv` says that the copies are good while
nobody wrote the row under a run: what a run holds is due (`HeldIsDue`), what is
about to be paid is due and past what a reset would undo (`PaidIsDue`), what is
about to be confirmed is not (`ConfirmedIsNotDue`), and who waits has a date
(`WaitingHasEnd`). It holds for any number of webhooks, runs and administrators
at once. Three properties hold only where actors of a kind take turns, as the
code guards none of the writes, and their theorems say so: `PaidIsFinal` and
`ConfirmedRejectionStays` with one request of the administrator at a time
(`MaxAdmins <= 1`), the second with one webhook too (`MaxWebhooks <= 1`), and
`OneRewardPerDocument` with one run of the job and one administrator
(`MaxJobs <= 1`, `MaxAdmins <= 1`). Their invariants (`AdminInv`, `HookInv`,
`JobInv`) say what the one actor may rely on: what a run holds was not rejected
or paid, a referral about to be confirmed has no date, a referral that passed
the antifraud query is alone with its document. Assumption: `ReferralsAssumption`.

**Affiliate links** (`AffiliateRewritingProofs`). `IInv` says of the cache that a
row's URL carries the id in its key, and was stored for the product of the page
it names (`CacheInv`, `GoodRow`), and of each link of a request what its `pc`
has in hand (`AsksInv`, `GoodWork`, `GoodResult`): an id that was active during
the request, a row that was alive, a product chosen for this text. A URL is
put together from parts, so the proof rests on lemmas about the ids of a
concatenation (`ConcatIds` and those after it). `PreviewIsForwarding` compares
two decisions over the same results, whose places in the text are distinct
(`ExtractedLinks`). Assumption: `AffiliateAssumption`, which says of the
links as they are typed, and of what they redirect to, that they have no atom of
the kinds a rewriting adds: another's tag is replaced by the user's, and the
model does not keep it.

**Web application** (`DashboardProofs`). All pages go through the same actions, so
one proof covers the nine; what it needs of `Pages` is a table (`TableOK`,
proved handler by handler in `TableHolds`): a write is the first call and alone,
and after it the handler reads the list again, or shows the answer. `IInv` says
of every handler in flight

* what it got (`GotOK`): the list it read is not older than what it wrote, and
  what its write answered is what it wrote;
* what it sends (`SendsRead`): a field that was typed, or as it was read;
* how it stands to the page it was started from (`InTab`): the flag has its mark
  unless `freed`, and what it showed is still shown or was overtaken;
* what the API keeps of it (`IsStored`): its write, or something newer.

`FormOK` says that a form shows what it read last or what was typed since, and
that no form is shown before its load ended. `WritesAreShown` follows when a
handler ends, as it then shows a list read after its write. `ClicksAreNotRepeated`
is `TwiceOK`: a click needs the flag not to have its mark, so any handler that is
still waiting with this mark was freed. `LimitMessagesAgree` compares the page,
which counts what a route adds, with the API, which counts the groups with it:
they agree because a group added to a finite set makes it larger by one or is in
it (`GroupsGrow`), and because a route of this page is active or inactive
(`RoutesOK`). Proved for any elements, groups, limits, flights, polls and
budgets. Assumption: `DashboardAssumption`.

Every `TypeOK` is proved (`RoutesTypeOK` for the composition; that of the
dashboard is stated with its `IInv`), and so are `NoSilentRelease` and `OneLoad`, which are in no run: the
theorem covers every instance.

## 5. What the modelling showed

The four violated runs are the findings. Besides them, seen while translating
and kept in the models as the code has it:

* `GET /routes` returns active routes only, so the button "Retomar" never shows,
  and "Pausar" and "Remover" do the same.
* After a downgrade, saving the invite link of an existing route is refused with
  the limit of the plan: `update()` asks `assertCanCreateRoute` for every active
  route.
* The settings and the generator page show a blank or default form after a
  failed load; saving it overwrites what is stored. `SavesWhatWasRead` allows
  exactly this.
* The user form of the administrator sends the whole user, and undoes a change
  of plan that a webhook made since the page was loaded.
* Saving one credential reads all of them again and drops what was typed in the
  other forms.
* One `actionId` serves all buttons of the sessions page: the `finally` of one
  handler enables the button another one is still waiting on.
  `TwiceNeedsOther` allows exactly this. Its first form was wrong beyond the
  bounds of the run: `freed` was not set for a handler when the `finally` of
  another one with the same mark cleared the flag, and the proof of a click did
  not go through. TLC then showed the counterexample with four clicks on the
  routes page; the history was corrected and the run has four clicks since.
* A session shown as DISCONNECTED is polled no more, though the runtime
  reconnects it; the list is right again after a load.
* A pending checkout hides that the plan was cancelled, and the button offered
  again to cancel it is refused.
* The prices of the plans are committed before the audit row is written: a
  failure there answers an error for a change that was made.
* A social page's product may be taken from the link cache for a message whose
  words would have chosen another (`ProductWasShown` allows this for
  `candidate_fallback` only).
* Links typed without `https://`, and a link that is the beginning of another,
  are not replaced by their own rewriting (`Entangled`).

## 6. Only model-checked, and not modelled

Checked by TLC only:

* Liveness (`LostLeaseDropped`, `WaitingIsJudged`, `PendingIsFollowed`): out of
  TLAPS's reach.
* `LinksReplaced`, `SentKeepsLinks` and `OrderIsIrrelevant` of the affiliate
  links: what folds over texts and pages compute needs induction over data,
  which the provers cannot instantiate.
* The four properties of the violated runs, which are false.

Assumptions a reader should know: the plan does not change under the message
routes; the provider sends no event of a subscription before its checkout has
ended; one user in billing, routes and the dashboard; one session in the
manager; one element of the web's list is independent of the others but for the
plan's limits.

Not modelled, with the reason:

* **Worker nodes, worker application, queue producer**: status and counts are
  shown to the administrator and decide nothing; the worker's processor runs dry.
* **Rate limit, audit**: one counter in one method; an append.
* **Asaas client, product extractor, the parsing in the providers**: HTTP, HTML
  and JSON; their outcomes are choices in the modules that call them.
* **Legacy and disabled modes of Mercado Livre**, and the product a redirect leads
  to after a product was chosen.
* **Group discovery, invites, session cache, monitoring, lists and counts of the
  administration**: upserts and queries nothing races with.
* **Pages that only read** (home, activity, users, forwards, sessions, errors,
  the customer's referrals), **login and registration pages, shells**: one load
  and no write, or a redirect.

## 7. What is left to do

1. Compositions: `Referrals` with `Billing`, whose webhook and expiry call it
   (today they are its environment); the results of `AffiliateRewriting` in
   place of the choice `style` in `MessageForwarding`.
2. `WorkerNodes`, once the command processor acts on what it receives.
3. Proofs: the texts and pages of the affiliate links (`LinksReplaced`,
   `SentKeepsLinks`, `OrderIsIrrelevant`), if a prover that instantiates the
   induction theorems is at hand.
