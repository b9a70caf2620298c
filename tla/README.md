# TLA+ verification of the shop

This directory models the shop of the repository - an API gateway, Kafka
micro-services, a saga orchestrator for orders and refunds, the backups and
caches beside them, and the sessions of the web client - in TLA+,
checks small instances with TLC and proves the main safety properties with
TLAPS for every value of the constants. Every definition is translated from
the source; `PROJECT.json` names the lines of each one.

Contents: 1 inventory of the system, 2 modules and how they correspond to the
code, 3 runs and bounds, 4 fairness, 5 proofs, 6 what each mishap breaks,
7 disagreements of code and documentation, 8 what is not modelled, 9 plan.

## 1. The system

| Component (under `src/apps/`) | State it keeps | Operations | Talks to |
| --- | --- | --- | --- |
| orchestrator-service: handlers | `saga_instance` (sagaType, status, currentStep), `saga_step` | 14 event handlers of `OrderSagaService`, routed by `SagaConsumerService` | Kafka in and out; HTTP to order-service and payment-service |
| ... retries and dead letters | attempts of the message in hand | `DlqService.withRetry`, `sendToDlq`, `markSagaFailed` | the saga rows, the DLQ topic |
| ... recovery cron | none | `recoverStuckSagas`: publishes the current step's command again | commands |
| ... compensation cron | the list it read | `compensateFailedSagas`, `compensate` | commands, order-service |
| inventory-service | `inventory_item` counters, `stock_reservation`, `processed_event`, `outbox_event`, Redlock in Redis | `reserveStock`, `confirmStock`, `releaseStock`; outbox worker | commands in, replies out |
| payment-service | `payment_intent`, `processed_webhook`, IPN queue | `createQR`, IPN job, timeout scheduler, `processRefund` | VNPay, Kafka |
| shipping-service | `shipment_record`, timers in memory | `createLabel`, `simulateDelivery` | Kafka |
| refund-service | `refund_request` | `createRefund`, `validateAndEmit`, `updateStatus` | Kafka, also its own topic |
| order-service | `order`, outbox | `create`, `updateStatus`, status consumer | Kafka, HTTP |
| outbox workers (order, inventory, payment, refund) | `outbox_event`; `isRunning` and the batch in memory | `publishOutboxEvents` every five seconds, in every process | Kafka |
| shared `KafkaConsumer` | the group's committed offset, each member's position | `subscribe`, `run` (handle, commit), `disconnect` | Kafka, the handler of the service |
| notification-service | `NotificationLog` | `send`: check, e-mail, log | `notification.send` in, e-mail out |
| product-service | `product_stock` | the upsert for each `inventory.stock_updated`; reads | Kafka |
| api-gateway: routing | `api_routes`; maps of breaker states, failures and target counters in memory, timers; responses in Redis | `routeRequest`, administration of routes, breaker timers | all services over HTTP |
| ... rate limiting | `rate_limit_rules`; a key in Redis for each rule and client | `RateLimitGuard.canActivate`, status, reset, `createRule` | Redis |
| auth-service: users | `users`; `cache:user:id` and its metadata in Redis | cached GET, invalidating PATCH (`CacheInterceptor`, `CachingService`) | Redis |
| ... sessions | `users.refreshToken`, a hash; the cookie `refreshToken` | register, login, refresh, logout | the gateway |
| api: backup and restore | `backup_logs`, `restore_logs`, two BullMQ queues, a Redlock, files on Google Drive | triggers, weekly cron, two processors, retention | Redis, Google Drive, the tables `users` and `posts` |
| web: session handling | of each tab, in memory: the access token, `isReady`, `isTokenRefreshing`, `failedRequests` | interceptors of `HttpInstance`, `AuthProvider`, login, logout | auth-service through the gateway |
| web: pages | none | pages | the gateway |

How they interact: commands and replies travel over Kafka (at least once; a
consumer commits after its handler or after dead-lettering), the orchestrator
additionally PATCHes the order and asks for the payment QR over HTTP and
swallows the failure of both; services write their replies to an outbox table
that a worker publishes later; two crons of the orchestrator and one of
payment-service run beside the consumers. Two topics have no saga behind
them: inventory-service announces every change of the stock, which
product-service shows, and the orchestrator asks notification-service for
e-mails. Nobody repairs what is lost or reordered on these.

What is hard in it: a handler is a sequence of awaited writes without a
transaction, so a crash or a failure strikes between any two; no handler
compares the saga's step with the event's; the recovery cron's commands carry
new eventIds; the payment's success and its deadline race, so that both settlements of the
stock are asked for; the lock around `reserveStock` expires or stays busy;
`confirmStock` and `releaseStock` do not take it, and may overlap on one
reservation; the compensation cron decides from step rows which lag behind the services; offsets,
batches and logs are written after the effect they stand for; a cache is
invalidated before the row changes and filled without being waited for; a backup
reads tables one by one, and what it calls a success may be taken back by its
own catch clause; the requests of a tab wait for one refresh, tabs share its
cookie, and the gateway repeats calls that were carried out. The
`hazards` of `PROJECT.json` list these places with their lines and the
properties aimed at them.

What makes each part correct:

* orchestrator - steps only move forward, an outcome is final, a compensating
  saga is always being moved on, a cancelled one holds no stock, every saga ends;
* across services - stock is confirmed only when paid, shipped only when
  confirmed, refunded only when paid, completed only when delivered;
* inventory - one reply per command, one reservation per saga, one settlement of
  a kind, whose overlap with the other costs no more than the saga's own pieces,
  no overselling, every reservation answered;
* payment - one terminal event per intent; shipping - one shipment per order;
* gateway - a breaker that opens only after failures and always recovers, effects
  at the target that fit the answer; a limit that limits;
* delivery - every committed row is sent, no offset passes an unseen message, the
  catalogue settles on the stock, an event is e-mailed once;
* backups - one job at a time, every file restores, logs that are true and closed,
  retention that leaves enough;
* user cache - no old row after a change, and none for good;
* sessions - no request waits in vain, tabs do not sign each other out, a session
  that was ended stays ended.

## 2. Modules

`SagaOrchestrator.tla` - orchestrator-service. Handlers differ only in what
they write, call and emit, so each is a record (`OnPaymentTimeout`, ...), its
*program*, and the consumer runs programs in the order of the source: `Lookup`,
`InsertSaga`, `WriteSteps`, `WriteSaga`, `CallServices`, `PublishCommand`,
`Commit`. A stage is one group of awaited calls; a failure (`Retry`,
`DeadLetter`) or a restart (`Crash`) may strike before each. `RecoverStuckSaga`
is the recovery cron; the ten minutes without activity are the condition
`Stuck`. `CompensationJob(j)` is one invocation of the compensation cron, from
the list it reads to its last saga; `Jobs` lets invocations overlap. One order
is followed, since every lookup is keyed by orderId, with several saga rows,
since nothing makes them unique.

`OrderFlow.tla` extends it with the other participants, each reduced to the
status of the rows of the order and to its messages: `CreateOrder`,
`OrderConsumes`; `ReserveStock`, `RefuseStock`, `ReserveAgain`, `ConfirmStock`,
`ReleaseStock`, and `SettleBoth`, the two overlapping; `CustomerPays`,
`ProcessIpn`, `ListExpired`, `ExpireIntent`, `DropIpn`, `ProcessRefund`;
`CreateLabel`, `SimulateDelivery`; `CreateRefund`, `ValidateAndEmit`,
`UpdateRefundStatus`; and `DropCommand`, a consumer that fails on a command and
moves past it. Messages are sets: delivered in any order, kept in
`events`/`commands` after delivery so that they can come again.

`Inventory.tla` - inventory-service below the level of `OrderFlow`: Kafka
workers, each with the command in hand, the stage it is in and the counters as
it read them; the Redlock; the counters of one product; transactions that take
effect when they commit. `Reservations.tla` is the abstract specification of
the service: what it promises to the orchestrator, without workers, lock and
counters. A settlement has two steps there: `Decide` finds the reservation HELD,
`Settle` makes the settlement, whatever the reservation is by then - the code
updates it by its id - and `Abandon` is a failure or restart in between. So a
confirmation and a release that overlap are both made and both answered.
`Inventory` implements it (`Implements`, refinement by `INSTANCE`: the promise's
variables are the tables of the service and, for `decided`, the commands of the
workers between the two calls). `Send` publishes what the orchestrator may: a
reservation first, both settlements once it has heard of the reservation, and
copies with a new eventId. `Recover` is the recovery cron's part of it: it asks
again when earlier copies were consumed without an answer (`Lost`).

`Gateway.tla` - `ApiGatewayService`. A request is a record with the stage it
waits in and the local variables of its call (`route`, `config` as it was read,
`target`, `attempt`); an action is the code from one awaited call to the next,
within which Node runs nothing else: `FindMatchingRoute`, `Refuse`, `Dispatch`
(breaker, target and counter in one stretch), `GetCachedResponse`, `Succeed`,
`Fail` (an attempt, its retry or the end of the request), `CacheResponse`.
`RecordCircuitSuccess` and `RecordCircuitFailure` are called by them as in the
code; `timers[r]` counts the pending `setTimeout`s, each fired by `HalfOpen`.
Which requests a route matches and the URL it makes of them are data. `carried`
is what the target has done, which the gateway does not know.

`RateLimiter.tla` - `RateLimitGuard` and the four algorithms of
`RateLimitingService`. A slot is a call of the guard on its way through the
rules: first all checks, then all increments. Every call of Redis is an action,
and the clock it works with (`slot.t`) is the one read before it was issued, so
that a delayed call acts with an old time. One key per rule is followed, since
keys do not influence each other. Time is in whole seconds (the code:
milliseconds), buckets in fractions of a request.

`Outbox.tla` - the cron job of the four outbox workers, per process: `Find` (the
batches `find()` may return), `Send`, `Mark`, the failures of both, `Restart`.
`created` keeps the order of `createdAt`, which is the begin of a transaction,
while `CommitRow` makes the row visible: a row may appear before an older one.
`Channel.tla` is what the outbox promises: what was accepted may be delivered
any number of times, nothing else is, and it is taken off only after it was
delivered. That is what `OrderFlow` assumes of its messages.

`KafkaConsumer.tla` - the shared class, as the members of a group on one
partition (`Partition.tla`, which both sides share): `Join` (also as a rebalance),
`Fetch`, `Resolve`, `Commit`, and what is caught: `HandlerFails`, `CommitFails`.
A member that lost the partition finishes what it has in hand, and its commit is
rejected. `Inventory`'s `SkipMessage` and `Redeliver` and `OrderFlow`'s
`DropCommand` summarise it.

`Delivery.tla` composes the two with what is before and behind them. A behaviour
follows one of two topics: `inventory.stock_updated` - transactions (`Read`,
`Write`), the outbox, the group, `UpsertStock` of product-service - or
`notification.send` - `Notify` of the orchestrator, which has no outbox, the
group, and `CheckLog`, `SendEmail`, `SaveLog` of notification-service.

`Backup.tla` - the backup module of the api service. A job is a worker's run
through `executeBackup` or `executeRestore`, a stage per awaited call: `Start`
(the lock) or `LockBusy`, then `LoadBackup`, `DumpUsers`, `DumpPosts`, `Upload`,
`SaveSuccess`, `Retain`, `RemoveFile`, `RemoveRow`, `CatchBackup`, or
`LoadRestore`, `Download`, `Apply`, `SaveRestored`, `CatchRestore`, and `Finish`.
`Apply` is the transaction: DELETE in the reverse order of the foreign keys with
their cascade, INSERT with its constraints, or its rollback. `Crash` kills the
process; the queues run its jobs once more. `TriggerBackup`, `TriggerRestore` and
`CreateUser` are the HTTP side. A user is an id and a unique e-mail, a post the id
of its author; the seeds write the first rows.

`UserCache.tla` - the users controller of auth-service with `CacheInterceptor` and
`CachingService`. Every command to Redis is an action: a GET is `LookUp`, on a hit
`Touch` and `Rewrite` of the metadata, else `Read`, `Store`, `Describe`, `Limit`; a
PATCH is `Invalidate`, then `Scan`, `Check`, `Delete` for the keys, then `Update`.
Data and metadata expire separately; `meta` says which goes first.

`Session.tla` - `HttpInstance`, `AuthProvider`, the session store, login and
logout of the web client in several tabs of a browser; login, refresh and logout of
auth-service; the gateway between them. The page is one thread per tab: `Boot` and
`Booted`, `Send`, `OnResponseError`, `Refreshed`, `LogIn`, `LoggedIn`,
`HandleLogout`, `Reload`, `TimeOut` are its stretches between two awaits. A call of
auth-service is a record of the stage it waits in, the cookie it carries, the pair
of tokens issued for it (`FindUser` reads the row, `UpdateRefreshToken` writes it)
and whether its page still waits. `failedRequests` are the requests at `"waiting"`.
Tokens are numbers in the order of issue; a request is refused when its own is not
above `expired`.

`OrderFlowProofs`, `InventoryProofs`, `GatewayProofs`, `RateLimiterProofs`,
`DeliveryProofs`, `BackupProofs`, `UserCacheProofs` and `SessionProofs` hold the
theorems; the modules named `MC...` the constants of the runs.

Operators marked *Mutant* in a comment are wrong variants of the definition
after them. No specification uses them; replacing the definition by the
variant must make TLC refute the property `PROJECT.json` pairs it with, which
shows that the property can fail.

## 3. Runs

In `OrderFlow` and `Inventory`, mishaps are counted by kind in `faults`, and a
behaviour must stay within one of the `Budgets`, which are functions from kinds
to numbers; all other state is finite by itself. `Gateway` bounds changes of the
table and restarts together (`MaxEvents`) and serves each request once;
`RateLimiter` bounds the time (`MaxTime`) and the failed calls and resets
together (`MaxMishaps`). `Delivery`, `Backup`, `UserCache` and `Session` bound the
mishaps of a behaviour together, of whatever kind (`MaxMishaps`), besides the rows,
jobs, updates, logins and expiries there are.

| Run | Instance | Checks |
| --- | --- | --- |
| `OrderFlow` | 2 saga rows, 1 cron job; budgets: 2 outages; a restart and a redelivery; 2 redeliveries; one early recovery; a late payment and a failed HTTP call; a lost command or notification, and a refund. About 1,056,000 states | `ConfirmedIsPaid`, `ShipmentIsConfirmed`, `RefundIsPaid`, `CompletedIsDelivered`, `CompensationUnderWay`, `CancelledHoldsNoStock`, `SagaNeverMovesBack`, `OutcomeIsFinal` |
| `OrderFlowProgress` | 1 saga row; 2 lost commands or payment notifications, and a late payment; fair | `OrderSagaEnds`, `RecoverableStepEnds` |
| `Inventory` | 3 sagas ordering 2, 1 and 1 pieces of a stock of 3, with both settlements of the first and each of its commands twice; 2 reserve workers, 1 confirm, 1 release; one mishap of any kind. About 555,000 states | `ReservedCoversHeld`, `NoOversell`, `Implements` |
| `InventoryFaults` | 2 sagas ordering 2 and 1 of 2, up to 3 reserve commands each; 2 reserve workers, 1 release; one mishap of each of any two kinds, a lock that stays busy among them; fair. About 188,000 states | `ReserveIsAnswered` |
| `Gateway` | 3 requests, 2 of them GET for the same resource; 1 route with 2 targets, whose row is one of three (threshold 1 with a retry and cache, threshold 2 without, disabled); 2 changes or restarts; fair. About 366,000 states | `OpenHasTimer`, `OpenedByFailures`, `EffectsAsAnswered`, `NeverClosesFromOpen`, `EveryRequestIsAnswered`, `OpenEnds` |
| `RateLimiter` | 2 concurrent calls; a rule of each algorithm alone, buckets whose keys expire, and a sliding with a fixed window; 2 requests in 2 seconds (burst 3); 4 seconds; 1 failure or reset. About 583,000 states | `FixedWindowBound`, `SlidingWindowBound`, `BucketBound`, `RetryAfterSuffices` |
| `Delivery` | either topic; 2 rows (a reservation, a release) or notifications; 2 outbox processes, batches of 2, 2 members; any 2 mishaps; fair. About 262,000 states | `Implements`, `EveryRowIsSent`, `HandledBelowCommit`, `StockSettles`, `EmailAtMostOnce` |
| `Backup` | 2 backups, 2 restores of four kinds (entire, users alone, posts alone, a merge with an unknown table), one seeded user, room for one more, 1 backup to keep; any mishap; fair. About 433,000 states | `OneAtATime`, `BackupsAreRestorable`, `RestoreLogIsTrue`, `KeepsBackups`, `LogsAreClosed` |
| `UserCache` | 1 user, 2 GETs that repeat, 2 PATCHes that repeat, 2 updates; 1 failure of Redis; fair. About 346,000 states | `FreshUnlessMixed`, `OldRowsGo` |
| `Session` | 2 tabs, one of them with 2 requests that repeat; 1 login, 2 expiries, 1 mishap of any kind; fair. About 127,000 states | `NobodyIsStranded`, `EndedStaysEnded`, `SignedInUntilLeft`, `NothingHangs` |
| `VLatePayment`, `VNoRefund` | smallest that show it | each refutes one statement of the documentation (section 7) |

The type invariants and the inductive invariants were checked with TLC on the
same instances while the proofs were written; the proofs establish them, so no
run repeats it.

Why the bounds suffice for what is asked: one saga row shows everything about
an undisturbed order; the second is needed for a redelivered `order.created`
that starts a second saga. Three attempts of a message spend one outage, the
second one meets the compensation cron that the first one woke. Pairs of
mishaps were chosen where one prepares the other (a restart and a redelivery,
two redeliveries, a late payment and a failed call). In `Inventory`, two workers are the least
that contend for the lock, three sagas the least for which a refusal, a
success and a settlement are in progress together, and the stock of 3 leaves one
of them out until a release. Both settlements of one saga are asked for, twice
each, since a settlement is only disturbed by one of the same saga.
`InventoryFaults` follows two sagas, of which one may keep the lock busy for the
other or take its stock; three commands outlast two mishaps. The proofs have any
number. In `Gateway`
three requests are the least of which one opens a circuit, one was admitted
before and one is refused; two changes let a route be created and then updated
or deleted under them; routes share nothing, so one is enough. In `RateLimiter`
two calls are the least that overlap, and four seconds hold two fixed windows and
every position of a sliding one, and the rules with windows of one second let the
keys of buckets expire within them; with two slots the bounds are attained, that
is, `maxRequests` alone would be refuted. In `Delivery` two rows overtake each
other and two members share a partition; two mishaps let one prepare the other (a
failed mark and a restart, a death and a failed commit). In `Backup` two backups
are the least for which retention removes one, two restores the least of which
one works on what another left behind or met a removed backup; each job may be
started beside each other one. In `UserCache` two GETs are the least of which one
stores while the other hits, two PATCHes the least that invalidate over each
other; keys are deleted one by one and nothing relates them, so one is enough
(the proof has any number). In `Session` two requests of a tab are the least of
which one waits while the other refreshes, two tabs the least that share a cookie;
of two expiries the second one strikes a request that was made again.

`CHECK_DEADLOCK FALSE` is set everywhere: an order that ended, a gateway without
requests, or a model whose budget of mishaps is spent, really stops.

Symmetry: saga rows in `OrderFlow`; slots in `RateLimiter`; in `Inventory` the sagas that order one
piece, and the reserve workers. Runs of liveness properties use none.

## 4. Fairness

`OrderFlow!Fairness`: weak fairness of the orchestrator's consumer, of its two
crons, of the command consumers, of the IPN queue, of the scheduler and of the
simulation timers - all of them loops or timers the code starts at boot and
never stops. Nothing is assumed of the customer, of redelivery or of failures;
`ListExpired` is fair only without the "late" choice: an unpaid intent reaches
its deadline. The recovery cron is fair only when nothing is in flight, since its
condition is ten minutes of inactivity. One condition per consumer is enough,
since finitely many messages are in flight.

`Gateway!Fairness`: weak fairness of every request once its row is read - each
awaited call ends, an attempt by its timeout at the latest, a delay by its timer -
and of the timers of the breaker. `EveryRequestIsAnswered` starts where the row
was found: the answer of the database is not assumed. `OpenEnds` needs the
timers alone. `RateLimiter` has no liveness property.

`Delivery!Fairness`: weak fairness of the job of every outbox process (a cron that
fires every five seconds) and of its batch, of every member that has something to
do, and of a member joining a group without one (the container restarts). Nothing
is assumed of transactions and of the orchestrator. That mishaps end is not a
fairness assumption but the bound `MaxMishaps`.

`Backup!FairSpec`: weak fairness of the worker of each job - BullMQ hands out the
jobs of a queue - and of the expiry of the lock of a dead process. A lock that
expires under a running job is a mishap.

`UserCache!FairSpec`: weak fairness of every request that has begun, and of the
expiry of a key: an hour ends. New requests need never come. `OldRowsGo` depends on
it, and on nothing renewing the data: a hit renews the metadata only.

`Session!FairSpec`: weak fairness of each tab - its page goes on, its calls are
answered by auth-service or the gateway, which waits for a target ten seconds at a
time - and of each request that was sent. Nothing is assumed of the user, of
`Expire` or of timeouts; the refresh of `HttpInstance` has none.

`Inventory!FairSpec`: weak fairness of every worker, of the expiry of the lock in
Redis, and of `Recover`: the recovery cron runs every minute and looks at the
sagas that have been waiting for ten. It publishes a reserve command again once
the earlier ones were consumed without an answer; nothing else is owed by the
orchestrator. `ReserveIsAnswered` needs it, because a restart or an outage between
the two writes of a refusal, a lock that stays busy for all retries and a
transaction that rolls back all lose the reply; it has no exceptions. How often
they happen is the bound of the budgets.

## 5. What is proved

With TLAPS, for any number of sagas, cron jobs, workers and commands and for
*any* budgets, hence for any number and mixture of mishaps:

* `OrderFlowProofs`: `Invariance` (`Spec => []IInv`), and from it `TypeCorrect`,
  `StockLeavesOnlyPaid`, `ShipsOnlyConfirmed`, `RefundsOnlyPaid`,
  `CompletesOnlyDelivered`. None of these four is inductive: a confirmation
  comes from a command, the command from a handler or from the recovery cron,
  the handler from an event, the cron from the saga's current step. `IInv`
  therefore says of everything on such a path that it exists only once its
  cause does: `EventsJustified`, `CommandsJustified`, `RowsJustified` (current
  step and step rows), `RefundJustified` (the delivered order behind a refund
  request, the cron's own decision), and that a handler works on a published
  event and on a saga of its type (`ConsumerBound`, `CompBound`). The proof has
  one step per action. Assumptions: `NoSaga` is no saga; `Budgets` are functions
  to naturals. Four more properties have invariants of their own on top:
  * `KeepsOutcome` (`OutcomeIsFinal`, an action property) from `SagaLife` and
    `NothingFailed`: a saga that ended is looked up by nobody, a handler that has
    found its saga still has it RUNNING or COMPENSATING, and without an outage
    nothing is dead-lettered, so that the compensation cron has nobody to take back.
  * `MovesOnlyForward` (`SagaNeverMovesBack`, an action property) from `History`
    (`HistoryInv`): every event has its origin (`Origins`); without repeated events
    there is one order saga and `order.created` is done with when it moves on
    (`OneOrderSaga`); what stands behind the event of a step has reached the step
    before it (`StepsInOrder`); and what would write an earlier step is not awaited
    (`NothingBehind`). That no handler compares steps is harmless as long as the
    causal chain brings each event once.
  * `CompensationMovesOn` and `CancelledReturnsStock` from `Settlement`
    (`SettlementInv`): a payment that is lost was not made, so that its saga is not
    refunded (`PaymentOrigins`, `OneOutcome`); release is asked for once the saga
    compensates, and is answered because the reservation is HELD (`ReleaseUnderWay`);
    stock is reserved once and before any cancellation (`ReserveOnce`), and what was
    refused or settled stays so (`CancelledIsSettled`): a release that overlaps a
    confirmation may leave either status. Both are stated while
    `order.created` has started one saga (`OneSaga`), since both are false with two
    (section 6); the second one survives restarts, losses, repetitions and late
    payments in any number.
* `InventoryProofs`: `Invariance` - what a worker found out about its own command
  still holds when it commits (`DecisionsStand`). That needs `WorkersApart` (the
  commands of a saga share a partition, so no two workers have commands of one
  type and saga). Nothing is said of the reservation: a settlement of the other
  type may have changed it since it was found HELD. From it `KeepsItsPromise`:
  `Spec => Implements`, step by step. `PromiseInv` is about the promise alone: a
  settlement that is decided is the only one of its kind, now and before
  (`DecisionsApart`), and the status of a reservation is one the orchestrator is
  told (`StatusTold`). Combining both, `AnsweredOnce`, `NoDoubleReserve` and
  `RepliesAgree` of the service itself; the last one says that what a reply tells
  is so, or the other settlement overlapped and was told too. `NeverOversold` and
  `CounterCoversHeld` are about sums over all sagas: the pieces of the reservations
  form a set (`Pieces`), a step changes one reservation (`Recount`), and the
  library's theorems on cardinalities do the rest, without induction over sagas.
  What makes them inductive (`StockInv`): one worker at most is inside the section
  of the lock while no lock expires under its owner (`LockedOut`), and what it has
  read there promises no more than the item does when it writes, although
  settlements go on beside it. The sagas in `Twice` had both settlements made:
  their pieces were shipped and given back, and subtracted twice from `reserved`,
  so both bounds hold up to those pieces, and by `SettledAsAnswered` each saga
  counts there once. Assumptions: the types of the constants; nothing is assumed of
  what the orchestrator asks for.
* `GatewayProofs`: `Invariance`, and from it `TypeCorrect`, `NeverOpenForGood`,
  `OpensAfterFailures`, `AnswersFitEffects`; `ClosesByHalfOpen` as an action
  property. For any number of requests, routes, configurations, changes and
  restarts. What makes it inductive: a breaker counts at most the requests that
  were told of a failure (`FailuresAreReal`), and the local variables of a
  request bound what its target has done (`RequestOK`). Assumptions: the rows
  have the types of the entity, requests are finitely many, and the values for
  "absent" are none of the others.
* `RateLimiterProofs`: `Invariance`, `TypeCorrect`, and four bounds. `WindowIsBounded`: a fixed
  window counts at most `maxRequests` and the other calls that can be under way,
  for any number of slots and rules. The counter alone is not inductive: a call
  that has passed its check will increment later, even one whose rule was created
  while it was checking others, and at the end of a window it may increment the
  next one, which it was not checked against. `Committed(r, w)` is the set of
  those calls, and the invariant is that counter and committed calls stay within
  the bound together. Every step either commits nobody, or leaves room for
  everybody (the check found the counter below the maximum), or counts a call
  that is committed no longer (`CounterKept`). `IntervalIsBounded` says the same of every
  interval of a sliding window (`IntervalOK`), where a removal must not reach
  what a later check counts: its clock is never ahead, so that the entries of the last
  `windowSeconds` stay in the sorted set (`EntriesOK`). `BucketIsBounded` balances
  what was let through against the bucket's level at every moment (`Balanced`), through
  expiries of the key: an expired bucket would have been full. While requests follow
  one another, whoever was let through still finds the bucket willing when it takes
  (`Willing`, `InTurn`). `RetryIsEnough` follows from the types alone, from a lemma on
  the quotient rounded up (`Ceiling`). Assumptions: rules have positive
  limits, there are finitely many slots and at least one.
* `DeliveryProofs`: `Invariance`, and from it `OneEmailEach`, `NothingPassedUnseen` -
  from the first
  offset a group committed, everything below its offset was handled or thrown for
  - and `OutboxImplementsChannel`, `Spec => Implements`. For the former the invariant
  says the same of the position of the member that owns the partition, since that
  is where its next commit comes from; for the latter, that a row in hand is
  accepted and a row just sent is on the topic. Both components keep their own
  invariant (`OutboxIInv`, `ConsumerIInv`) step by step, and the composition has
  one step per action. `OneEmailEach` adds `EmailsOK`: while no mishap parts mail and
  log, only the owner of the partition has a message in hand, what it is about to
  send is not logged, and what was sent is logged or about to be. Assumptions:
  `NoMember` is no member, `BatchSize` is positive, events are finitely many.
* `BackupProofs`: `Invariance`, `OneJobAtATime`, `GoodBackupsRestore`,
  `TheLogOfARestoreIsTrue`, and `KeepsEnough` as an action property. The parts of
  the invariant: who executes holds the lock
  (`LockIsHeld`); at which stages of a restore its transaction has committed
  (`RestoreInOrder`); and, for the files, `SeedsAreKept`: the seeded users and some
  of their posts are in the tables, in every dump in progress and in every file.
  The latter is what a dump without a transaction needs: users are read before
  posts and never disappear, so the authors of the posts are in the file. For
  retention, `Dispensable`: what a backup has found to be surplus, and rows whose file
  is gone already, can go and leave as many good backups as are to be kept,
  whichever removals fail.
  Assumptions: the seeds are finitely many and there is at least one; jobs, the
  absent job and the dead holder differ.
* `UserCacheProofs`: `Invariance` and `NothingOldStays`. `Described` says that data
  have metadata that outlive them, or a GET that is about to write them; `Apart`,
  that a PATCH which met no storing GET is ahead of every old value (`ToCome`);
  `Thorough`, that it has looked at every key when it updates. Assumption:
  `NoData` is no number.
* `SessionProofs`: `Invariance`, `AllAreWaitedFor`, `EndsForGood`, and
  `TabsStaySignedIn` as an action property, for any number of tabs, requests and
  mishaps. `NobodyIsStranded` needs `Loading`: a page being loaded has no requests,
  and no answer that it still waits for belongs to the page before it.
  `EndedStaysEnded` needs `NoneIsLate`: no call is about to write. That a tab stays
  signed in needs `Renewable`: while nothing fails, whoever has a token has a cookie,
  whoever has a cookie is admitted, and so a refresh under way cannot be refused.
  Assumptions: every request has a tab (`TabOf`), `NoToken` is no number.

Only model-checked: the liveness properties - `OrderSagaEnds`,
`RecoverableStepEnds`, `ReserveIsAnswered`, `EveryRequestIsAnswered`, `OpenEnds`,
`EveryRowIsSent`, `StockSettles`, `LogsAreClosed`, `OldRowsGo`, `NothingHangs` - which
are outside the prover's logic. Every invariant, action property and refinement that a
run checks is also proved.

## 6. What each mishap breaks

The conditional properties name what breaks them (`Never({...}) => ...`); every
kind was tried alone, and those left out of a condition break nothing in these
bounds. Violation runs would only repeat this table.

| Mishap | Breaks | How |
| --- | --- | --- |
| outage | `CompensationUnderWay`, `CancelledHoldsNoStock`, `OutcomeIsFinal` | the handler writes COMPENSATING, fails to publish, and its retry finds no RUNNING saga; the compensation cron cancels although the reservation's reply was only dead-lettered; dead-lettering of the last notification turns COMPLETED into FAILED |
| crash | `CompensationUnderWay`, `SagaNeverMovesBack` | the same gap without an exception; the message in hand comes back |
| redelivery | `SagaNeverMovesBack` | `onInventoryReserved` writes AWAIT_PAYMENT over a later step |
| two redeliveries; or one, an early recovery and a failed call | `CompensationUnderWay` without `OneSaga` | a repeated `order.created` starts a second saga, which takes the reply that the first one waits for |
| lost command | `CompensationUnderWay` | a lost release is not published again: the recovery cron looks at RUNNING sagas |
| late payment | `CompensationUnderWay` | the reservation is confirmed, and the release then has no reply, unless the two overlap |
| early recovery | `CancelledHoldsNoStock` | the second reserve command succeeds after the first was refused |
| crash or redelivery, and a late payment | `CancelledHoldsNoStock` without `OneSaga` | the replayed `order.created` starts a second saga, and an event of the first one ends it before its reservation |
| failed HTTP call, refund | none of the safety properties | - |

In `Inventory`, with two reserve workers a stall longer than the lock's five
seconds breaks `NoOversell` and `ReservedCoversHeld`, which except it. The other
kinds break nothing; those that lose a reply are repaired by the recovery cron.
That a payment and its deadline make the orchestrator ask for both settlements of
a saga is no mishap and in every run: a confirmation and a release that overlap
both find the reservation HELD, both commit and both answer. Then `reserved` is
decremented twice, which makes it too small, or negative, by the pieces of that
saga, and the same pieces are shipped and offered again, so that as many more may
be sold than there are. `ReservedCoversHeld` and `NoOversell` state exactly these
bounds (`Twice`); without the term both are false. `Implements` has the overlap in
the promise.

In the other modules:

| Module | Mishap | Breaks | How |
| --- | --- | --- | --- |
| `Delivery` | overlapping transactions; a failed send or mark; jobs of two processes; a rebalance | `StockSettles` | an older `stock_updated` reaches the catalogue after a newer one, and nothing comes after it |
| | a handler that throws; a group that starts at the end | `StockSettles` | the last message is passed |
| | a death, a rebalance, a failed save of the log | `EmailAtMostOnce` | the e-mail is out and not logged |
| | any of them | neither `Implements`, `EveryRowIsSent` nor `HandledBelowCommit` | - |
| `Backup` | the lock expires under its job | `OneAtATime` | a second job starts |
| | a list of backups that cannot be read | `KeepsBackups` | the new backup is called FAILED and does not count, its file stays |
| | a crash | `KeepsBackups`, `RestoreLogIsTrue`, `LogsAreClosed` | a successful backup runs again and may fail; a restore commits twice; a job dies twice |
| | a log that cannot be saved | `RestoreLogIsTrue`, `LogsAreClosed` | FAILED although committed, or IN_PROGRESS |
| | a restore of users alone (REPLACE) | `BackupsAreRestorable` | it empties posts by the cascade, and an INSERT of no rows is no SQL |
| `Session` | a failed call | `SignedInUntilLeft` | a refresh that the gateway or a failure answers signs the tab out although its session goes on |
| | the session ended elsewhere, the cookie lost | `SignedInUntilLeft` | the next refresh is refused |
| | a timeout, a repeated call, a reload | nothing | - |
| `UserCache` | a failure while storing | `FreshUnlessMixed` | data without metadata, which no tag finds |
| | a failure while invalidating | `FreshUnlessMixed` | the old row stays until it expires |
| | any of them | not `OldRowsGo` | - |

## 7. Where code and documentation disagree

Runs with expectation *violation* refute a sentence of the repository's README
files or comments; `PROJECT.json` quotes it under `findings`.

* `VLatePayment` - the payment completes while the scheduler expires its intent:
  confirm and release are both sent; the saga stays COMPENSATING.
* `VNoRefund` - a saga dead-lettered in `onPaymentCompleted` was paid, and the
  compensation asks for no refund.

Seen while modelling and left without a run of their own. In the order flow: the
compensation cron takes the absence of a completed step for "Stock was never
reserved" (`saga-compensation.job.ts:106`), although the reservation may be HELD;
a release that commits between the read and the write of `reserveStock`
disappears from `available`; `processed_event` and the outbox row of a refusal are
two writes, although `apps/api-gateway/README.md:283` has them in one transaction;
a failed `create-qr` call
is swallowed and leaves no intent that could time out, although
`saga-recovery.service.ts:10` skips AWAIT_PAYMENT because of that timeout; a
release that overlaps a confirmation may overwrite a CONFIRMED reservation, or the
reverse, and both are answered (section 6); a second HALF_OPEN
timer takes a circuit that has closed back to HALF_OPEN, a transition
`apps/api-gateway/README.md:161` does not have; `ip_hash` picks the first target
and `least_connections` is round robin; concurrent requests lose updates of a
token or leaky bucket, which then has no bound; a bucket whose key expires between
the clock of a call and its read is filled, or drained, for a time it has credited
already; a client that waits the
`Retry-After` of a sliding window after such an overshoot is refused
again; a bucket that refills more slowly than in two windows is full again when
its key expires; the delivery timers
die with the process and nobody resumes them (`ShippingCrash`); `refund.validated`
may be handled before `refund.requested` and is dropped, so the refund saga
stays RUNNING; after a restart the recovery cron may act on a step that is
already answered, and inventory-service has no reply to that command; every
`shipping.status_updated` sets the order to SHIPPED, also after DELIVERED; the
condition "only a delivered order is refunded" is the web page's, not the
service's.

In delivery: `kafka.consumer.ts:127` says that a message whose handler failed "will
be re-delivered after consumer reconnects", but the commit of the next message
passes it. In backups: `backup.controller.ts:204` says "Restores only the specified
collections", but a REPLACE of `users` deletes the posts as well; a backup or
restore that the lock refuses stays IN_PROGRESS for ever; a failure to list the
backups after a success turns its log FAILED; an empty table cannot be restored.
In the user cache: the invalidation comes before the update, so that a GET in
between leaves an old row for up to an hour; `updateMetadata` ends the time to live
of the metadata, which then stay after the data are gone; and whatever else
changes the row (`updateRefreshToken`) invalidates nothing.

In sessions: `auth.controller.ts:61` says of logout "Logout and clear refresh token
cookie", but the header's request carries no access token, so that the guard refuses
it and row and cookie stay: the next load of a page signs in again. Every failure of
a refresh, not only a 401, signs the tab out. The gateway repeats a refresh that was
answered 401 and counts it as a failure of auth-service.

## 8. Abstractions, and what is not modelled

* Payloads, user data, prices, notification texts, logs and traces are left out;
  `notification.send` appears as a publication that may fail last
  (`notifiesLast`).
* `currentStep` is "FAILED" for every `FAILED:<eventType>`.
* Kafka keeps no order between topics; within one it does, but a failed message
  is passed by the next commit and outbox workers overtake failed rows, so any
  order is allowed. Duplication and loss are mishaps.
* In `OrderFlow` each transaction of the other services is one action; the
  outbox is part of the delivery. `Inventory` opens that up for its service; what
  two settlements that overlap add to their transactions one after the other is
  `SettleBoth`.
* Whether the stock suffices for the order is a choice in `OrderFlow`
  (`ReserveStock`, `RefuseStock`), computed in `Inventory`.
* Time: a timer or cron may fire whenever its condition holds; `RateLimiter`
  alone has a clock.
* In `Gateway`: the exponential delays and timeouts are not measured; a target
  URL that is no URL, which fails a request before its first attempt, does not
  occur; the health check of a route only reads.
* In `RateLimiter`: which rules apply to a client; the reset deletes the keys of
  any set of rules in one step (the code scans, then deletes what it found).
* In `Delivery`: one partition and one product. The read of a reservation and the
  begin of its transaction are one step. The socket message is left out.
* In `Backup`: encryption and the e-mails about the outcome, whose failure is
  caught; contents of rows; a user has at most one post; nothing deletes or changes
  a row except a restore.
* In `Session`: one user, whose password is right; register is a login that creates
  the row first. A call that the gateway repeats after a timeout runs again, not
  beside the first. Answers reach the page in one step with their cookie. A refresh
  token outlives its cookie.
* In `UserCache`: the answer to the client is no step of its own; POST, which
  touches no cached key, and the sessions are left out. `findAll` is not cached.
* `CachingService`: LRU, LFU, write-through and cache-aside storage, `clear`, `warmup`,
  `evict` and the statistics have no caller in any service.
* Not modelled: the pages of the web client, code generation and lint packages, container files,
  the Kafka exercises, stress scripts (no behaviour of the system), trace queries
  (read only).
* The eleven services carry identical copies of the caching service, its
  decorators and interceptor, and nearly identical ones of the Kafka consumer and
  producer, the outbox worker, filters, pipes, middleware and configuration. Each
  is modelled, and mapped, once, at the copy whose service uses it; the other
  copies, the DTOs and the pages are most of the implementation's lines that no
  definition stands for.

## 9. Plan

Written: `Reservations` -> `Inventory` -> their proofs; `SagaOrchestrator` ->
`OrderFlow` -> its proofs; `Gateway` -> its proofs; `RateLimiter` -> its proofs;
`Channel`, `Outbox`, `KafkaConsumer` -> `Delivery` -> its proofs; `Backup` -> its
proofs; `UserCache` -> its proofs; `Session` -> its proofs.

Left:

1. `Payment` - the IPN jobs, the scheduler and the refunds statement by statement, as an
   implementation of the payment part of `OrderFlow`, whose steps are the transactions.
   Little is expected of it: the reads before the transactions only find the ids.
2. `OrderFlow`'s inventory part as an instance of `Reservations`, so that the two
   levels are connected by a refinement, checked and proved: then `AnsweredOnce` and
   `RepliesAgree` hold of the service in the composed system. `SettleBoth` is two
   steps of `Decide` and two of `Settle` there, which a refinement has to split.
3. Proofs about several sagas of one order: `CompensationUnderWay` and
   `CancelledHoldsNoStock` are false with two of them, and what is still true then
   (no stock is held for a saga that was never running, say) has no property yet.
