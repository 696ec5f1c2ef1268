# Verification of go-micro-example

TLA+ models of the inventory microservice in `src/`: the Postgres transactions of
its service calls, the AMQP and Kafka loops, the read path with cache and catalog,
the HTTP layer with its idempotency keys and rate limits, websocket subscriptions,
users and tokens, and the life of the process from its settings to its exit, each
with the failures and interleavings its code meets. TLC checks them on small
instances (12 runs). TLAPS proves, in eight modules and for every value of the
constants, every safety property the runs check (27), among them that the inventory
service implements an abstract ledger of what it promises. The liveness properties
(11) are model-checked.

Contents: [inventory](#1-the-system), [plan](#2-plan), [modules](#3-modules-and-code),
[runs](#4-runs), [fairness](#5-fairness), [proofs](#6-proofs),
[disagreements](#7-disagreements-between-code-and-text),
[left out](#8-what-is-not-modelled).

All paths below are relative to `src/internal/` unless they start with `src/`.

## 1. The system

A factory produces units of a product (sku); customers reserve units. Several
replicas of one Go process share a Postgres database, a RabbitMQ broker, a Kafka
cluster and a Redis. Every HTTP request, Kafka record and AMQP delivery runs in a
goroutine of its own.

```
 HTTP -> rate limit -> auth -> idempotency key -> handlers --+
 Kafka commands -> dispatch -> Applier.Apply ----------------+--> inventory service
 AMQP products  -> ProductQueue -----------------------------+      |  tx over Postgres
                                                                    |  cache invalidation
                      exchange <- AMQP publisher <-- unbuffered ----+  chan
                      topic    <- Kafka producer <------------------+
                      websocket <- one-slot chan <- notifier -------+  goroutine
```

| Component | State | Operations | What is hard | What makes it correct |
|---|---|---|---|---|
| Inventory service and repository (`inventory/service.go`, `repository.go`) | products, product_inventory, production_events, reservations; row locks; locals of each call | CreateProduct, Produce, Reserve, FillReserves, reads | read-modify-write over several statements, lock upgrades and opposite lock orders, checks made outside the transaction, publication inside a transaction, lost commit replies, LIMIT 100, INTEGER columns | no lost update, units conserved, first come first served as far as the replicas' clocks allow, no stock stranded beside open reservations, calls return, an existing product is not overwritten |
| Product inventory cache (`platform/cache`, `service.go` SetCache, GetProductInventory, publishInventory) | one key per sku with a TTL | Get, Set, Delete | a reader's Set after a writer's Delete, invalidation before a commit, cache errors | shows only quantities that were committed; a stale entry goes away |
| Live subscriptions (`service.go` Subscribe/Unsubscribe/notify, `transport_http*.go`) | two maps id -> channel under `subsMu`, one-slot channels | subscribe, unsubscribe, notify, stream | sends outside the mutex to a copy of the map, close by the receiver, slow clients, writes without a deadline | an update goes to a client at most once, and to every registered one unless a connection fails or a write hangs; notifying goroutines end |
| AMQP publisher (`platform/messaging/amqp`, `transport_queue.go`) | session hand-over channels, pending slot, confirm channel | redial, publish, confirm, leave | connection lost between publish and confirm, one variable for "the message a confirm is about", cancellation at each select | at most once, confirmations in order, senders do not hang, the factory ends |
| AMQP product consumer (`transport_queue.go` ProductQueue) | delivery channel | consume, acknowledge, handle, dead-letter | acknowledgement before handling, end of Subscribe on an error | a delivery is handled or dead-lettered |
| Kafka consumer and Applier (`platform/messaging/kafka/consumer.go`, `platform/idempotency/idempotency.go`, `transport_kafka.go`) | offset, batch, attempts; `processed_events`; dead-letter topic | poll, dispatch, Apply, retry, dead-letter, commit, prune | rebalance in the middle of a batch, redelivery, crash between dedupe row and handler, a failing compensating DELETE, cancellation | handler succeeds at most once per event; committed records were handled; offset does not move back |
| REST idempotency keys (`platform/idempotency/rest`) | store key -> body hash, response | Lookup, handler, Save, expiry | lookup and save are separate, store errors degrade open | replay of that key's and body's answer, never a 5xx; one answer per key |
| Rate limiter (`platform/ratelimit`, `platform/httpx/ratelimit.go`) | token bucket per caller in Redis | Allow (Lua script) | `now_ms` is read in Go before the script runs, several replicas, fail open | one budget shared by the replicas; the wait the limiter computes is enough and the header is short of it by less than a second |
| Catalog client (`catalog/client.go`) | clock of each Lookup | Lookup with retries, backoff, deadlines | retry against deadline | a read is answered whatever the catalog does |
| HTTP handlers (`app/routes.go`, `inventory/transport_http*.go`, `platform/httpx`) | - | layers, decoding, status mapping, pagination | a success seen through retries and replays, pages moving under the reader | a success is in the database, a listing is complete |
| Users, bootstrap, tokens, console (`user`, `auth`, `web`) | users table, cached users, signing keys, tokens, cookie | create, delete, login, bootstrap of the admin, issue, parse, the console's cards | replicas bootstrapping at once and beside POST /user, stale cached users, death in the middle | an admin exists, a removed user's access ends |
| Application lifecycle (`app/server.go`, `src/cmd/server/main.go`) | background loops, HTTP server, pool | build, run, shut down | order of shutdown, loops still running, blocked sends | nothing that is waited for uses a closed pool; a signal ends the process |
| Configuration and secrets (`src/config`, `platform/secrets`) | environment, files, flags | LoadFromEnv, Load | layers and their order, decoding | the provider's credentials are in effect |
| Observability, templates, generated client | - | stateless or presentation | - | - |

Components interact by calls (handlers -> service -> repository), shared rows
(Postgres locks), unbuffered and one-slot channels (service -> AMQP loop, notifier
-> stream), and messages (broker, Kafka). `PROJECT.json` lists the hazards line by
line, with the properties that would catch each.

## 2. Plan

Order by how much depends on a part and how hard it is to test.

| Step | Module | Composes | Status |
|---|---|---|---|
| 1 | `Inventory`, `InventoryProofs` | - | done |
| 2 | `AmqpSession`, `AmqpPublisher` | the publisher extends the session | done |
| 3 | `CommandConsumer`, `CommandConsumerProofs` | Kafka group, dispatch and dedupe table | done |
| 4 | `InventoryCache`, `CatalogClient`, `ProductRead` | the read path: cache, then catalog | done |
| 5 | `RestIdempotency`, `HttpApi` | the HTTP layers around the key middleware, with pagination | done |
| 6 | `Subscriptions` | - | done |
| 7 | `StockLedger` | abstract specification that `Inventory` implements | done, checked and proved |
| 8 | `Events`, `ProductQueue` | the consuming loop over `AmqpSession`, with `AmqpPublisher`'s loop as its dead-letter publisher | done |
| 9 | `RateLimiter` | `script.lua` over the shared buckets, replicas with their own clocks | done |
| 10 | `Accounts`, `OperatorConsole` | users, bootstrap and tokens, used by the console | done |
| 11 | `Settings`, `Lifecycle` | settings, startup and teardown over `AmqpSession`'s loop | done |
| 12 | `AmqpProofs`, `ProductReadProofs`, `HttpApiProofs`, `SubscriptionsProofs`, `RateLimiterProofs`, `ReplicaProofs`; the queue of reservations in `InventoryProofs` | each extends the module it is about | done (section 6) |
| 13 | the refinement of `StockLedger`, sums over rows and the product list as theorems | lemmas on least numbers, subsets and partial sums | done (section 6) |

## 3. Modules and code

**`Inventory`.** Variables: the committed tables (`products`, `available`,
`events`, `reservations`), `locks`, and per request a program counter, its
arguments and its Go locals (`avail`, `todo`, `rows`, `got`). A step is one SQL
statement, one commit or one publication. Postgres runs at READ COMMITTED: plain
statements read committed rows; statements that lock wait (their guard is `Free`)
and see the newest version; a transaction's writes stay in the locals until its
commit installs them. Lock modes are those the statements take: `FOR UPDATE`
(Update), an `UPDATE` of non-key columns (NoKeyUpdate), and the foreign key check
(KeyShare), which is why Produce upgrades a lock. `DeadlockVictim` is Postgres'
deadlock detector, `Abort` and `CommitReplyLost` are injected failures. Time enters only
as `reservations.created`. Reserve takes it from `time.Now()` of the replica it runs on
(`stamp`), before the insert, and replicas' clocks need not agree: the stamp is any
member of `Time`, whatever stamps came before. In a fill, rows are written inside the
transaction, where nobody sees them before the commit, but the hand-over to the
publishing loop and to the notifying goroutines happens at once; neither keeps an order,
so `told` is the set of the quantities that were handed over. `ahead` (the
reservations with an earlier stamp that a new one finds), `produced`, `granted`,
`given` and `missed` are history variables that no guard reads.

**`AmqpSession`, `AmqpPublisher`.** The goroutine of `redialWith` (`factory`) and
the loop ranging over `sessions` (`loop`); a send on an unbuffered channel and its
receive are one step. The publisher adds the service's blocking sends, `reading`,
the pending slot, `body`, the confirm channel and what the broker has received. A
select takes any ready case. A connection is first `broken` and then `down`, when
the library has noticed; a frame written to a broken connection may still arrive.

**`CommandConsumer`.** Members of one group on one partition. Places follow `Run`,
`dispatch` and `Apply`: poll, insert (the dedupe row), run, undo (the DELETE),
backoff, dlt, commit. A member that lost the partition goes on with its batch. A call
that takes ctx fails once ctx is cancelled. `Faults` names the failures a
configuration allows; `lossy` records that one happened after which the code itself
may lose an event.

**`StockLedger`.** Products, free units and per product a queue of reservations with
their stamps; create, produce, reserve and fill are one step each. A reservation waits
for those that were in the queue before it with an earlier stamp (`ahead`); between
others the order is open, because the replicas' clocks do not fix it. A fill gives
shares that are `Fair`: nobody gets more than asked for, nobody gets anything while one
ahead of it lacks something, and a part of what is lacking is given only if that uses
up the stock. `Ledger` in `Inventory` maps the tables and `ahead` to it; locals, locks
and the other history do not appear in the mapping.

**`InventoryCache`, `CatalogClient`, `ProductRead`.** One product: readers, producers
and fillers over a committed row, the cached entry and the row lock. The difference
between Produce (commit, then invalidate) and FillReserves (invalidate in the loop,
then commit) is kept. A Lookup has a clock of its own in units of 50 ms; an attempt
answers, hangs until a timeout or fails, backoffs take any time the jitter allows.
`ProductRead` is the handler of GET: the cached read, then the enrichment.

**`RestIdempotency`, `HttpApi`.** Requests with a key and a body (standing for its
hash). `HttpApi` supplies the wrapped handler: the layers in the order `routes.go`
mounts them, what they refuse, and the service call as lookup of the request id and
transaction. A client pages through the product list meanwhile: a page is the products
whose rank, the number of products before them, lies between its offset and the next.

**`Events`, `ProductQueue`.** `Events` says what `Validate` accepts of a message
described by what it looks at. `ProductQueue` has the Subscribe loop, the handler
goroutine and the dead-letter loop, each waiting for the other over unbuffered
channels, an acknowledgement after the hand-over, and the heartbeats behind `Ping`.

**`RateLimiter`.** The steps of `Allow`: the clock of a replica is read, then the
script runs, up to MaxDelay later. Its reply may be lost, after which the client library
sends it again with the same time or the call fails open. Tokens are counted in parts
so that rates below one stay integers. A denial has two waits: the one the script
computes (`promise`), rounded up, and the Retry-After header the client sees (`header`),
which the middleware rounds down to whole seconds with a minimum of one. `KeyTTL` is the
limiter's own formula, with its minimum of a minute.

**`Accounts`, `OperatorConsole`.** Threads are replicas starting up and calls that sign
in and use a token; their steps are single statements and cache commands. POST /user
creates a user of any name, the admin's included. Time is relative: entries and tokens
carry the time they have left. The console chooses credentials and cards and holds the
cookie.

**`Settings`, `Lifecycle`.** `Settings` has operators only: a raw value has the kind
YAML or the environment gives it, and a few keys stand for each kind (a credential,
a list, a flag, a path, a number, the profile). `Lookup` asks the layers one after the
other, the first that has the key wins. `Lifecycle` has the places of main
(`phase`), the listener, the pool, and where each user of the pool is in its call
(`work`): waiting for a connection, in a transaction, or blocked in a publication,
inside or outside one. Kafka's two loops, the product handler and requests are such
users. One publishing loop stands for both.

**`Subscriptions`.** Clients with their streams and one-slot channels, notifiers
over copies of the map. A critical section of `subsMu` is one step; a send is not
part of one. A write succeeds, fails, or hangs for ever (`WriteHangs`), because the code
sets no deadline. A send on a closed channel ends the process.

Operators marked *Mutant* in the modules are deliberate bugs (a dropped guard, a
missing reset, a swapped order); no specification uses them. `PROJECT.json` pairs each
property with one that breaks it, which shows that the property depends on the code.

## 4. Runs

Runs expected to pass:

| Run | Instance | Properties | Shows |
|---|---|---|---|
| `Inventory_stock` | 3 requests, 1 product, 2 request ids, clocks that show 1 or 2, 3 calls, 1 failure | TypeOK, LocksProtectReads, NoLostUpdate, ReservationsSound, FillOrder, CommittedFillsPublished, RowsMoveForward, ImplementsLedger | locking makes the read-modify-write of Produce and FillReserves safe, also when a statement fails, a process dies or the reply of a commit is lost; calls look like atomic operations of `StockLedger`, whatever stamps the clocks give; no stock is set aside without having been announced |
| `Inventory_create` | 2 products of which one exists, one creator, quantity 2 with MaxInt 3, LIMIT 1 | StockConserved, NoStrandedStock, CallsReturn | creation beside traffic, INTEGER overflow, the LIMIT, request ids shared by two products; every call returns although calls deadlock |
| `Amqp_publish` | 2 messages, 3 failures, shutdown | AtMostOnce, ConfirmedInOrder, SendsComplete, FactoryExits | no duplicate across sessions, no confirmation taken for another message, no sender left hanging while the process is up, the factory ends |
| `Amqp_products` | a product and a refused message, 4 deliveries, 2 failures, shutdown | HandledBeforeForgotten, MessagesSettle, ReadyTracksSessions | no product message is lost before a handler has it; every one becomes a product or a dead letter; readiness follows the sessions |
| `Commands_group` | 2 members, records a, b (invalid), a again, 1 retry, 3 failures of 9 kinds | SucceedsAtMostOnce, OffsetMovesForward, CommittedGetsHandled | deduplication under redelivery and rebalance; a committed record was handled, unless a failure named in `Lossy` happened |
| `Cache_aside` | 1 reader, 1 producer, 1 filler, no TTL configured, 2 failures, 3 attempts | CacheHoldsCommitted, StaleHeals, ReadAnswered | the cache never holds a value that was never committed; staleness ends; a read is answered whatever the catalog does |
| `Rest_keys` | 3 requests, 2 keys, 6 bodies (invalid, too large by header or chunked), 3 products, page size 1, a store and a service failure | ReplayIsFaithful, OneAnswerPerKey, SuccessIsRecorded, ListingComplete | replays are faithful under every overlap, overwrite and store error; a success is in the database; a listing misses nothing |
| `Subs_notify` | 2 clients, 3 updates, 1 failing write, any write may hang | NotifiedOnce, EveryoneNotified, NotifiersEnd | over one-slot channels an update reaches a client at most once, and everyone except where a connection fails or a write hangs; a notifier ends except behind a hanging write, if only by the panic of a send on a closed channel (section 7) |
| `RateLimits` | 3 calls, 2 buckets, clocks off by 1, delays up to 2, 1 Redis error or lost reply | BudgetShared, RetryAfterHolds | the budget is shared and exceeded only by time that is refilled twice; the computed wait is enough, and the Retry-After header is short of it by less than a second |
| `Accounts` | 2 replicas, 2 calls, 3 production deployments, all times 1, one death or Redis error; 2M states | AdminOrPending, AccessBounded | without a seed admin a replica serves only with an admin in the table, deaths included; with one, racing bootstraps leave an admin unless a replica dies or a created user takes the name; a removed user's access ends in time |
| `Lifecycle` | 12 inputs, 1 request, 1 connection failure, a signal; 165k states | CredentialsInEffect, UsersGoneBeforeClose, ShutdownEnds | the provider's secret is used whatever else is set; the pool outlives those it waits for; a signal ends the process except in one case (section 7) |

One run is expected to find a violation of what a test of the repository says
(section 7): `Inventory_create_race`.

**Bounds.** Three requests are the smallest number in which a holder, a waiter and a
third party that changes what the waiter will see differ; with two request ids a
reservation and a production meet, and two reservations compete. MaxInt 3 with
quantities 1 and 2 makes a second production overflow. FillLimit 1 makes the LIMIT bite
with two reservations. In `Commands_group` the log has a duplicate of an event behind an
invalid record, so batches of one and two split it in every way; three failures allow,
for example, handler error, rebalance and failed commit in one behaviour. Two members
are the two sides of a rebalance. In `Amqp_publish` two messages are what a confirmation
can be confused between; in `Amqp_products` four deliveries let each of two messages
come twice. Three requests in `Rest_keys` are an overlapping pair and a replay. In
`Cache_aside` a deadline of 4 with attempts of 2 and a backoff of 2 ends in an attempt
as well as in a pause. Two times are enough for stamps that agree with the order of
arrival, contradict it, or tie. Burst 9 with cost 7 and rate 2 lets one call through and
has the next wait for 3 units; with 2 units to a second the header says 2, so that the
shortfall happens. The fault is a lost reply, after which the script runs twice, or a
failure. In `Subs_notify` three updates are more than a client's channel and its stream
hold, so a notifier waits behind a hanging write. In `Accounts` a time to live of 1
expires and a delay of 1 crosses it; two replicas are the two sides of each race; a
developer's machine, with generated passwords and a signing key of each process, was
checked separately (1.5M states more) and is covered by the proofs. In `Lifecycle` two
connections are fewer than the four users, and one connection failure parks the
publishing loop before or after the signal; each input goes another way through the
settings or the startup. A bound on failures also makes the fair runs come to rest.
Symmetry is used only in runs without temporal properties and where no definition
chooses among the permuted values (`ImplementsLedger` holds safety only).

`CHECK_DEADLOCK FALSE` stands where the modelled part really may stop: a consumer
that has read its log, a publisher whose messages are sent or whose process is shut
down, requests that are all answered, notifiers that are done, a process that has
exited. In `Inventory` the
only resting state is `Done`; deadlocks of calls are therefore caught by TLC itself.

## 5. Fairness

- `Inventory`: weak fairness of every request's own statements and of the deadlock
  detector: the Go scheduler runs goroutines, Postgres grants free locks and ends
  a victim after `deadlock_timeout`. None of new calls and of failures.
- `AmqpPublisher`: weak fairness of the goroutines, the library and the broker as
  one system; failed dials and broken connections are finitely many, so there is no
  cycle in which one part starves another. None of new messages or cancellation.
- `CommandConsumer`: every process runs and is restarted after it stops (the
  container's restart policy), and the group coordinator reassigns the partition of a
  stopped member. None of faults, rebalances of live members or the retention job.
- `ProductRead`: requests run; Redis and the memory cache expire what has a TTL; a
  Lookup's clock moves. None of reads or writes starting.
- `ProductQueue`: each loop and the handler run, and time passes for `Age`. None of
  failures or cancellation.
- `Lifecycle`: main, the listener, the publishing loop and every call run, and the
  database answers; Drain's deadline is a timer and part of main. Weak fairness is
  enough although calls compete for connections: a cancelled wait for one ends. None
  of new work and of the signal.
- `Subscriptions`: goroutines that can run do. A hanging write is a step of its own
  after which its stream has none, so no write is assumed to end; the properties name
  whom it harms (`HeldUp`). None of new clients and of publications.

## 6. Proofs

Every theorem holds for every value of the constants that satisfies the assumptions
named with it; the bounds on calls, failures and time are among those constants, so a
theorem holds for every bound. Each safety property is proved from an inductive
invariant that contains it: the property alone says too little about where the calls
stand. TLC checked every one of these invariants on the instance of the component's
run before it was proved.

**`InventoryProofs`** (`ConstantsAssumption`: types of the constants).

- `TypeCorrect`, `LockingIsSound`, `ReservationsStaySound`: from
  IInv = TypeOK /\ LocksProtectReads /\ ReservationsSound. None is inductive alone:
  that a commit keeps `available` a natural number needs the local copy to be
  current (LocksProtectReads), which needs exclusive locks and, for the rows a
  fill has collected, that open reservations are those not complete
  (ReservationsSound). Steps that only take a lock or move the program counter share the
  lemmas `Frame` and `Advance`; the four commits share `CommitFrame`, whose
  content is that the other calls hold no conflicting lock and so depend on
  nothing the commit writes.
- `StockIsNeverLost`: SingleCreator => (Spec => []NoLostUpdate), from
  LedgerInv = NoLostUpdate /\ CreationIsFresh on top of IInv. The hypothesis is
  necessary: `Inventory_create_race` is the counterexample without it.
- `CommittedRowsMoveForward`: Spec => RowsMoveForward, an action property, from IInv.
- `FirstComeFirstServed` ([]FillOrder), from QueueInv. FillOrder is about committed
  rows and says nothing of a fill that is under way. QueueInv adds, for each fill, that
  its list of rows respects who waits for whom: a reservation ahead of one it has
  listed is listed too or already complete in its transaction, and nothing is served
  before an incomplete one that is ahead. No clock is compared with another: a
  reservation that comes in meanwhile, whatever its stamp, is ahead of nobody the
  snapshot has, for `ahead` holds only what was there before and has an earlier stamp
  (AheadInv), which is also why ORDER BY created visits it first. Rows the fill has
  served are locked by it, and the others only move forward (`Forward`, from the
  previous theorem): `OtherFill`.
- `FillsPublished` ([]CommittedFillsPublished), from PublishInv: what a reservation holds
  has been handed over, and so has what an open fill is about to commit for each row it
  has served. The second part needs that nobody else changes a row between its hand-over
  and the commit, which is LocksProtectReads. The converse is false (section 7).
- `StockReachesReservations` ([]NoStrandedStock), from StockInv: free stock beside an
  open reservation always has a call in flight that *covers* the reservation, because it
  has its fill still before it, has the row in its list, or will leave no stock. A fill
  whose snapshot is older than a reservation does not cover it; the call that made the
  reservation does. `Aside` describes all steps outside a fill at once, so that only the
  four steps of a fill and the two commits that write reservations are proved one by one.
- `ImplementsStockLedger`: SingleCreator and finitely many request ids => (Spec =>
  ImplementsLedger). Only four kinds of step commit (`TablesKept`); each is one operation
  of the ledger, or changes nothing of it. Reserve's commit has a stamp from `Time` and a
  quantity that fits (ReserveInv). A fill is the hard one: it has worked on a list that
  may be stale by its commit. Its shares are what its rows got; that they are `Fair`
  (`FillFair`) is QueueInv, and that they add up to what leaves the stock, and to all of
  it when somebody gets a part, is GivenInv below. The hypothesis is the same as for
  `StockIsNeverLost`.
- `UnitsConserved`: SingleCreator and finitely many request ids => (Spec =>
  []StockConserved), from GivenInv: what an open fill has handed out is the sum of what
  its rows got. The sums are those of the community modules' SumFunction, a recursive
  function. Induction theorems with an operator as parameter cannot be used, so
  `SubsetInduction` states induction for a *set* of subsets, from the least cardinality
  outside it; that the recursion has a solution (`PartialSumsExist`), that sums add up
  (`SumAdds`) and what one changed value does (`SumOfUpdate`) follow.

**`CommandConsumerProofs`** (`ConsumerAssumption`), for every group, log, batch size,
number of retries and of failures of every kind.

- Invariant: TypeOK /\ PlaceOK /\ DedupeOK /\ OwnerAhead. PlaceOK: a member that
  works is inside its batch. DedupeOK, the heart: a dedupe row stands for a handler
  that succeeded or that exactly one member is working on. OwnerAhead: the
  partition's owner never stands before the committed offset.
- `TypeCorrect`, `AppliedAtMostOnce` ([]SucceedsAtMostOnce) and `OffsetsMoveForward`
  (OffsetMovesForward) follow.

**`AmqpProofs`** (`SessionAssumption`, `QueueAssumption`), about `AmqpPublisher` and about
`ProductQueue`, which contains it.

- `TypeCorrect`, `PublishedAtMostOnce`, `ConfirmationsInOrder`, from PublishInv: a message
  is taken once (TakenOnce) and then in one place only, the pending slot, on its way in this
  session or in one that is over, or at the exchange (OnePlace); a session works on one
  message until its confirmation (OneAtATime); what is acknowledged went out in the order it
  was taken (AckedInOrder). ConfirmedInOrder alone is not inductive: that the variable
  `body` holds the message a confirmation is about is OneAtATime.
- `NothingForgotten` ([]HandledBeforeForgotten), from QueueInv: the loop is past its
  channel send only with a delivery the handler has (AckAfterHandOver), so an
  acknowledgement never outruns the hand-over, whatever session it belongs to.
- `DeadLettersAtMostOnce`: every step of the composition is a step of the publishing loop
  or leaves it alone (`LoopInQueue`), so the publisher's guarantees hold for dead letters.

**`ProductReadProofs`** (`CacheAssumption`, `ClientAssumption`).

- `CacheCommitted` ([]CacheHoldsCommitted), `ReadTypeCorrect`, `ResponsesCommitted`,
  `EntriesExpire`, from ReadInv. The value a reader carries from its SELECT to its Set
  must have been committed (ReadCommitted) although the row has changed meanwhile.
  ResponsesCommitted is the safety half of ReadAnswered; EntriesExpire says that no
  entry is stored without a time to live, also when none is configured, on which
  StaleHeals rests.

**`HttpApiProofs`** (`RestAssumption`, `ApiAssumption`; at least one body exists, because
the model's empty store entry names one; the products there are at the start are
finitely many).

- `ReplaysFaithful`, `KeyAnsweredOnce`, `SuccessesRecorded` and `ApiTypeCorrect`, from
  ApiInv in three layers. ReplayInv: whatever is stored for a key is the answer of a run with
  that key and body, a saving request holds such an answer. OnceInv, on top: unless requests
  of the key overlapped or the store failed or forgot (`raced`), a run that answered is in
  the store before the next request looks. RowInv, on top: a first-hand success has its row,
  rows are never taken back, and so a replayed success has it too. Every step of the API is
  classified first by what the middleware sees of it (`StepKinds`).
- `ListingsComplete` ([]ListingComplete), from ListInv: a product that was there at the
  start and has not been seen has a rank at or after the offset of the next page, and the
  listing is not over. Products created meanwhile only raise ranks (`ListGrows`). That a
  page after which the list goes on is full, and so has a next link (`FullPage`), is
  counting: if some product has rank n or more, exactly n products have a lower one
  (`CountBelow`).

**`SubscriptionsProofs`** (`SubscriptionsAssumption`: None is no client and no update),
for any number of clients, publications and failures, hanging writes included.

- `ClientsNotifiedOnce` ([]NotifiedOnce) and `SubsTypeCorrect`, from NotifyInv: on its way
  to a client an update is in one place, the channel, the stream or the socket (OnePlace),
  and a client a notifier has still to serve has not been reached by it (ServedOnce).

**`RateLimiterProofs`** (`RateAssumption`: the cost fits the burst, and a key outlives the
time to refill a bucket by the clock skew and the longest delay, which the script's EXPIRE
grants by its minimum of a minute or ten times the time to fill a bucket).

- `OneBudget` ([]BudgetShared), from RateInv: an existing bucket holds no more than what a
  full one and the refills since any of its grants leave (FilledWithin); a bucket that
  expired would be full for whoever asks next (ExpiredFull), which is where the time to live
  is needed; the time a waiting request carries was shown by some clock not long ago
  (StampsRecent).
- `WaitIsEnough` (RetryAfterHolds, an action property): refilled up to the time the last
  denial computed, the bucket has the cost, and that time is less than a second after
  the one in the header (WaitSuffices), also after a script has set `last_ms` back. A
  script whose reply is lost changes the bucket as any other (`GrantInv` and its twin
  for refusals serve both). Products of a variable and a constant are given to the
  provers by `TimesRate`, `TimesCost` and `DivisionUp`.

**`ReplicaProofs`**, about `Lifecycle` and about `Accounts` with `OperatorConsole`
(`InputAssumption`: environment and secret files hold texts, and a key that is not set has
no value; `RequestAssumption`: requests are not background loops; `AccountsAssumption`).

- `PoolOutlivesUsers` ([]UsersGoneBeforeClose), from CleanupOrder: each step of Cleanup
  leaves what the next relies on; the listener is closed before the drain, requests are gone or
  cut off after it, the loops are over before the pool closes, and no step leads back.
- `ProvidedCredentials` ([]CredentialsInEffect), from SecretsExported: from the
  provider's step on the environment is the one it exported, and LoadConfig, whose layers
  the lemmas follow, prefers it.
- `AccessBoundedHolds` (ConsoleSpec => AccessBounded, an action property), for any number
  of replicas and calls. From Typed (types, and where each kind of thread can be);
  BirthInv: the hash of a user that is yet to be inserted is nobody else's, so no deletion
  has marked it (a fresh salt exists because only finitely many are held anywhere, a
  pigeonhole argument); and AgeInv: what a thread has read, the cache holds or a token
  names was a row, and how long that row can be gone adds up from the steps it went
  through: MaxDelay for a login in progress, CacheTTL in the cache, then the token's own
  life.
- `AdminOrPendingHolds` ([]AdminOrPending), for databases with and without a seed admin.
  With one, from AdminInv: whoever knows of a user of the admin's name that is not the
  seed admin, the cache included, knows of one that is in the table or that some replica
  is about to put back (Settled). AdminOrPending speaks of replicas that serve; those
  that have only looked, deleted or filled the cache are what the induction needs.
  Without one, from Unseeded (nobody has ever read a seed admin, so nobody is on the way
  to a deletion) and Manned: whoever relies on a user of that name relies on a row, and
  the first such row is an admin that a replica inserts, because calls, which could
  create an ordinary user of that name, only come to a replica that serves.

Only model-checked: the liveness properties, because fairness and ENABLED are outside
this prover's reach. They are CallsReturn, SendsComplete, FactoryExits, MessagesSettle,
ReadyTracksSessions, CommittedGetsHandled, StaleHeals, ReadAnswered, EveryoneNotified,
NotifiersEnd and ShutdownEnds. Two theorems state safety that liveness rests on
(ResponsesCommitted, EntriesExpire).

## 7. Disagreements between code and text

Kept as a run:

- `Inventory_create_race`: CreateProduct checks for the product outside its
  transaction (`service.go` 103); two concurrent creations set the stock of an
  existing product to 0, where `service_test.go` 158-168 wants no write.

Met while modelling and only noted here, by part.

*Inventory and messages*

- FillReserves publishes and invalidates inside its transaction (`service.go`
  536-545), so a failed commit leaves publications of rolled back rows and a read in
  between caches the old quantity; `service.go` 568-569 and `src/README.md` 337-338
  say after the commit.
- `queue.go` 327 "Retry failed delivery on the next session": the message goes into a
  channel local to the session that ends.
- A publishing loop parked at `<-session` when the factory stops stays there; `queue.go`
  199-201 says it sees its channel close.
- `idempotency.go` 114-117 says the retry and dead-letter logic routes an event whose
  DELETE failed; the retry sees the row and counts a success.
- A graceful shutdown cancels the handler and the DELETE after it alike
  (`idempotency.go` 118), so the row of an event that was not applied stays;
  `src/docs/messaging.md` 89-90 says it is removed on error.
- A client that disconnects while a notifier is sending to it makes the notifier send on
  a closed channel (`service.go` 422, 600), which ends the process;
  `transport_http.go` 134 speaks of disconnecting the client.
- A client that stays connected and stops reading makes its write hang, for
  `transport_http.go` 133 sets no deadline: updates wait for its full channel in the
  goroutines of `service.go` 598-601, and the clients behind it are not notified.
- Notifications are sent by a goroutine each (`service.go` 577, 586) and messages by
  concurrent senders to one channel: neither subscribers nor consumers are told in the
  order of the commits.
- ORDER BY created (`repository.go` 256) is the order of arrival only if the replicas'
  clocks agree (`service.go` 274, two replicas in `src/deploy/base/deployment.yaml`): a
  reservation stamped by a slow clock passes others that came before.

*HTTP*

- Overlapping requests with one key may save different outputs and the later Save wins;
  `store.go` 26-30 of the REST store says they are the same.
- A body over the limit is answered with 400 (`middleware.go` 124); lines 97-98 say it
  skips the cache.
- `shouldCache` keeps 4xx answers as deterministic; a 404 is replayed after the product
  was created.
- The limiter's budget is exceeded by time that is refilled twice: a script that sees an
  older time sets `last_ms` back; `limiter.go` 1-4 promises one budget.
- Retry-After is the computed wait rounded down to whole seconds (`httpx/ratelimit.go`
  95-99): a client that waits exactly as told may be denied once more. RetryAfterHolds
  bounds the shortfall by a second.
- The catalog backoff is in [w/2, w), its comment says plus or minus half.
- `/auth/token` answers 500 on wrong credentials; `user/service.go` 20-25 and the
  `@Failure 401` annotation promise 401.

*Accounts*

- Bootstrap is "safe to call on every startup" (`bootstrap.go` 43): of replicas that
  start together on a database with the seed admin one may fail on the primary key, and
  they delete each other's new admin. A death between Delete and Create followed by a
  stale cache entry leaves no admin.
- "Bootstrap ensures an admin user exists" (`bootstrap.go` 32): a POST /user with the name
  admin between its Delete and its Create makes the Create fail on the primary key and
  leaves an ordinary user of that name, which later starts take for the admin
  (`NameTaken`, which TLC reaches).
- The user API accepts `isAdmin` and drops it.
- The console's cards sign in with the seed password, which Bootstrap removes.

*Process and settings*

- `src/docs/lifecycle.md` 66-68: "a hanging request must not block shutdown
  indefinitely". A call in FillReserves that has no publishing loop to send to keeps
  its connection, and `DB.Close` waits for it; a Kafka handler in that place holds
  KafkaCleanup up. ShutdownEnds excepts exactly this (`HeldByPublisher`).
- A listener that fails (`server.go` 196) leads to Cleanup with ctx still alive, and
  Kafka's loops end only on ctx: with Kafka on, Run does not return until a signal.
- `src/deploy/base/configmap.yaml` sets GME_PROFILE=prod, GME_DB_NAME, GME_DB_MIGRATE
  and GME_DB_LOGLEVEL, none of which `bindSensitiveEnv` binds: they have no effect.
- A flag equal to its default never overrides a file (`config.go` 593-624); "1" for a
  truth value is false from the environment and true from YAML (510-531); an empty
  secret file passes the check that required secrets are there (`provider.go` 127-165).

## 8. What is not modelled

Plain reads of the service that no property needs (they change no state); rendering,
templates, trace trees, CORS, security headers; JSON encoding (a message is described
by what validation looks at); signatures, TLS and bcrypt (libraries, by what they
guarantee); the Kafka producer (a synchronous call whose failure is part of `Abort`);
migrations (their failure is only logged and then met as a failing Bootstrap); float
settings (they decode as integers do); the health handlers (they read `Ping`);
observability, the demo, the stub catalog and the generated client (no behaviour over
time of their own; the generated client is a sixth of the code lines). `service.Delete`
of the users has no caller. Hijacked websocket connections are not waited for by
Shutdown and hold no connection of the pool, so `Lifecycle` leaves them out. Reads of
several rows are one step where the code reads them in one statement. Client-side
behaviour (retries by HTTP clients) enters as arbitrary repeated requests.
