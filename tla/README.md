# A verification project for redis-api

TLA+ modules, TLC runs and TLAPS proofs about the repository: the product API
(NestJS over Redis, Kafka and Keycloak) and the order consumer (Kafka to
Postgres). Paths below are those of the repository; `PROJECT.json` maps every
definition to the lines it models.

## 1. The system

Several replicas of the product API share one Redis and one Kafka cluster
(`terraform/variables.tf`: 2 to 10 replicas of each service). None of them has
state of its own but a cached admin token. Consumers of one Kafka group write
what the API publishes to one Postgres table.

    client -> RateLimiterMiddleware -> guards -> ProductController -> Redis
                                                        |
                                                        +-> Kafka inventory.item-used
                                                              -> OrderConsumer -> Postgres orders
    client -> RateLimiterMiddleware -> AuthController -> BloomFilter (Redis)
                                                        +-> Keycloak admin API

| component | source | state | operations |
|---|---|---|---|
| inventory API | `src/product/product.controller.ts`, `src/redis/redis.service.ts`, `src/kafka/kafka-producer.service.ts` | Redis keys `inventory` and `lock:inventory`; the handler's locals | `POST use-item`, `GET` and `DELETE inventory` |
| order consumer | `order-consumer/src/orders/*`, `order-consumer/src/main.ts` | `buffer`, `flushing`; table `orders`; the group's offsets | `handleItemUsed`, `createFromEvent`, `flush`, `commitOffsets` |
| rate limiter | `src/redis/rate-limiter.middleware.ts`, `leakyBucket` and its script | Redis hash per client address, with expiry | one script per request |
| registration | `src/auth/auth.controller.ts`, `bloom-filter.service.ts`, `services/keycloak-identity.service.ts` | Redis bitmap `bloom:usernames`; Keycloak users, roles; `adminToken` | `register`: look-up, token, create, role, add |
| login | `auth.controller.ts`, `keycloak-identity.service.ts` | none here; the caller keeps the token | `login`: one call to Keycloak |
| guards, JWT strategy, providers | `src/auth/guards`, `jwt.strategy.ts`, `providers` | none; the token's claims | `JwtAuthGuard`, `RolesGuard`, `extractRoles` |
| Entra ID service | `services/entra-id-identity.service.ts` | none | stubs: 501 |
| wiring, configuration | `app.module.ts`, `auth.module.ts`, `product.module.ts`, `config.schema.ts` | `AUTH_PROVIDER_TYPE` | factories, guards, routes of the limiter |
| Keycloak initialisation | `keycloak/init.py`, `k8s/init.py` | client secrets | start-up job |
| correlation ids, logging, deployment | `main.ts`, `src/common`, `logstash`, `k8s`, `terraform` | none that an operation reads | - |

What makes each part correct, and what makes it hard:

* **Inventory API.** A unit is handed out once, comes back once, and at the end
  the units that left Redis are the events in Kafka. Hard: the lock has a TTL of
  300 ms which runs on while its holder is slow; the emit and its rollback run
  after the lock was released; the reset runs outside the lock; `ioredis`
  resends commands whose reply was lost and `kafkajs` retries a send; every
  await can reject, and the process can die between any two.
* **Order consumer.** Every event is stored once, and nothing is committed that
  is not stored. Hard: a save that was committed but not answered, a commit that
  was stored but not answered, a crash between the two, a rebalance while events
  are buffered, a batch across partitions, a batch given up.
* **Rate limiter.** A client gets through at most what capacity and leak allow.
  Hard: the time is read in a replica before the script is queued; the key
  expires after a whole number of seconds.
* **Registration.** One user per name, the filter never ahead of Keycloak.
  Hard: the look-up and the addition enclose four calls to Keycloak, each of
  which may fail or be executed without an answer; the bits are set one by one;
  two names share bits.
* **The admin token.** No registration fails for a token that the cache should
  have replaced. Hard: one check at the start stands for three later calls; the
  expiry is counted on another clock reading than Keycloak's; two handlers may
  fetch at once; nothing drops a token that Keycloak stopped accepting.
* **Login, guards.** A call is served when the provider granted the role, and
  only then. Hard: the token carries the roles of the moment of its login, while
  registrations go on; the claim that carries roles depends on the provider; the
  guards run after a middleware that may reject.

`PROJECT.json` lists 32 hazards at their lines with the properties that cover
them, and why, where none does.

## 2. The modules

| module | models | checked | proved |
|---|---|---|---|
| `Inventory` | the abstract ledger: take, return, lose, restock | as `LedgerSpec` | - |
| `UseItem` | the inventory API, detailed | 3 runs | `UseItemProofs` |
| `UseItemTimed` | `UseItem` with the TTL and the back-off on a clock | 1 run | `UseItemTimedProofs` |
| `OrderConsumer` | the order consumer with broker and table | 3 runs | `OrderConsumerProofs` |
| `OrderPipeline` | `UseItem` and `OrderConsumer` with the topic between them | 1 run | `OrderPipelineProofs` |
| `LeakyBucket` | the rate limiter for one client address | 1 run | `LeakyBucketProofs` |
| `Registration` | `POST /auth/register` | 2 runs | `RegistrationProofs` |
| `AdminToken` | `getAdminToken` and the calls made with its token | 1 run | `AdminTokenProofs` |
| `Access` | login, guards, routes, providers, composed with `Registration` | 1 run | `AccessProofs` |
| `MC*` | symmetry and constant functions for TLC | | |

A line marked `slip` defines a variant of the definition after it, wrong in the
way a small programming error would make it wrong (a dropped guard, an
off-by-one). No specification uses it: `PROJECT.json` ("mutants") names, for each
property of each passing run, the slip with which TLC finds that property
violated.

### UseItem

One step is one awaited call: the Redis command or script, atomic in the server,
and what the handler does after the reply until its next await. `pc[r]` is the
call request `r` is about to make or its outcome; `attempt[r]` is the loop
counter and, as every `acquireLock` draws a new UUID, the current token is
`<<r, attempt[r]>>`; `remaining[r]` and `published[r]` are what the handler
heard from the script and what it left in the topic.

* `AcquireLock`, `RetryLock`, `GiveUpLock`: `SET NX PX` and the back-off loop
  (`product.controller.ts:47-62`), which sleeps after the last attempt too.
* `Decrement`, `Release`, `Unwind`: the try/finally (`:67-71`). `Release` includes
  the out-of-stock return; `Unwind` is the `finally` of a decrement that threw.
* `Emit`, `EmitFails`, `Rollback`: `:80-98`. An emit that is acknowledged leads
  to 200; one that rejects leads to `INCR` and 503.
* `RedisCallFails`: a call rejected without effect. Only the decrement stands in
  a `try`, so that any other rejection is a 500 with whatever was done so far,
  a unit gone after a failed release for instance.
* `ReplyLost`: the server executed the call and the client library sends it
  again. `LossyCalls` says for which calls.
* `Crash`, `LockExpires`: the replica dies; the TTL runs out whatever the
  holder is doing. No clock: an expiry at any moment covers every timing.
* `ResetInventory`: the plain `SET` of `DELETE /product/inventory`.

`StockOf` is `getInventory`: an absent key reads as `INITIAL_STOCK`, and
`StockAfterIncrement` as 0, which is what `INCR` does.

### UseItemTimed

A tick is the first back-off, 50 ms. `ttl` is what is left of the lock's TTL and
`sleep` of each handler's timer; a lock expires exactly when its TTL is over, a
timer fires at its time or later, and all else takes any time. `blockers[r]`
counts how many locks handler `r` found in its way, by looking at whether the
lock was taken again since its last failed attempt (`fresh`).

### OrderPipeline

`INSTANCE`s of `UseItem` and `OrderConsumer` share the topic: `Publish` is an
`Emit` (or an emit whose answer was lost) together with the append to a
partition, which may be any, as the producer gives no key. `origin` remembers
which request each event stands for, which is what `remaining` and
`correlationId` of `InventoryEventDto` carry; `before` remembers who was answered
before a request began, so that requests that overlap can be told from those
that do not.

### OrderConsumer

`kafkajs` awaits the handler, so a flush blocks its process (`stage`).
`Deliver` is `createFromEvent` up to the first await; `Save`, `Commit` and
`Retry`/`GiveUp` are the awaits of `flush` (`order.service.ts:42-89`);
`SaveRejected` is the unique constraint, `SaveFails` a database out of reach,
`SaveReplyLost` and `CommitReplyLost` calls that were executed without an
answer. Entities that were given their id by an INSERT (`inserted`) are rows
to TypeORM, and saving them again changes nothing; events that are delivered
again are new entities and meet the constraint. The broker's side (log,
committed offsets, generations, fetch positions) is external and follows from
`main.ts:20-23`: a group, no automatic commit, no `fromBeginning`. Membership
is what it is for the commit: a member of the current generation may commit,
any other is refused. A new generation is joined by the members between two
messages and, of those in a flush, by the ones whose commit was refused, as
kafkajs joins again while the retry loop sleeps (`Joinable`); partitions of a
member that died go to the others. `Crash` empties the buffer: `main.ts` enables
no shutdown hook, so `onModuleDestroy` does not run. `crashUnsaved` is a crash at
a moment when nothing in the buffer is a row, which leaves out just the time
between a save and its commit.

`UniqueConstraint` says whether the table has the constraint that
`order.entity.ts` declares. It is TypeORM's `synchronize` that creates it, which
`app.module.ts:31` switches off where `NODE_ENV` is production, as in
`docker-compose.yml:250`; the repository has no migration. Both tables are
checked.

### LeakyBucket

`Arrive` reads `Date.now()` and queues the script; `Execute` runs it later, in
the order of sending for one replica (one connection) and in any order between
replicas. Levels are counted in units that make the script's arithmetic exact
on a clock of ticks. `mark` is a moment chosen at the start and `counted` the
requests stamped since then that were let through: as `mark` is arbitrary, a
bound on `counted` is one for every interval. `MaxDelay` bounds how long a
script may wait in the model; the code bounds nothing, as the client is created
without options and queues commands as long as its connection is down
(`redis.service.ts:68-72`). It is a parameter for that reason: up to a second,
which is what the time to live has to spare (`redis.service.ts:54-56`),
`AdmissionBound` holds, and beyond it does not. Clocks of different replicas are
taken to agree; a skew has the effect of a delay.

The elapsed time of a script can be negative, when one with an older stamp runs
behind one with a newer stamp: `level - elapsed * leak_rate` then grows, and the
level rises above the capacity. `OverfillBounded` says by how much at most,
whatever the delays; it makes the limiter refuse more, not less.
`ExpiryHarmless` says for which requests the loss of the key changes nothing.

### Registration

The GETBITs of a look-up are one step, the SETBITs of an addition one each,
executed by Redis even when the handler is gone. `Positions` is the double
hashing of `bloom-filter.service.ts:49-61` over two base hashes, which are
constants (`Fnv1a`, `Djb2`). Keycloak takes a name and an address
once and answers 409 for both; those of the imported realm are taken from the
start (`Seeded`, `SeededEmails`; `keycloak/realm-export.json`). Every failure
ends the handler with a 500, after the user was created, for instance, and before
the role was assigned.

### AdminToken

One replica; replicas share nothing here. A handler serves one registration
after another: `Begin` is `getAdminToken` up to the cached token or the request
for a new one, `Issue` is Keycloak's signature, `StoreToken` the answer's arrival,
and `AdminCall` each of the three calls with one and the same token. `clock` may
move between any two. `now[h]`, read before the fetch, is what the expiry is
counted from. Tokens are their time of issue and the generation of Keycloak's
keys; `Rekey` is Keycloak coming up with another generation. A call answered
401 throws and leaves the cache alone. Clocks of replica and Keycloak agree.

### Access

`EXTENDS Registration`: registrations go on between the steps of one caller, who
logs in and calls routes. `Arrive`, `LimiterAnswers`, `Guards` and the handlers are
the request's way through Nest: the limiter on `auth` and `product` and not on
`ping`, then `JwtAuthGuard`, then `RolesGuard` (`app.module.ts:46-49`). One caller is
enough, as calls share nothing but Keycloak's users. The limiter answers either
way (its bucket is `LeakyBucket`'s). A token is a record: what was granted, the
payload, whether it is the provider's for this API (`ours`: signature, issuer and
audience in one bit) and whether it is still `live`. `granted`, `account` and
`told` are history that no guard reads. `provider` is chosen at the start and
selects both the claim with the roles and the identity service; Entra's login
and registration are 501. `Foreign` tokens carry every role and belong to
somebody else. The API's own configuration is taken to be complete: with
`ENTRA_CLIENT_ID` unset, `getAudience` is undefined and no audience is checked
(`auth-provider.interface.ts:21-24`).

The users of the imported realm are `Seeded` with `Grants`; as in
`keycloak/realm-export.json`, one of them may write and not read.

## 3. The runs

All passing runs check for deadlock; `Finished` is the stutter of a system in
which every request has ended.

| run | instance | shows |
|---|---|---|
| `use_item_faults` | 3 requests, 2 units, 2 attempts, 1 reset, 2 lost replies of any call but `INCR`, lost acknowledgements of emits, rejected calls, failed emits, crashes | `LeaseExclusion`, `OnlyOwnerReleases`: the lock does what it promises up to its TTL. `UnitsConserved`, `DistinctUnits`, `UnitsBounded`, `NoOversell`, `LedgerSpec` (refinement): where the units are, without relying on the lock, which may expire at any time. `RedisKafkaGap`: how far units that left Redis and events in Kafka can come apart, either way. `IndInv` is the invariant of the proofs |
| `use_item_liveness` | 2 requests, 5 attempts, TTL of 6 ticks, lost answers of the lock command, crashes, failed emits, fairness | `ContendedByMany`: who gives up had three locks in its way, so that one lock of a dead owner never makes a request fail; `LockAlwaysFreed` |
| `orders_faults` | 2 consumers, 2 partitions, batches of 2, 2 failures of any kind and 2 attempts, rebalances with full buffers, fairness | `CommitsSaved`: no flush commits for an event of its batch that is not a row; `FlushEnds`: nor does one go on for ever, not even with a batch that the table will never take |
| `orders_delivery` | 1 consumer, the deployment's 3 partitions and batches of 3, up to 3 events each, no unique constraint, 3 failures and 4 attempts, lost answers of saves and commits, crashes but between save and commit, fairness | `CommittedIsSaved`, `NoDuplicateOrders`, `SavedIsCommitted`, `NothingLost`: retries and replays neither store an order twice nor lose one nor pass over it; `OnlyTailUnsaved` |
| `orders_database` | 3 requests, 2 units, 2 lost answers of emits, failed emits; 1 consumer, 2 partitions, batches of 2 that mix them, a failure of save or commit | `OrdersBacked`, `OrdersWithinStock`: orders against units; `AnswersOrdered`: counts and offsets of requests that do not overlap; `NothingLost`, `CommittedNeverBack` with the events of the API |
| `bucket_replicas` | 2 replicas, capacity 2, 2 ticks per second, 10 ticks, delays up to a second | `AdmissionBound`, `OverfillBounded`, `ExpiryHarmless` |
| `admin_token` | 2 handlers, lifespan 4, margin 2, 6 ticks, one change of keys, restarts | `CacheHonest`, `LateRefusalOnly`, `OutageBounded` |
| `register_faults` | 3 requests for 2 names (a retry, a shared address, a shared bit), 2 seeded users, every failure; a caller; both providers | `RegisteredOnce`, `RegisteredComplete`, `FilteredExplained`, `FilterBehindKeycloak`, `RolelessExplained`; `RegisteredCanRead`, `NewUsersOnlyRead`, `GrantsDecide` |

A second group of runs ends in a violation of what the repository says of
itself. Section 5 has what they show.

| run | instance | violated |
|---|---|---|
| `use_item_stale_rollback` | 2 requests, a reset, a failed emit | `StockWithinInitial` |
| `use_item_lost_ack` | 2 requests, a lost acknowledgement, a failed emit | `RedisKafkaConsistent` |
| `orders_mixed_replay` | 3 partitions, batches of 3, one crash | `CommittedIsSaved` |
| `register_false_positive` | 3 names that cover a fourth one's bits | `FilterTruthful` |

**Bounds.** Three requests for two units are the smallest instance in which a
unit is contended, a rollback meets another holder and one request goes empty;
a second lost reply lets a resent command meet the state its own first
execution left. Two attempts let a token be replaced by the next one of the
same handler. Batches of two from four events leave a next batch for what
a batch leaves behind, and batches of three from up to nine a tail as well. The latter
is the code's batch size (`order.service.ts:9`), at which a batch of the deployment's
three partitions may have an event of each; instead of five attempts and up to
four failures there are four and three. Two partitions and two consumers are the least that mixes
partitions and moves one.
Two requests in flight at two replicas invert stamps; capacity 2 at one unit per
tick leaves full, partly leaked and empty buckets, and 10 ticks outlast the life
of the key (3 seconds of 2 ticks) with requests before and after. For the lock on a clock, two requests and a
lock that is lost to a crash or to a lost answer are enough to wait for, but the
attempts are all five and the TTL is the real ratio, 300 ms to 50 ms. The
lifespan of 4 and the margin of 2 leave ages before, within and after the
margin, and 6 ticks outlast a token; the real ones are 300 s and 10 s, for
which the theorems hold too. Four events over two partitions in `orders_database`
are two batches, one of them mixed, from three requests and two lost answers.
In `register_faults` a first request and its retry, and one that meets them in
Keycloak by its address and in the filter by a bit, are the least in which all
ways to end a registration occur; a false positive takes a fourth name and is
what `register_false_positive` shows.

**Premises of the passing runs.** What a run leaves out, it leaves out because
the property does not hold with it in the code:

* All of `use_item_faults`: no lost reply of `INCR` (a resent one gives back two
  units). A resent decrement takes a second unit, which `UnitsConserved` and
  `RedisKafkaGap` allow for, one unit for each lost reply (`repeats`).
* `UnitsConserved`, `RedisKafkaGap` speak of states before the first reset, which
  makes the earlier count meaningless. `UnitsConserved` says where every unit is
  and not that each comes back: a request that broke off counts as having its
  own. That such units have no event is in `RedisKafkaGap`, which bounds them by
  the requests that broke off, as nothing in the code brings them back. The plain
  equality, `RedisKafkaConsistent`, is what README.md:69 promises and is violated.
* `DistinctUnits` speaks of states in which nothing was rolled back or reset:
  both put back a number, not a particular unit.
* `OrdersBacked`, `OrdersWithinStock` count lost answers of emits (`repeats`): an
  event that was stored and whose answer was lost may be sent again, or be taken
  for failed, whereupon the unit goes back and the order remains.
* `use_item_liveness` leaves rejected Redis calls and further lost answers to
  `use_item_faults`: they end a request earlier.
* `orders_faults`: nothing that a crash, a rebalance or a batch given up may
  break, which is all but `TypeOK`, `CommitsSaved` and `FlushEnds`. Each commit is
  honest about its own batch; what it may pass over is outside of the batch.
* `orders_delivery`: no crash between a save and its commit (`crashUnsaved`; with
  it, `orders_mixed_replay`), failures fewer than attempts, no rebalance while
  events are buffered, a group that has committed before (`EverCommitted`). Each
  is needed, see section 5. The table has no constraint, so that nothing but the
  consumer keeps an order from being stored twice.
* `orders_database`: one consumer that does not die, fewer failures than attempts.
* `AdmissionBound`: no script waits longer than a second, which nothing in the
  code enforces (section 5). `ExpiryHarmless` is about requests stamped within the
  last second, for the same reason; longer delays are the theorem's.

**Fairness.** `UseItemTimed`: weak fairness of each handler's next step, as Node runs
every settled continuation and timer and the clients settle every call, and of
the expiry, as Redis expires keys by itself; time goes by; failures are never
obliged to happen. `OrderConsumer`: weak fairness of each
flush, each delivery, each restart (`docker-compose.yml`: `restart: on-failure`)
and of pending rebalances. Nothing else is assumed; in particular no lock
acquisition is fair.

## 4. The proofs

For any finite set of requests, any stock, any bounds on attempts, resets and
lost replies, and any set of failures.

*UseItem.* `TypeOK` is inductive. `IndInv` adds `LeaseHeld` (a handler about to
decrement has the lock or its token expired), without which `LeaseExclusion` is
not inductive, and `CountKnown` (what a handler knows of the count at each point
of its code), which decides who holds a unit. `LeaseExclusionHolds` follows as
two handlers cannot both own one lock; `OnlyOwnerReleasesHolds` is an action
property of the same invariant.

*The units.* Each step is classified as `Takes`, `Returns`, `Loses`, `Restocks`
or `Keeps` (`StepMoves`), and `KeyThere`, a unit is held only when the key
exists, makes `INCR` add one. From these follow

* `ImplementsInventory`: the detailed specification implements `Inventory`, with
  resets, unless replies of `INCR` are lost;
* `UnitsBoundedHolds`, `NoOversellHolds`: under the same assumption, with
  `(resets + 1) * InitialStock` as the supply;
* `UnitsConservedHolds`, `RedisKafkaGapHolds`: under the same assumption,
  whatever else fails. Until a reset (`OnlyDown`), units that nobody has are at most as many as
  lost replies of decrements, events without a "used" at most as
  many as lost acknowledgements (`UnconfirmedCounted`), and at the end every
  holder was told "used" and has its event, or broke off (`OutcomesKnown`). The
  lost answers of both kinds together are `repeats`.

`DistinctUnitsHolds` is about the counts the decrements return. Two handlers may
decrement at the same time, so it is not the lock that keeps them apart: as long
as nothing was rolled back, the stock is at most any count it returned
(`CountsAboveStock`), and the next one is below. It needs that no reply of
`INCR` is lost; that of the decrement may be, at the price of a unit that nobody
has.

*The lock on a clock.* `TimedImplementsUseItem` says that the timed specification
is a refinement, so that whatever is proved of `UseItem` holds with time.
`ContendedByManyHolds` takes at least five attempts and a TTL of at most six first
back-offs, which is what `product.controller.ts` has (5 attempts, 300 ms, 50 ms).
Its invariant `TimedInv` relates, for each handler that waits, how often it found
the lock taken (`Tries`), how many locks those were (`Met`) and, if the one it
found last is still there, what is left of its TTL against the handler's sleep
(`Outlasting`): the sleeps of three attempts, 1 + 2 + 4 ticks, outlast a TTL of 6,
and so do the 8 of the fourth. The bound is the last one: with a TTL of 7 TLC
refutes `ContendedByMany` on the instance of the run.

*Registration.* The invariant `FilterInv` says that a handler past its POST is in
`created`, that only such handlers add bits, that their names are users and that
no two are for the same name. `Complete` adds that whoever assigned the role made
its user a reader and whoever set the last bit set them all, `Explained` that a
user is seeded or some request's, past its POST; `RegisteredCompleteHolds` and
`RolelessExplainedHolds` are read off them. `RegisteredOnceHolds`, `FilterBehindKeycloakHolds`,
`FilteredExplainedHolds` and `RegistrationTypeCorrect` follow, for any hashes and
any size of the filter. `PositionsDistinct`: with an odd step, a size that is a
multiple of eight (1,000,000 is) and at most eight hashes (there are 7), the
positions of a name differ, so that no name is represented by fewer bits than
the false-positive rate reckons with. The odd step does not visit all slots, as
`bloom-filter.service.ts:55` has it (a multiple of 5 does not), and need not.

*Access.* For any clients, realm, providers and failures. `RegistrationInv` is
what `RegistrationProofs` keeps (`FilterInv`, `Complete`, `Explained`,
`FilteredExplained`) and `NotSeeded`, no request created a seeded user;
`RegistrationKeeps` takes it through the composition. `SessionInv` says that
tokens are honest about what was granted, that those of registered users grant
nothing but reading, and that a call at its handler was admitted by the token it
came with, which is what makes `GrantsDecide` inductive across the guards' and
the handler's steps. From the two follow `RegisteredOnceInAccess`, `AnswersCompleteInAccess`,
`RegisteredCanReadHolds`, `NewUsersOnlyReadHolds`, `GrantsDecideHolds`.

*AdminToken.* For any lifespan and margin. The invariant relates each handler's
`now` to the age of its token: a token from the cache had the margin left at
`now`, a fetched one was signed at `now` or later. With `CacheHonest` this gives
`LateRefusalOnlyHolds`; that a cached token of old keys was signed before they
were changed gives `OutageBoundedHolds`.

*LeakyBucket.* For any capacity, rate, resolution, number of replicas and delays.
The invariant says of every level that what is above the capacity has leaked off
again between the stamp stored with it and the time it was stored (`LevelInv`).
`OverfillBoundedHolds` and `ExpiryHarmlessHolds` follow without a premise on the
delays: by the time a key expires, the time to live has passed since it was
stored, and that is a second more than the full bucket takes to leak empty.
`AdmissionBoundHolds` assumes delays of at most that second: what was let through
since `mark` is then covered by the level and by what may have leaked up to the
bucket's last stamp (`CountInv`), and the loss of the key takes nothing from it.

*OrderConsumer.* For any members, partitions, batch size, attempts and failures,
with rebalances at any time and with or without the unique constraint. The
invariant `Inv` adds to the types `BatchFull`, a flush has a full batch and a
process without one has room, so that the batch of a retry is the batch of the
first attempt; and `IdsAreRows`, entities with ids are rows of the table and
nothing is committed before they are. `TypeCorrect` (a buffer never outgrows a
batch) and `CommitsSavedHolds` follow. The latter is what is left of
`CommittedIsSaved` when batches may be given up.

*OrderConsumer, what is delivered.* `PublishedOnlyHolds` has no premise: whatever
crashes, is replayed or moves between members, nothing is buffered, saved or
committed beyond the log. That nothing is lost, that no order is stored twice,
that a commit never passes over an event that is not saved, and that commits
never go back, hold in the code only where a batch that is delivered again meets
all of its rows or none. Two cases are proved, each for any batch size, attempts
and number of events, and both with one consumer (`LoneConsumer`: nothing but the
crashes themselves interrupts its buffer, and the failures of a behaviour, all
flushes together, are fewer than one flush has attempts):

* no crash comes between a save and its commit (`UnsplitFlushes`; the theorems
  `...Unsplit`, the case of the run `orders_delivery`), over any partitions, with or
  without the unique constraint. The invariant `Steady` says that what was
  delivered is a row, in the buffer or fetched again, and that what is a row is
  committed or in the batch in hand (`Accounted`); that offsets come once and in
  order (`InOrder`); that before the first save that the database executed none of
  the batch's rows is there and each attempt cost a failure (`BatchUnsaved`), which
  is why `SaveRejected` and `GiveUp` cannot occur; and that what a member has
  fetched since the last commit is in its buffer (`Gapless`, for a group that
  resumes from offsets it committed). `NoDuplicateOrders` is one of its conjuncts:
  without the constraint nothing but these keeps a row from being inserted again;
* it crashes anywhere, with one partition whose offsets the group commits from the
  start (`...OnePartition`; TLC agrees on `OrdersDelivery.cfg` with one partition of seven events, the
  constraint and "crash" for "crashUnsaved"). The invariant
  `BatchByBatch` says that the rows, the committed offset and the first event of
  the buffer are at multiples of the batch size: `AtBatch`, the batch in hand is
  one of those that are saved, or the first that is not, so that it is in the
  table as a whole or not at all.

Without these premises the properties are false in the code, so that they are no
convenience of the proofs: `orders_mixed_replay` and the variations of section 5,
all with one process, drop them one at a time.

*OrderPipeline.* `PipelineImplementsApi` and `PipelineImplementsOrders` say that the
composition refines each of its parts: a step of one is a step or a stutter of
the other, and `Publish` is one of both. What is proved of the parts is therefore
taken over without being proved again (`ComponentInvariance`), the theorems being
instantiated with the pipeline's constants, of which `ApiAssumption` and
`OrdersAssumption` say what the parts assume. New are the facts about the topic:

* `OriginsKnown`: each event in the log has a request, and that request published
  it. With `PublishedOnly`, the order of a row has one (`OrderOrigin`);
* `OrdersBackedHolds`, without a premise: the requests whose event is in the topic
  and that were not told so (`Unconfirmed`) are at most as many as answers were
  lost, and a request that published and keeps no unit is one of them;
* `OrdersWithinStockHolds`: the events are at most as many as the requests that
  were told "used" and the lost answers (`EventsCounted`); the former have units,
  and `UnitsBoundedHolds` counts those. Hence without resets and lost replies of
  `INCR`;
* `AnswersOrderedHolds`: those whom a request remembers are done sending, so that
  its events come after theirs, and have counts that the stock has gone below
  (`NewCountIsLess`); under the same two premises, which only the counts need;
* `NothingLostHolds`, `CommittedNeverBackHolds`: under the premises of the
  `...Unsplit` theorems, which they instantiate.

*What stays with TLC.* Every invariant and every action property of a passing run
is stated by a theorem, under the premises above. The liveness properties
(`LockAlwaysFreed`, `FlushEnds`, `OnlyTailUnsaved`) are model-checked only, as
temporal proofs under fairness and ENABLED are out of the prover's reach; and what
is violated (section 5) is a matter of TLC's traces.

## 5. What the code does differently from what it says

* `use_item_stale_rollback`: a rollback increments what a reset has meanwhile
  set, and the stock is above `INITIAL_STOCK` (`product.controller.ts:88`, `:116`).
* `use_item_lost_ack`: the broker stores an event, its answer is lost for good and
  `emit` rejects; the unit is given back while the event stays, and the consumer
  saves an order that no unit stands for. README.md:69 says "keeping Redis and
  Kafka consistent", `product.controller.ts:88` "so inventory stays consistent".
  `RedisKafkaGap`, `OrdersBacked` and `OrdersWithinStock` bound what comes of it.
* `orders_mixed_replay`: a crash between save and commit. With three partitions
  the saved events come back mixed with new ones in another batch; one row that
  is already there makes the constraint reject the whole batch on each attempt,
  the batch is given up, and the next commit passes over the new ones. README.md:64
  and `:66` promise at-least-once delivery and a safe replay "when a
  partially-saved batch is replayed"; the comment at `order.service.ts:82` says
  that Kafka delivers a batch that was given up again.
* `register_false_positive`: a false positive of the filter is a 409 without a
  call to Keycloak; the comments at `auth.controller.ts:54` and
  `bloom-filter.service.ts:22` say that Keycloak decides.

Further disagreements are seen with variations of these configurations; TLC
finds each violated with just the constants and the property given:

* `OrdersMixedReplay.cfg` with `UniqueConstraint = FALSE`, `NoDuplicateOrders`:
  where `synchronize` is off (`app.module.ts:31`, `docker-compose.yml:250`) the
  table has no constraint, and the same crash stores orders twice, which
  README.md:30 and `:66` exclude.
* `OrdersMixedReplay.cfg` with `Faults = {"dbDown"}`, `MaxFaults = 2`: a batch that
  the database refused as often as there are attempts is given up, and the next
  commit passes over it.
* `OrdersMixedReplay.cfg` with `Faults = {"rebalance"}`: the buffer survives a
  rebalance (`order.service.ts:29`), the events in it are delivered again, and the
  batch that has one of them twice can never be saved; the next commit passes over
  it (README.md:64: "committed manually only after `repo.save()` succeeds").
* `OrdersMixedReplay.cfg` with `EverCommitted = FALSE`, `NothingLost`: without a
  first commit and without `fromBeginning` (`main.ts:20`) a restart begins at the
  end of the log; README.md:29 says "crash before save → Kafka replays".
* `BucketReplicas.cfg` with `MaxDelay = 6`, `MaxClock = 8`, `AdmissionBound`:
  scripts that wait for as long as the key lives (the client queues them while its
  connection is down, `redis.service.ts:68`) find no key, and the first of them
  starts an empty bucket at its old stamp. With capacity 2 and one unit per tick
  six requests get through in six ticks, where five are allowed. README.md:61
  says "no race conditions across replicas".
* `UseItemLostAck.cfg` with `Faults = {"kafkaError", "redisError"}` and
  `LossyCalls = {}`, `RedisKafkaConsistent`: a request whose release or rollback is
  rejected ends with a 500, and its unit is gone without an event
  (`product.controller.ts:70`, `:89`).

## 6. Not modelled

`init.py` runs once, step by step; what its POST does to a client's secret is
Keycloak's affair and not told by the repository, and no component reads its
state but through a token that can be refused, which `AdminToken` has. Logging,
correlation ids, deployment and validation of bodies carry no state an operation
depends on. Of the deployment the models use that there are several replicas,
that processes are restarted, and that the topic has three partitions
(`docker-compose.yml:90`, `k8s/kafka.yaml:111`,
`terraform/modules/eventhubs/main.tf:20`): `orders_delivery` and
`orders_mixed_replay` have three, `orders_faults` and `orders_database` two, to
stay checkable with more consumers or with the API. `test-use-item.mjs`,
`test-rate-limiter.mjs` and `test-benchmark.mjs` are clients, and what they call (routes without a token, routes that are gone)
is not what the controllers serve. Payloads of events are left out but for whose
they are: an order is its partition and offset. The base hashes are constants,
as are the signatures of tokens. `PositionsDistinct` is arithmetic about the
filter's positions and no property of behaviours.

## 7. The plan

Order of work: first the lock and the units (`UseItem`, `Inventory`), then what
becomes of the events (`OrderConsumer`), then the two other users of Redis
(`LeakyBucket`, `Registration`); then the compositions and clocks (`OrderPipeline`,
`UseItemTimed`, `AdminToken`, `Access`), with proofs after each. Ahead:

1. An abstract specification of at-least-once delivery for `OrderConsumer`, which
   `Steady` and `BatchByBatch` are the invariants for.
2. A batch size of one, for which a crash between save and commit may be harmless
   with any number of partitions: a replayed batch is then always a whole one.
3. Clocks of replicas that differ, in `LeakyBucket` and `AdminToken`.
4. The 32-bit arithmetic of FNV-1a and DJB2.
