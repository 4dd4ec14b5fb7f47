# A TLA+ model of kc

`kc` is a Go toolkit for services: durable delivery of messages and compensation
tasks, message queue consumers, id generation, service discovery, caching and the
plumbing around them.  This directory models the parts of it that are hard to test,
checks them with TLC on small instances and proves their safety with TLAPS: for the
outbox and compensator tables and runtimes, the two id generators, the Redis stream
consumer and the classic Kafka consumer group, for every value of the constants.

1. [Inventory](#1-inventory)
2. [Modules](#2-modules)
3. [Runs, bounds and fairness](#3-runs-bounds-and-fairness)
4. [Proofs](#4-proofs)
5. [Seen while modelling](#5-seen-while-modelling)
6. [What is not modelled](#6-what-is-not-modelled)
7. [Plan](#7-plan)

## 1. Inventory

| part | state it keeps | operations | what is hard about it |
|---|---|---|---|
| `pkg/outbox` table | messages: status, attempts, next_attempt_at, lease token and time | insert, claimIDs, claimShard, finish, retry, cleanup | executors that die or stall between claim and finish; leases against the handler's deadline; one token for a batch |
| `pkg/outbox` shards | nodes and shards tables, cached leases per process | coordinate (two transactions), lockShard, release | membership changes between the two transactions, crashed owners, a heartbeat racing Close |
| `pkg/outbox` runtime | slots, jobs, wake, operations and background wait groups | scan loop, workers, coordinate loop, Publish/Dispatch, ScanOnce, Retry, Close | slot accounting on every path, wake-ups that get lost, shutdown order |
| `pkg/outbox` and `pkg/compensator` Tx | ids or tasks of one business transaction, its sticky error, closed flag | Transaction, Publish, Enqueue, EnqueueTx, Tx.Add, AddTx | ignored errors, goroutines that outlive the callback, Close half way through, a commit whose answer is lost |
| `pkg/compensator` | tasks table; slots, jobs, wake, backlog; handler registry | Add, claim, finish, abandon, retry, cleanup, RegisterAll, Close | as outbox, plus hand-back of tasks on Close and the backlog flag |
| `internal/mqruntime` | operations, tracked subscriptions, poll and work contexts | Begin, Track, Close, Stop, Finish | Close against a Subscribe between Begin and Track; graceful and forced ends |
| `pkg/infra` kafka, classic group | partition workers, queues, slots, marked offsets | Consume, assign, revoke, lose, shutdown, runSession | offset order, rebalances against running handlers |
| `pkg/infra` kafka, share group | records under a broker lock | accept, release, reject, dead letter | the lock's deadline against handler, delay and dead letter; the broker's delivery limit; records the client accepts by itself when it polls again |
| `pkg/infra` redis stream | pending entries, in-flight set, acknowledgement queue, reclaim cursor | poll, reclaim, handle, ack, dead letter, cleanup | entries claimed by others, or by the own reclaim loop, while in work; a full queue; order of shutdown; a group that is lost |
| `pkg/idgen/segment` | one row per tag; current and next segment, loader | Init, GetID, loadNext, Close | uniqueness across processes, waiters and loader errors |
| `pkg/idgen/snowflake` | worker leases; node: last time, sequence | New, Generate, heartbeatLoop, recoverLease, Close | clocks, lost leases, ids of former holders |
| `pkg/registry/etcd` | lease, instances by revision; balancer with ejection states | Register, Resolve, watch, forceRefresh, pick, Report | snapshots and events of different revisions, eviction against Resolve, Register against Close; reports and picks between the stores of one another |
| `pkg/idempotency` | keys table | Execute | handler and key in one transaction |
| `pkg/cache` | local entries, invalidation channel | Get, Set, Delete, handleInvalidation | stale fill, lost invalidations |
| `pkg/resource` | named resources and constructions under way | Set, GetOrCreate, Shutdown | shutdown against a construction in flight |
| `pkg/infra` connectors, `pkg/etcdclient`, `pkg/sqlxhelper`, `pkg/mq` | configuration | open, close | little state |
| `pkg/auth`, `pkg/client`, `pkg/server`, `pkg/sqlxgen`, `internal/sqlxgen`, `cmd/sqlxgen` | none to speak of | token checks, transports, code generation | pure functions and I/O |

The parts interact through the database tables (outbox, compensator, id
generators: several processes, one table), through channels inside a process
(runtimes) and through brokers (message queues).  What makes each part correct is
stated as the properties of its module; the hazards behind them are listed, line by
line, in `PROJECT.json`.

## 2. Modules

| module | models | one action is |
|---|---|---|
| `DeliveryLedger` | what a durable delivery queue promises: an item is granted at most Budget times and settled only by the report of its current holder | an abstract step |
| `OutboxStore` | the message table and the execution of a claimed task | one SQL transaction, or one step of `execute`/`invoke` |
| `OutboxStoreProofs`, `OutboxRuntimeProofs`, `CompensatorStoreProofs`, `CompensatorRuntimeProofs`, `SegmentProofs`, `SnowflakeProofs`, `RedisStreamProofs`, `KafkaGroupProofs` | the theorems about the module of the same name (4) | |
| `OutboxShards` | shard ownership among nodes | one transaction of `coordinate`, `release`, or a step of the caller |
| `OutboxRuntime` | the goroutines of one `Outbox` | one channel or mutex operation |
| `CompensatorStore` | the task table, and what Close does to executions under way | one SQL statement, or one step of `execute` |
| `CompensatorRuntime` | the goroutines of one `Compensator` | one channel, flag or mutex operation |
| `Segment` | generators of several processes over one row | one statement, or one critical section of `nextID` |
| `Snowflake` | generators of several processes over the worker table | one transaction, or one step between two reads of shared state |
| `MQLifecycle` | `internal/mqruntime`: operations, one subscription per client, Close | one critical section; extended by the next two |
| `RedisStream` | consumers of one stream and group, and what Redis keeps of them | one command, one channel operation |
| `KafkaShare` | share consumers of several clients, and the broker's side of their records | one poll, one step of a record's goroutine, one acknowledgement |
| `Registry` | the cache of one service, its watch, callers of Resolve, one own registration, etcd's history | one request or answer, one critical section |
| `Balancer` | instance states of one service under picks, reports and topology changes | one atomic operation, or a critical section of the topology |
| `KafkaGroup` | members of one classic consumer group, their workers and callbacks | one critical section, one call of the client, one wait that ends |

`MCxyz` modules hold the model values and definitions of the configurations, no more.
`OutboxStore` and `CompensatorStore` both implement `DeliveryLedger`, by
`INSTANCE` with a refinement mapping (status to item state, attempts to grants, token
to holder), checked as the property `ImplementsLedger`.

How code becomes state:

* **Time.**  A time that comes from the database clock and is only compared with that
  clock is kept as a countdown (`lease_until > now` is `lease > 0`), which makes the
  state space finite without a clock variable.  The *lag* of a statement is how old its
  `now()` is when it commits, at most OperationTimeout.  `Snowflake` compares clocks of
  different machines and therefore has them: `now`, the database's, and one offset per
  process, from `-MaxBehind` to `MaxSkew`, which a `ClockSteps` sets back.
* **Tokens** are drawn from a counter, since `rand.Text()` never repeats.
* **Lost answers.**  A statement whose answer is lost took effect or did not; the model
  has both (`Lose`, `FetchFails`, `AllocateFails`, `Commit`, `AnswerLost` ...).
* **Crashes** remove a process with everything it had in memory; a restarted process is
  a new one.  What is in the table stays.
* **Data** (payloads, headers, error texts, message types) is left out; a record is its
  offset, a message its id.
* **History variables** (`reports`, `calls`, `issued`, `settled`, and `start` and `orphan` of
  `KafkaGroup`) are marked as such and
  never read by a guard, except where a bound needs them.

Definitions that say *Faulty* in their comment are never part of a specification: they
are the plausible bugs that `PROJECT.json` substitutes, one for each property, to show
that the property would notice.

Choices worth knowing:

* `OutboxStore.Claimable` serves both claims; `claimShard`'s order and LIMIT become a free
  choice of the claimed set.  `claimIDs` may skip rows another transaction has locked:
  free choice too.
* `OutboxShards` merges `coordinateMu` into the step variable: one refresh at a time per node.
* `KafkaGroup`'s broker gives a free partition to any member, one partition at a time.
  The `notify` channel of a worker is the condition it announces (the queue is not
  empty).  The two deadlines of `stopWorkers` may pass at any moment.
  The broker, producers, the client's marks and its background commit are external.
  A client begins with a partition at the committed offset and, while nothing is committed,
  where its subscription asks to begin (`kafka.go:1062`, `1249`): at the first record (members
  of `Earliest`) or, by default, behind the last one, wherever that is by then (`StartOf`).
  Producers append to the log (`Publish`), which holds `Backlog` records when the group is new.
  `start` remembers the highest position at which a worker began while nothing was committed;
  what lies below is not the group's to deliver, and the properties leave it out.
  `orphan` marks the workers `shutdown` was waiting for when a callback gave their partition
  up; they are exempt from exclusive work and increasing commits (5).
* `OutboxRuntime` and `CompensatorRuntime` have the business transactions: `Transaction` up
  to the commit and, in the outbox, the dispatch behind it.  The outbox inserts in `Enqueue`
  and passes `begin` once more for it, so Close may refuse an Enqueue half way through;
  the compensator collects and inserts before the commit.  `Get`, `Retry`, and `EnqueueTx`
  or `AddTx` in a transaction of the caller's own, are operations Close waits for.
* `RedisStream` leaves time out: a pending entry may become idle at any moment.  Redis'
  delivery count counts claims, not handler runs, and stays at MaxDeliveryAttempts.
  Trimming by MaxLen is left out, and `FromStart` is TRUE in the run and a hypothesis of
  `NoEntryLost`: with a group that starts at `$` a group that is lost skips what was published
  before it is created again.
* `KafkaShare` cuts the time of a record's lock into the four phases the code tells apart.
  The client's own behaviour (acknowledgements in the background, what a poll accepts) is
  external and taken from how the code guards against it.
* `Registry` keeps etcd's history as a sequence of contents, so that a revision is an
  index.  A scenario's `lead` allows response headers that run ahead of their events.
  Whether all instances are ejected is a free choice: that is `Balancer`'s matter.  A value
  that cannot be decoded is skipped by the watch, which keeps the former instance, and
  dropped by a load; the properties leave such instances out.
* `Balancer` makes the scan of `pick`, which reads under the read lock, one step; everything
  after it is one step per atomic operation.  Latencies are left out: either of the best
  two candidates may be preferred.  `complete` with a nil result is not reachable from
  the package's own callers and is left out.
* **Scenarios.**  `OutboxRuntime`, `RedisStream`, `KafkaShare`, `Registry` and `Balancer` take a set of scenarios
  (which clients run, crash, stop; how many entries, changes, faults), chosen in Init.  A
  run covers several small instances that way, where their product would be out of reach.
* `Segment` has one tag: tags share nothing but Close.
* `Snowflake` has one generator per process at a time, with any number of calls of `Generate`
  at once: a call is the time since it looked at the heartbeat, and two of the same age
  are one element of `calls`, which a step may keep.  A call reads the clock at most MaxPause after
  that look (its wait for the node's mutex and for a millisecond included), and an
  answer arrives at most MaxAnswer after its effect.  The code bounds neither, so both are
  assumptions about the host and the database.

## 3. Runs, bounds and fairness

| run | instance | shows |
|---|---|---|
| `outbox_store` | one message, 2 attempts, lease 3, handler 2, lag up to 1, 6 claims, one operator retry | a live callback holds its lease; at most MaxAttempts callbacks per budget; refinement of the ledger; every message is settled |
| `outbox_shards` | 2 nodes, 3 shards, lease 3, one failure (before a commit, or the answer of one lost), one ScanOnce | a closed node owns nothing; ownership ends balanced and stays so |
| `outbox_runtime` | 2 workers, scan loop, Close, 2 scenarios: a Dispatch beside a ScanOnce; a Transaction with one message, and short operations | release only after the drain; a starved scan is woken; a transaction is committed whole, or not at all; Close completes |
| `comp_store` | one task, two nodes of which one may close or die, 2 attempts, 4 claims | as `outbox_store`, and Close hands unfinished tasks back without a charge |
| `comp_runtime` | 2 workers, batches of 2, a caller, Close | as `outbox_runtime`, with the backlog flag |
| `segment` | 2 processes, 3 goroutines, ids up to 3 (the "int64" end is reached), one lost answer | ids are unique and increase; every call returns; Close returns with no preload left |
| `snowflake` | 2 processes, one worker id, one sequence number per millisecond, clocks one unit ahead, one clock step, one failure, `WorkerTimeout` at its margin | ids are unique within the margin |
| `kafka_group` | 2 members, one of which asks for the earliest start; one partition with 2 of its 3 records there from the beginning, one of them may fail; one slot, one move (revocation, eviction, lost client or stop), and one more that meets a shutdown | committed records are settled unless they lie below a start; offsets never go back and hand-over is exclusive, but for workers a shutdown waits for; records are settled; Stop completes |
| `kafka_share` | 5 scenarios: 2 records until their deliveries are used up, a crash beside a client that stays, a stop under load, a stop or Close while publishing, 4 records on consumers of 2 and 1 slots | an accepted record was handled, a rejected one has its dead letter; the broker archives an unhandled record only after faults in all deliveries from the last attempt on; every record is settled |
| `redis_stream` | 4 scenarios: an entry that moves between two consumers, one of which may crash; two entries (one undecodable) and a queue of one; the same with a stop; Publish against Stop and Close | no delivered entry is dropped; an entry is in exactly one place of a consumer if it is in flight, and in none if it is not; the subscription ends after its results are handed over; every entry is settled; Close completes |
| `registry` | 4 scenarios: one cache against a peer and the own registration, with headers level with and ahead of their events; 2 callers, eviction and Close; Register against Close with 2 faults | a cache is what etcd held at one revision; it catches up; Resolve returns; Close leaves no watch, no lease kept alive and no instance behind |
| `balancer` | 3 scenarios: 3 callers on one instance, 2 callers on two, one caller while snapshots, puts and removals change the topology | no instance stays half open when nobody probes it; an endpoint is ejected by its own failures only |

Distinct states: `snowflake` 2.97 million and `balancer` 1.76 million (processes and callers
are symmetric), `outbox_shards` 371
thousand, `outbox_runtime` 348 thousand, `redis_stream` 117 thousand, `registry` 113 thousand, `kafka_group` 112
thousand, `comp_runtime` 76 thousand,
`segment` 57 thousand, `kafka_share` 39 thousand.  `outbox_runtime` and `redis_stream` take
about three minutes each with two workers.

Stated in the modules and not in a run: `TypeOK` of every module; `SlotsAccounted` of both
runtimes and of `KafkaGroup`, `CompensatorStore.DeliveryBudget`, and `BarrierCoversFormerIDs`,
`FreshIDs` and `NeverTwice` of `Snowflake`, which are proved (4); because
another property covers them, `InflightExact` and `PickableIsCurrent` of `Balancer`, `KafkaShare.CloseCompletes`; and the properties of
section 5, which fail.

**Why the bounds are enough to be interesting.**  A takeover needs two claims of one
message, a spent budget three; six claims allow a takeover, a give-up and a second round
after the operator's retry.  Two nodes and three shards make the shares uneven and every
hand-over possible.  Two workers with batches of two make full, short and empty batches
occur.  A public call may be a transaction with an Enqueue (which counts as a call), so
two calls let a transaction with its dispatch, or a Dispatch beside a ScanOnce, meet Close.
Three goroutines on two generators let two callers of one process meet a preload
while another process takes segments.  Two ids, of one lease or of two, let a sequence be
used up and a barrier be met exactly; longer sequences are for the proofs (4).  A partition of three records with BatchSize 1 is paused
at two and resumed; one move covers each kind of hand-over, `MaxLate` adds
the rebalance, or the loss of the membership, that reaches a runner which is shutting down, and
two workers are what one hand-over needs; other combinations of two moves
are beyond the five minutes this project allows a run.  One member of each kind of start offset,
a backlog and a record that is published later let a partition be begun at 0, 2 and 3 before
anything is committed.  With MaxDeliveryAttempts 2 and a broker limit of 3 a share record has one
attempt to spare for its dead letter, and two faults take even that.  A Redis queue of one
and two entries make the loops wait in `enqueue`; one idle entry and two consumers are a
takeover under a running handler.  Two caches let an evicted one and its successor live
side by side.  A threshold of two failures lets reports of old requests mix with the
probe's.

**Deadlock** is checked in the store and shard runs, whose systems never stop.  The
others end: Close, a bounded number of calls, or all records settled.

**Fairness** is weak fairness of what the code's own goroutines do once enabled:
loops, workers, heartbeats, statements that do not fail for ever, calls that wait for a lost
answer and give up, and time.  No fairness
is assumed of crashes, operator retries, rebalances, Close, cleanup or failures, and all
failures are bounded by a named constant, so that liveness is stated for a database that
answers again in the end.  `EventuallySettled` of `comp_store` assumes one node that
stays up (`Steady`).  Handlers return, because `HandlerTimeout` ends their context; that a
handler ignores its context for ever is not assumed away in safety properties.  In
`KafkaGroup` a dead letter topic that is up takes a record in the end (strong fairness of
`DeadLetter`, since attempts may fail in between).  In `RedisStream` a pending entry becomes
idle in the end, and in `RedisStream` and `KafkaShare` a client that may not stop or crash
subscribes: without one consumer nothing is settled.  In `Registry` a lease that nobody keeps
alive expires.  The runs of `Snowflake` and `Balancer` check safety and have no fairness.

## 4. Proofs

Every theorem is about `Spec`, without fairness, for all values of the constants that meet the
named assumptions of the module, and for any value of the bounds (calls, claims, faults):
the bounds only cut behaviours off.  Each module has one inductive invariant `IInv`, one lemma per
action that it is preserved (`...Inv`) with one step per conjunct the action can disturb, and a
lemma `NextInv` that collects them (`SnowflakeProofs` turns it round: one lemma per conjunct, `Step...`,
over what the actions have in common).  TLC checked each `IInv` as an invariant of the module's
run before it was proved.  No property below is inductive by itself; what `IInv` adds to it is the
argument why the code is right.

| module | theorem | statement |
|---|---|---|
| `OutboxStoreProofs` | `TypeCorrect` | `Spec => []TypeOK`; likewise in every other proof module |
| | `ExclusiveDelivery` | `Spec => []LiveHandlerHoldsLease` |
| | `BudgetKept` | `Spec => []DeliveryBudget` |
| | `NothingDropped` | `Spec => []NeverDroppedUnhandled`: only a message that was handled in time is completed or removed |
| | `Fencing` | `Spec => OnlyHolderSettles`: an executor whose lease was taken over changes no row |
| | `Refinement` | `Spec => ImplementsLedger` |
| `CompensatorStoreProofs` | `ExclusiveExecution` | `WideLease` assumed: `Spec => []LiveHandlerHoldsLease` |
| | `ClosedHoldsNothing` | `Spec => []CloseHandsBack` |
| | `BudgetKept` | `Spec => []DeliveryBudget`, although abandoned attempts are given back |
| | `Refinement` | `Spec => ImplementsLedger` |
| `OutboxRuntimeProofs` | `NoSlotLeaks` | `Spec => []SlotsAccounted` |
| | `ReleasesDrained` | `Spec => []ReleaseAfterDrain` |
| | `StarvedIsWoken` | `Spec => []StarvedScanIsWoken` |
| | `TransactionsWhole` | `Spec => []TransactionIsWhole` |
| `CompensatorRuntimeProofs` | `NoSlotLeaks`, `StarvedIsWoken`, `TransactionsWhole` | as above |
| `SegmentProofs` | `IDsUnique` | `Spec => []UniqueIDs` |
| | `IDsIncrease` | `Spec => []IncreasingIDs` |
| `SnowflakeProofs` | `IDsAreUnique` | `WideMargin` assumed: `Spec => []UniqueIDs` |
| | `LeasesInOrder` | `WideMargin` assumed: `Spec => []IInv` |
| | `BarrierCovered` | `WideMargin` assumed: `Spec => []BarrierCoversFormerIDs` |
| | `IDsAreNeverReused` | `WideMargin` assumed: `Spec => NeverTwice`: nobody hands out the id of an earlier call |
| | `IDsAreFresh` | `Spec => FreshIDs`: no lease hands out an id twice, wherever its clock is set to |
| `RedisStreamProofs` | `NoEntryLost` | `FromStart` assumed: `Spec => []NothingLost` |
| | `HeldOnce` | `Spec => []InFlightIsHeld` |
| | `ReleasesDrained` | `Spec => []ReleaseAfterDrain` |
| `KafkaGroupProofs` | `NothingLost` | `Spec => []CommittedIsSettled`: all below a commit is settled, or below a start without commit |
| | `NothingLostFromEarliest` | `Earliest = Members` assumed: all below a commit is settled, always |
| | `SlotsExact` | `Spec => []SlotsAccounted` |
| | `OneAtATime` | `Spec => []OneWorkerPerPartition`, which excepts what a callback gives up during a shutdown |
| | `NoCommitBack` | `Spec => CommitsAdvance`, likewise |

**The tables.**  The outbox's assumptions are those `resolveConfig` enforces: positive durations,
`RetryMin <= RetryMax`, and `TaskLease - HandlerTimeout >= OperationTimeout`
(`pkg/outbox/types.go`), which `ExclusiveDelivery` needs.  The compensator's `resolveConfig` only asks
for a lease longer than HandlerTimeout, so there the same margin is a hypothesis of
`ExclusiveExecution` (`WideLease`), with workers that start what they claimed at once; without
it the property fails (5).  In both, `IInv` adds:

* `TokensDrawn`: tokens of rows and tasks were drawn, so the next one is new;
* `RowsConsistent`: a row is processing exactly if it has a token, and the attempts it
  counts do not exceed the budget;
* `ReturnedReported`: a task that has returned has its report in the history;
* `LeaseCovers`: for a task that still has its row's token, what is left of the handler's
  time (before the start: HandlerTimeout plus what is left of the claim's lag) does not
  exceed what is left of the lease;
* `AttemptsNumbered`: the callbacks of this epoch carry different attempt numbers
  between 1 and the row's count, from which `DeliveryBudget` follows by counting.  In the
  compensator `abandon` gives an attempt back, so the tasks in hand have to be numbered too;
* `NeverDroppedUnhandled` itself (outbox); `LeasesAccounted` (compensator): a row leased to a node
  that did not die is in the hands of one of the node's tasks, or its hand-back was lost.

`LedgerSubmit`, `LedgerGrant`, `LedgerSettle`, `LedgerRequeue`, `LedgerForget` and
`LedgerStutter` map each action of `OutboxStore` to a ledger step, and their counterparts those of
`CompensatorStore`.  Batches of several messages under one token and executors that stall between claim
and start (`PromptStart = FALSE`) are beyond the runs' instances: there the proofs are the evidence.

**The runtimes**, for any finite set of workers and callers.  `IInv` is `SlotsAccounted` (the
occupancy of the slots channel is the sum of what is reserved, queued and in execution) with the
local facts that keep the sum exact: at which step a reservation or a batch may be in hand
(`ReserversOK`, `ScanConsistent`), the order in which loop, workers and release end
(`EndsInOrder`), what a transaction knows past its callback (`TxConsistent`), and for the wake-up
`WakerAtWork`: from the moment a scan finds no slot, a wake-up is stored or somebody who will send
one is at work.  The compensator needs `BacklogRaised` besides: if all slots are taken, the flag that
workers read is up.

**The segment generator**, for any processes, callers, steps and start values in the range of the
integer.  `IInv` is about pools: what a generator may still hand out is the rest of its current
segment, its next one and the one its loader holds.  The pools of all generators and the ids issued
are disjoint, lie at or below the row's maximum, and are in order within a generator
(`PoolsDisjoint`, `Ordered`); the mutex and the creation of a buffer exclude other callers
(`MutexOK`), and at most one load is under way, none while a next segment is there (`LoadOK`).
`PoolsStep` and `IssueStep` say once what any step does to the pools; the actions cite them.

**The Snowflake generator**, for any processes, workers, sequence bits, clocks within their limits,
concurrent calls, failures, crashes and clock steps.  Half of `IInv` (`LeaseInv`) needs no margin: tokens are
not shared (`Disjoint`, `Known`, `Held`), a node is live only while its loop serves the lease (`Modes`), it
is at or past every id of its lease (`LeaseIDs`, hence `IDsAreFresh`), a call is
SafetyThreshold and its own age past a heartbeat at most (`Timely`), and no time is ahead of every
clock (`NotAhead`).  The other half compares leases of one worker.  A *claim* is a time up to
which a lease has handed out ids or may still do so: each id's, and for a live lease the
last heartbeat plus SafetyThreshold, MaxPause and what its clock is ahead.  A *floor* is a time
above which its ids lie: the row's `last_timestamp`, the barrier of an allocation that waits for its
clock, the start of a live lease, each id's own predecessor.  `Ordered` says that claims of an earlier
token lie at or below the floors of later ones, `Newest` that the newest token is in the row.  What makes
that inductive is `Covered`: a claim of the row's own lease is in its `last_timestamp`, or will have passed when
the row expires; and `Rows`: a process that waits for its clock or for an answer still has its row.
Two lemmas say what a step does to claims and floors (`ClaimsFrom`, `FloorsFrom`), and one that an
allocation, which takes a row that expired, was released or never was used, finds all claims on it at or below
its barrier (`BarrierCovers`).  `UniqueIDs` follows: an id is a claim and, unless it is of a clock set back,
a floor one below itself.

`WideMargin` is `SafetyThreshold + MaxPause + MaxAnswer + MaxSkew <= WorkerTimeout`, and
`MaxAnswer + MaxSkew + MaxBehind < WorkerTimeout` for rows not to expire under somebody who waits for a slow clock.
With the defaults the first asks that pause, answer and skew together stay within 10 seconds
(`storage.go:23`).  It is exact: one unit below, TLC finds two equal ids
(`Snowflake.cfg` with `WorkerTimeout = 2`, `MaxTime = 7`, `MaxIDs = 3`, `MaxTokens = 3`, `MaxFails = 0`,
`MaxSteps = 0`): a lease waits for its clock to pass a former holder's ids, so that its row is already old when its
first heartbeat is recorded, and its last call is as late as it may be.

**The Redis stream consumer**, for any clients, workers, producers' batches, entries and faults.
`Settled` is the store's half: what the group has delivered and no longer keeps pending is handled or
has its dead letter.  `ClientsOK` is each client's: how lifecycle and subscription go together
(`LifeOK`), loops and workers end before the acknowledgement queue is drained (`EndsOK`), what waits
for its acknowledgement is handled or has its dead letter (`ResultsOK`), and `inFlight` is the
disjoint union of what waits in the loops, in the queue, in workers, in the acknowledgement
queue and in the batch being collected, each entry in one place (`HeldOK`).

**The Kafka consumer group**, for any members, partitions, records, batch size, slots and retries,
and any number of rebalances, evictions, lost clients and stops.  The heart of `IInv` follows a record
from the broker to the commit.  The *front* of a partition is the offset from which on nothing has been
dispatched; below it every record is settled or with the partition's worker (`FrontOK`), a worker's
records increase and all below each is settled or another of them (`WorkerOK`), and all below a
mark is settled (`MarkOK`), hence all below a commit.  Records that were polled and not yet dispatched
are the last ones before the client's position (`FetchOK`): true only because no rebalance comes in
between.  Around that stand the whereabouts of a worker: in the map, with a callback, or waited for
by `shutdown` (`MapOK`, `CallbackOK`, `ActiveOK`), and what broker and client think of each
other (`OwnerOK`).  All this is about `Done`: what is settled and what lies below a `start`, since a client that
begins with a partition nothing is committed for takes everything below for done.  When all
members begin at the first record, `start` stays 0 and nothing is excepted
(`NothingLostFromEarliest`).  `NothingLost` and `SlotsExact` hold whenever rebalances come.  For the
other two, marks and unrevoked workers belong to partitions the client holds, unless the worker
is an `orphan` (`LateOK`), and fronts, records and marks of a member are at or above the committed
offset of every partition without one (`AdvanceOK`).  `LateOK` is why the exemption is as small as
it is: only a callback that comes while `shutdown` waits for the worker makes an orphan.

Only model-checked: every liveness property (the prover has no fairness), the modules
`OutboxShards`, `KafkaShare`, `Registry` and `Balancer`.

## 5. Seen while modelling

Five statements of the repository do not hold of its code.  Each is a property of a module, or
one without its exemption; with the constants given here, and the rest as in the module's
configuration, TLC finds it violated.

* **A lease without margin.**  `pkg/compensator/README.md:71` says that a task is taken over only
  if its executor crashed or lost the database.  The lease runs from the claim statement, the
  handler's deadline from its start; `resolveConfig` (`types.go:201`) accepts any lease longer
  than HandlerTimeout, so a slow claim is enough.  The outbox demands the margin.
  `CompensatorStore.NoTakeoverUnderLiveHandler` with `HandlerTimeout = 2`, `OperationTimeout = 2`,
  `LeaseDuration = 3`.
* **A clock that is set back.**  The clock is compared with the barrier once, before a lease's
  first id (`snowflake.go:315`), and the new node does not remember the barrier
  (`node.go:46`).  A clock set back in between repeats ids of the former holder.
  `Snowflake.NoReplay`, with the configuration as it is.
* **A rebalance during a stop.**  `shutdown` empties the worker map before it waits
  (`kafka.go:551`); a revocation that comes meanwhile finds no worker and gives the partition
  away under a handler that is neither awaited nor cancelled (the comment at `kafka.go:529` promises
  both).  Its mark may then take the next owner's commit back.
  `KafkaGroup.OneWorkerPerPartition` and `CommitsAdvance` without what they say of `orphan`, with
  the configuration as it is.
* **A start that moves.**  The comment at `kafka.go:498` says that records a member gives up
  unhandled are fetched again by the next one, from the committed offset; the one at `kafka.go:1064`,
  that a new group gets what is published after the subscription.  Nothing commits the position at
  which a client begins.  As long as no record has been committed, by default the next client
  begins at the end of the log again (after a rebalance, an eviction or a lost client), its first
  commit lies above what the former one had polled or was about to poll, and nobody ever
  handles that.
  `KafkaGroup.NothingSkipped`, with the configuration as it is.  It holds for
  `Earliest = Members` (`WithKafkaStartOffset`).
* **A dead letter topic that is down.**  `pkg/infra/config.go:126` says that it blocks the
  partition of the failed record only.  A record that waits for it keeps its slot
  (`kafka.go:676`), so as many of them as there are slots block every partition.
  `KafkaGroup.DLQBlocksOnePartition` with `Members = {m1}`, `Partitions = {1, 2}`,
  `DLQDown = TRUE`, `MaxMoves = 0`.

Smaller observations, which contradict no document except the first:

* `ScanOnce` frees its slots without `notify` (`pkg/outbox/outbox.go`, `runTasks`), so a background
  scan that found all slots taken by a `ScanOnce` waits for the ticker, although
  `pkg/outbox/README.md` promises a new scan as soon as a slot is free.  `StarvedScanIsWoken` is
  stated for the other holders of slots.
* Stopping a share subscription releases its records and so uses up deliveries: a record near
  the limit may be archived, or go to the dead letter topic, without a handler having failed.
  `LossNeedsFaults` is stated for subscriptions that are not stopped.
* A share subscription checks its attempts against the broker's delivery limit only if that limit
  could be read (`kafka.go:1118`).  `AttemptsBelowLimit` of `KafkaShare` is an assumption: with an unknown,
  smaller limit the broker archives records before the last attempt.
* The identity check in `complete` (`balancer.go:362`) and the fresh `instanceState` of an id that
  moves protect a new endpoint from old reports twice over: `EjectedByOwnReports` would not notice the
  check missing.
* `storage.go:24` explains the margin between the safety threshold and the worker timeout by the
  deviation of clocks.  It also has to cover the time a heartbeat's answer takes
  (`updateHeartbeat` has no deadline and records the arrival) and the time between Generate's check
  and its clock reading; `WideMargin` is the sum (4).
* The balancer's `pick` (284-293): if the second candidate was preferred and its probe is lost
  to another caller, `reserve` tries the same instance again and `pick` returns nothing, although
  the first candidate is healthy.
* A resolution that is never reported leaves its instance half open for ever; `NoOrphanProbe`
  is about reported ones.  The store of `halfOpen` by a late success may admit a second probe.
* `Register` checks `closed` again after its Put; the keepalive's context ends with the
  registry's, so the check is a second line of defence.

## 6. What is not modelled

* Row locks and deadlocks inside the database: a statement is atomic.  A transaction the
  database aborts is one that failed.
* Callbacks that call back into their own component (a handler that publishes).
* The order and LIMIT of claims, message types (`claim` only takes tasks whose handler is
  registered), jitter beyond its range.
* Kafka's retention and the offset resets it causes; new partitions of a topic.
* More than one subscription per client, more than one service per registry: they share
  nothing but Close.
* `pkg/idempotency`: key and business change are one database transaction; nothing of its own
  runs beside it.
* `pkg/cache`, `pkg/resource`: candidates for modules of their own; their state is a map under a
  mutex, and each has one interesting race (a value loaded before an invalidation and stored
  after it; Shutdown against a construction under way).
* Schema creation and checks, metrics, configuration, logging, encoding of messages.
* Sequential helpers, transports, authentication and code generation (`sqlxgen`): no state
  that interleaves.

## 7. Plan

The modules are written so that they can be proved about: no RECURSIVE operator, assumptions
named.  Theorems worth proving next, in this order:

1. `Balancer`: `NoOrphanProbe`, `EjectedByOwnReports` and `InflightExact` for any number of callers.
2. `OutboxShards`: `ClosedOwnsNothing`.
3. `KafkaShare`: `SettledIsDone`; `Registry`: `CacheIsSnapshot`.
