------------------------------ MODULE RedisStream ------------------------------
(***************************************************************************)
(* Consumers of one Redis stream and group (pkg/infra/redis_stream.go).    *)
(* Each client runs one subscription: a poll loop and a reclaim loop that  *)
(* feed a bounded queue, workers that call the handler, one goroutine that *)
(* acknowledges in batches, and the goroutine that ends them in order.     *)
(* What Redis keeps is external: the stream, the group with its position   *)
(* and its pending entries (owner, delivery count, idle or not).           *)
(*                                                                         *)
(* Time is left out: a pending entry may become idle at any moment, also   *)
(* while it waits in a queue or its handler runs.  Entries are numbered in *)
(* stream order.  A delivery count is compared with MaxDeliveryAttempts    *)
(* only, so it stays there once it has got there.                          *)
(***************************************************************************)
EXTENDS MQLifecycle, Sequences, FiniteSets

CONSTANTS
    MaxEntry,             \* bound: entries published
    Invalid,              \* entries that cannot be decoded
    Workers,              \* the workers of a subscription
    QueueDepth,
    BatchSize,
    AckBatchSize,
    MaxDeliveryAttempts,
    FromStart,            \* GroupStartID is 0 and not $
    Scenarios             \* which clients run, publish, may stop, close and crash; how
                          \* many entries there are, and how many at the start; bound:
                          \* failed commands, lost answers, lost groups and crashes

Entries == 1..MaxEntry
Producers == {"poll", "reclaim"}
Nobody == "nobody"

ASSUME StreamAssumption ==
    /\ MaxEntry \in Nat /\ Invalid \subseteq Entries
    /\ IsFiniteSet(Clients) /\ Nobody \notin Clients
    /\ IsFiniteSet(Workers) /\ Workers # {}
    /\ {QueueDepth, BatchSize, AckBatchSize, MaxDeliveryAttempts} \subseteq Nat \ {0}
    /\ FromStart \in BOOLEAN
    /\ \A s \in Scenarios : /\ s.clients \subseteq Clients /\ s.publishers \subseteq s.clients
                             /\ UNION {s.stops, s.closes, s.crashes} \subseteq s.clients
                             /\ s.entries \in 0..MaxEntry /\ s.first \in 0..s.entries
                             /\ s.faults \in Nat

VARIABLES
    scn,       \* the scenario; it never changes
    published, \* entries in the stream
    group,     \* the group exists
    last,      \* the group's last delivered entry
    pel,       \* pel[e]: the pending entry of e
    dlq,       \* entries with a dead letter
    prod,      \* prod[c][p]: a loop: running, entries still to queue, first of them
               \* marked, where the scan goes on after them
    cursor,    \* cursor[c]: reclaimCursor
    inFlight,  \* inFlight[c]: entries queued or in work
    queue,     \* queue[c]
    worker,    \* worker[c][w]: where the worker is, and with which entry
    ackQueue,  \* ackQueue[c]
    acks,      \* acks[c]: ids the acknowledging goroutine has collected
    runner,    \* runner[c]: how far runSubscription is
    faults,    \* faults so far
    handled    \* history: entries a handler handled in time

redis == <<scn, published, group, last, pel, dlq>>
local == <<prod, cursor, inFlight, queue, worker, ackQueue, acks, runner>>
vars == <<lifecycle, redis, local, faults, handled>>

NotPending == [owner |-> Nobody, count |-> 0, idle |-> FALSE]
Steady == scn.clients \ (scn.stops \cup scn.closes \cup scn.crashes)
Idle == [pc |-> "idle", e |-> 0]
Off == [on |-> FALSE, msgs |-> {}, marked |-> FALSE, next |-> 0]
Pending(e) == pel[e].count > 0

\* What a loop and a worker may be.
Loops == [on : BOOLEAN, msgs : SUBSET Entries, marked : BOOLEAN, next : 0..MaxEntry]
Jobs == [pc : {"idle", "run", "ack", "dlq", "dlqack", "exited"}, e : 0..MaxEntry]

StoreTypeOK ==
    /\ scn \in Scenarios
    /\ published \in 0..MaxEntry /\ group \in BOOLEAN /\ last \in 0..MaxEntry
    /\ pel \in [Entries -> [owner : Clients \cup {Nobody}, count : 0..MaxDeliveryAttempts,
                            idle : BOOLEAN]]
    /\ dlq \subseteq Entries /\ handled \subseteq Entries
    /\ faults \in 0..scn.faults

LocalTypeOK ==
    /\ prod \in [Clients -> [Producers -> Loops]]
    /\ cursor \in [Clients -> 0..MaxEntry]
    /\ inFlight \in [Clients -> SUBSET Entries]
    /\ worker \in [Clients -> [Workers -> Jobs]]
    /\ runner \in [Clients -> {"off", "run", "ackclosed"}]
    /\ queue \in [Clients -> Seq(Entries)]
    /\ ackQueue \in [Clients -> Seq(Entries)] /\ acks \in [Clients -> Seq(Entries)]
    /\ \A c \in Clients : /\ Len(queue[c]) <= QueueDepth /\ Len(ackQueue[c]) <= QueueDepth
                          /\ Len(acks[c]) <= AckBatchSize

TypeOK == LifecycleTypeOK /\ StoreTypeOK /\ LocalTypeOK

Init ==
    /\ LifecycleInit
    /\ scn \in Scenarios
    /\ published = scn.first /\ group = FALSE /\ last = 0
    /\ pel = [e \in Entries |-> NotPending]
    /\ dlq = {} /\ handled = {}
    /\ prod = [c \in Clients |-> [p \in Producers |-> Off]]
    /\ cursor = [c \in Clients |-> 0]
    /\ inFlight = [c \in Clients |-> {}]
    /\ queue = [c \in Clients |-> <<>>]
    /\ worker = [c \in Clients |-> [w \in Workers |-> Idle]]
    /\ ackQueue = [c \in Clients |-> <<>>] /\ acks = [c \in Clients |-> <<>>]
    /\ runner = [c \in Clients |-> "off"]
    /\ faults = 0

Fault == faults < scn.faults /\ faults' = faults + 1
NoFault == UNCHANGED faults

-------------------------------------------------------------------------------
(* The commands of the store. *)

\* XGROUP CREATE MKSTREAM; a group that exists already is no error.
EnsureGroup ==
    /\ group' = TRUE
    /\ last' = IF group THEN last ELSE IF FromStart THEN 0 ELSE published

\* XREADGROUP >: the next entries, up to the batch size, become pending for c.
NextEntries == {e \in Entries : e > last /\ e <= published /\ e <= last + BatchSize}
ReadGroup(c) ==
    /\ group /\ NextEntries # {}
    /\ last' = last + Cardinality(NextEntries)
    /\ pel' = [e \in Entries |-> IF e \in NextEntries
                                 THEN [owner |-> c, count |-> 1, idle |-> FALSE] ELSE pel[e]]

\* XAUTOCLAIM from the cursor: the first idle entries, whoever owns them, and
\* where the next scan starts (0 when the list is at its end).
Claimable(c) ==
    LET idle == {e \in Entries : Pending(e) /\ pel[e].idle /\ e >= cursor[c]}
    IN {e \in idle : Cardinality({d \in idle : d < e}) < BatchSize}

\* Faulty: the cursor is not set back at the end of the list.
NextCursorStays(c) ==
    LET rest == {e \in Entries : Pending(e) /\ \A d \in Claimable(c) : e > d}
    IN IF Claimable(c) = {} THEN cursor[c] ELSE
       IF rest = {} THEN MaxEntry ELSE CHOOSE e \in rest : \A d \in rest : e <= d

NextCursor(c) ==
    LET rest == {e \in Entries : Pending(e) /\ \A d \in Claimable(c) : e > d}
    IN IF Cardinality(Claimable(c)) < BatchSize \/ rest = {} THEN 0
       ELSE CHOOSE e \in rest : \A d \in rest : e <= d
Delivered(count) == IF count < MaxDeliveryAttempts THEN count + 1 ELSE count
AutoClaim(c) ==
    /\ group
    /\ pel' = [e \in Entries |-> IF e \in Claimable(c)
                 THEN [owner |-> c, count |-> Delivered(pel[e].count), idle |-> FALSE]
                 ELSE pel[e]]

Ack(es) == pel' = [e \in Entries |-> IF e \in es THEN NotPending ELSE pel[e]]

\* Faulty: consumers are deleted with their pending entries.
CleanupAll(targets) ==
    pel' = [e \in Entries |-> IF pel[e].owner \in targets THEN NotPending ELSE pel[e]]

\* The cleanup script deletes a consumer, and with it its pending entries, only
\* if it has none.
CleanupConsumers(targets) ==
    LET deleted == {c \in targets : \A e \in Entries : pel[e].owner # c} IN
    pel' = [e \in Entries |-> IF pel[e].owner \in deleted THEN NotPending ELSE pel[e]]

-------------------------------------------------------------------------------
(* Publish and Subscribe. *)

\* Publish up to its command.
BeginPublish(c) ==
    /\ c \in scn.publishers /\ published < scn.entries
    /\ Begin(c, "publish")
    /\ UNCHANGED <<redis, local, faults, handled>>

\* XADD takes effect, or fails; if the answer is lost it took effect.
Publish(c) ==
    /\ End(c, "publish")
    /\ \/ published < scn.entries /\ published' = published + 1 /\ NoFault
       \/ published' = published /\ Fault
    /\ UNCHANGED <<state, sub, pollCtx, workCtx, scn, group, last, pel, dlq,
                   local, handled>>

BeginSubscribe(c) ==
    /\ c \in scn.clients /\ sub[c] = "none"
    /\ Begin(c, "subscribe")
    /\ UNCHANGED <<redis, local, faults, handled>>

SubscribeFails(c) ==
    /\ End(c, "subscribe") /\ Fault
    /\ UNCHANGED <<state, sub, pollCtx, workCtx, redis, local, handled>>

\* The group is there; the handle is tracked and the goroutines start.
Subscribe(c) ==
    /\ End(c, "subscribe")
    /\ EnsureGroup
    /\ Track(c)
    /\ IF sub'[c] = "tracked"
       THEN /\ prod' = [prod EXCEPT ![c] = [p \in Producers |-> [Off EXCEPT !.on = TRUE]]]
            /\ runner' = [runner EXCEPT ![c] = "run"]
       ELSE UNCHANGED <<prod, runner>>
    /\ UNCHANGED <<state, scn, published, pel, dlq, cursor, inFlight, queue,
                   worker, ackQueue, acks, faults, handled>>

-------------------------------------------------------------------------------
(* The poll and the reclaim loop. *)

First(msgs) == CHOOSE e \in msgs : \A d \in msgs : e <= d
Fetched(c, p, es, next) == prod' = [prod EXCEPT ![c][p] = [@ EXCEPT !.msgs = es, !.next = next]]

SetReclaimCursor(c, next) == cursor' = [cursor EXCEPT ![c] = next]

\* The loop is done with the first of its entries; after the last one reclaim
\* stores where its scan goes on.
Advances(c, p) ==
    LET m == prod[c][p]  rest == m.msgs \ {First(m.msgs)} IN
    /\ prod' = [prod EXCEPT ![c][p] = [m EXCEPT !.msgs = rest, !.marked = FALSE,
                                                !.next = IF rest = {} THEN 0 ELSE @]]
    /\ IF p = "reclaim" /\ rest = {} THEN SetReclaimCursor(c, m.next) ELSE UNCHANGED cursor

Waiting(c, p) == prod[c][p].on /\ prod[c][p].msgs = {} /\ pollCtx[c]

\* One read of the poll loop; a lost answer leaves the entries pending.
Poll(c) ==
    /\ Waiting(c, "poll") /\ ReadGroup(c)
    /\ \/ Fetched(c, "poll", NextEntries, 0) /\ NoFault
       \/ UNCHANGED prod /\ Fault
    /\ UNCHANGED <<lifecycle, scn, published, group, dlq, cursor, inFlight, queue, worker, ackQueue,
                   acks, runner, handled>>

\* Either loop meets NOGROUP: the group is created again, the scan starts over.
RestoreGroup(c) ==
    /\ ~group /\ \E p \in Producers : Waiting(c, p)
    /\ EnsureGroup
    /\ SetReclaimCursor(c, 0)
    /\ UNCHANGED <<lifecycle, scn, published, pel, dlq, prod, inFlight, queue, worker, ackQueue, acks,
                   runner, faults, handled>>

\* One AutoClaim of the reclaim loop, of which a pass makes up to
\* reclaimMaxBatches; a lost answer leaves the entries claimed and the cursor as
\* it was.
Reclaim(c) ==
    /\ Waiting(c, "reclaim") /\ AutoClaim(c)
    /\ \/ /\ Claimable(c) = {}
          /\ SetReclaimCursor(c, NextCursor(c))
          /\ UNCHANGED prod /\ NoFault
       \/ /\ Claimable(c) # {}
          /\ Fetched(c, "reclaim", Claimable(c), NextCursor(c))
          /\ UNCHANGED cursor /\ NoFault
       \/ UNCHANGED <<prod, cursor>> /\ Fault
    /\ UNCHANGED <<lifecycle, scn, published, group, last, dlq, inFlight, queue, worker, ackQueue,
                   acks, runner, handled>>

\* cleanupStaleRedisStreamConsumers, from the reclaim loop.
CleanupStale(c) ==
    /\ Waiting(c, "reclaim") /\ group
    /\ CleanupConsumers(Clients \ {c})
    /\ UNCHANGED <<lifecycle, scn, published, group, last, dlq, local, faults, handled>>

\* enqueue: an entry in flight is skipped; another one is marked under the mutex
\* and sent, if there is room.
Enqueue(c, p) ==
    LET m == prod[c][p]  e == First(m.msgs) IN
    /\ m.msgs # {} /\ ~m.marked
    /\ \/ /\ e \in inFlight[c]
          /\ Advances(c, p) /\ UNCHANGED <<inFlight, queue>>
       \/ /\ e \notin inFlight[c]
          /\ inFlight' = [inFlight EXCEPT ![c] = @ \cup {e}]
          /\ IF Len(queue[c]) < QueueDepth
             THEN Advances(c, p) /\ queue' = [queue EXCEPT ![c] = Append(@, e)]
             ELSE /\ prod' = [prod EXCEPT ![c][p].marked = TRUE]
                  /\ UNCHANGED <<cursor, queue>>
    /\ UNCHANGED <<lifecycle, redis, worker, ackQueue, acks, runner, faults, handled>>

\* enqueue has waited for room.
Put(c, p) ==
    /\ prod[c][p].marked /\ Len(queue[c]) < QueueDepth
    /\ queue' = [queue EXCEPT ![c] = Append(@, First(prod[c][p].msgs))]
    /\ Advances(c, p)
    /\ UNCHANGED <<lifecycle, redis, inFlight, worker, ackQueue, acks, runner, faults, handled>>

\* Faulty: the mark of an entry that could not be queued stays.
LoopExitsMarked(c, p) ==
    /\ prod[c][p].on /\ ~pollCtx[c]
    /\ prod' = [prod EXCEPT ![c][p] = Off]
    /\ UNCHANGED <<lifecycle, redis, cursor, inFlight, queue, worker, ackQueue, acks, runner,
                   faults, handled>>

\* The poll context is done: a loop ends, also one that waits in enqueue, which
\* releases its entry.  What it had fetched stays pending.
LoopExits(c, p) ==
    LET m == prod[c][p] IN
    /\ m.on /\ ~pollCtx[c]
    /\ inFlight' = [inFlight EXCEPT ![c] = IF m.marked THEN @ \ {First(m.msgs)} ELSE @]
    /\ prod' = [prod EXCEPT ![c][p] = Off]
    /\ UNCHANGED <<lifecycle, redis, cursor, queue, worker, ackQueue, acks, runner, faults,
                   handled>>

-------------------------------------------------------------------------------
(* The workers. *)

At(c, w, pc) == worker[c][w].pc = pc
Goes(c, w, pc) == worker' = [worker EXCEPT ![c][w].pc = pc]
Release(c, es) == inFlight' = [inFlight EXCEPT ![c] = @ \ es]

\* The worker is done with its entry and releases it.
GivesBack(c, w) ==
    /\ Release(c, {worker[c][w].e})
    /\ worker' = [worker EXCEPT ![c][w] = Idle]

\* A worker takes an entry.  If polling has stopped meanwhile it releases it
\* and ends.
Take(c, w) ==
    LET e == Head(queue[c]) IN
    /\ runner[c] = "run" /\ At(c, w, "idle") /\ queue[c] # <<>>
    /\ queue' = [queue EXCEPT ![c] = Tail(@)]
    /\ IF pollCtx[c]
       THEN /\ worker' = [worker EXCEPT ![c][w] =
                            [pc |-> "run", e |-> e]]
            /\ UNCHANGED inFlight
       ELSE /\ worker' = [worker EXCEPT ![c][w] = [pc |-> "exited", e |-> 0]]
            /\ Release(c, {e})
    /\ UNCHANGED <<lifecycle, redis, prod, cursor, ackQueue, acks, runner, faults, handled>>

WorkerExits(c, w) ==
    /\ runner[c] = "run" /\ At(c, w, "idle") /\ ~pollCtx[c]
    /\ Goes(c, w, "exited")
    /\ UNCHANGED <<lifecycle, redis, prod, cursor, inFlight, queue, ackQueue, acks, runner,
                   faults, handled>>

\* The handler returns nil and its context is still live.
HandlerSucceeds(c, w) ==
    LET e == worker[c][w].e IN
    /\ At(c, w, "run") /\ e \notin Invalid /\ workCtx[c]
    /\ Goes(c, w, "ack")
    /\ handled' = handled \cup {e}
    /\ UNCHANGED <<lifecycle, redis, prod, cursor, inFlight, queue, ackQueue, acks, runner,
                   faults>>

\* A handled entry is passed to the acknowledging goroutine, ...
SendAck(c, w) ==
    /\ At(c, w, "ack") /\ Len(ackQueue[c]) < QueueDepth
    /\ ackQueue' = [ackQueue EXCEPT ![c] = Append(@, worker[c][w].e)]
    /\ worker' = [worker EXCEPT ![c][w] = Idle]
    /\ UNCHANGED <<lifecycle, redis, prod, cursor, inFlight, queue, acks, runner, faults,
                   handled>>

\* ... or a forced stop comes first.
DropAck(c, w) ==
    /\ At(c, w, "ack") /\ ~workCtx[c]
    /\ GivesBack(c, w)
    /\ UNCHANGED <<lifecycle, redis, prod, cursor, queue, ackQueue, acks, runner, faults,
                   handled>>

\* XPENDING finds the entry.
PendingEntry(c, e) == workCtx[c] /\ group /\ Pending(e)

\* The handler has failed (an error, a panic, HandlerTimeout or a cancelled
\* context) or the entry cannot be decoded: how often was it delivered?  It
\* stays pending unless it is used up or cannot be decoded; if the query fails
\* (cancelled, no group, fault) or the entry is no longer pending, that is all.
HandlerFails(c, w) ==
    LET e == worker[c][w].e IN
    /\ At(c, w, "run")
    /\ \/ GivesBack(c, w) /\ Fault
       \/ /\ IF /\ PendingEntry(c, e)
                /\ e \in Invalid \/ pel[e].count >= MaxDeliveryAttempts
             THEN Goes(c, w, "dlq") /\ UNCHANGED inFlight
             ELSE GivesBack(c, w)
          /\ NoFault
    /\ UNCHANGED <<lifecycle, redis, prod, cursor, queue, ackQueue, acks, runner, handled>>

\* moveToDLQ, the dead letter: a failed write ends here, whether or not it
\* took effect.
AddDeadLetter(c, w) ==
    LET added == dlq' = dlq \cup {worker[c][w].e} IN
    /\ At(c, w, "dlq")
    /\ \/ workCtx[c] /\ added /\ Goes(c, w, "dlqack") /\ UNCHANGED inFlight /\ NoFault
       \/ ~workCtx[c] /\ UNCHANGED dlq /\ GivesBack(c, w) /\ NoFault
       \/ (added \/ UNCHANGED dlq) /\ GivesBack(c, w) /\ Fault
    /\ UNCHANGED <<lifecycle, scn, published, group, last, pel, prod, cursor, queue, ackQueue, acks,
                   runner, handled>>

\* moveToDLQ, the acknowledgement of the source entry.
AckDeadLetter(c, w) ==
    /\ At(c, w, "dlqack")
    /\ \/ Ack({worker[c][w].e}) /\ NoFault
       \/ UNCHANGED pel /\ Fault
    /\ GivesBack(c, w)
    /\ UNCHANGED <<lifecycle, scn, published, group, last, dlq, prod, cursor, queue, ackQueue, acks,
                   runner, handled>>

-------------------------------------------------------------------------------
(* The acknowledging goroutine, and the end of the subscription. *)

CollectAck(c) ==
    /\ runner[c] \in {"run", "ackclosed"} /\ ackQueue[c] # <<>> /\ Len(acks[c]) < AckBatchSize
    /\ acks' = [acks EXCEPT ![c] = Append(@, Head(ackQueue[c]))]
    /\ ackQueue' = [ackQueue EXCEPT ![c] = Tail(@)]
    /\ UNCHANGED <<lifecycle, redis, prod, cursor, inFlight, queue, worker, runner, faults,
                   handled>>

\* flush: the batch is full, its timer fires or the queue is closed.  The ids
\* are released whether or not Redis took the acknowledgement.
Flush(c) ==
    LET batch == {acks[c][i] : i \in DOMAIN acks[c]} IN
    /\ acks[c] # <<>>
    /\ \/ Ack(batch) /\ NoFault
       \/ UNCHANGED pel /\ Fault
    /\ acks' = [acks EXCEPT ![c] = <<>>]
    /\ Release(c, batch)
    /\ UNCHANGED <<lifecycle, scn, published, group, last, dlq, prod, cursor, queue, worker, ackQueue,
                   runner, handled>>

ProducersDone(c) == \A p \in Producers : ~prod[c][p].on
WorkersDone(c) == \A w \in Workers : At(c, w, "exited")

\* Faulty: runSubscription does not wait for the workers.
CloseAckQueueEarly(c) ==
    /\ runner[c] = "run" /\ ~pollCtx[c] /\ ProducersDone(c)
    /\ runner' = [runner EXCEPT ![c] = "ackclosed"]
    /\ UNCHANGED <<lifecycle, redis, prod, cursor, inFlight, queue, worker, ackQueue, acks,
                   faults, handled>>

\* runSubscription: polling has stopped, loops and workers have ended.
CloseAckQueue(c) ==
    /\ runner[c] = "run" /\ ~pollCtx[c] /\ ProducersDone(c) /\ WorkersDone(c)
    /\ runner' = [runner EXCEPT ![c] = "ackclosed"]
    /\ UNCHANGED <<lifecycle, redis, prod, cursor, inFlight, queue, worker, ackQueue, acks,
                   faults, handled>>

\* cleanupRedisStreamConsumer
CleanupOwn(c) == CleanupConsumers({c})

\* runSubscription: the acknowledging goroutine has ended, the own consumer is
\* cleaned up and the handle finished.  What was left in the queue goes with
\* the subscription.
FinishSubscription(c) ==
    /\ runner[c] = "ackclosed" /\ ackQueue[c] = <<>> /\ acks[c] = <<>>
    /\ CleanupOwn(c)
    /\ Finish(c)
    /\ runner' = [runner EXCEPT ![c] = "off"]
    /\ queue' = [queue EXCEPT ![c] = <<>>] /\ inFlight' = [inFlight EXCEPT ![c] = {}]
    /\ cursor' = [cursor EXCEPT ![c] = 0]
    /\ UNCHANGED <<scn, published, group, last, dlq, prod, worker, ackQueue, acks, faults, handled>>

-------------------------------------------------------------------------------
(* The environment. *)

\* PendingIdleTimeout passes without a delivery of e.
BecomesIdle(e) ==
    /\ Pending(e) /\ ~pel[e].idle
    /\ pel' = [pel EXCEPT ![e].idle = TRUE]
    /\ UNCHANGED <<lifecycle, scn, published, group, last, dlq, local, faults, handled>>

\* The group is lost with its position and its pending entries.
LoseGroup ==
    /\ group /\ Fault
    /\ group' = FALSE /\ last' = 0 /\ pel' = [e \in Entries |-> NotPending]
    /\ UNCHANGED <<lifecycle, scn, published, dlq, local, handled>>

Crash(c) ==
    /\ c \in scn.crashes /\ Fault
    /\ LifecycleCrash(c)
    /\ prod' = [prod EXCEPT ![c] = [p \in Producers |-> Off]]
    /\ inFlight' = [inFlight EXCEPT ![c] = {}]
    /\ queue' = [queue EXCEPT ![c] = <<>>]
    /\ worker' = [worker EXCEPT ![c] = [w \in Workers |-> Idle]]
    /\ ackQueue' = [ackQueue EXCEPT ![c] = <<>>] /\ acks' = [acks EXCEPT ![c] = <<>>]
    /\ runner' = [runner EXCEPT ![c] = "off"]
    /\ cursor' = [cursor EXCEPT ![c] = 0]
    /\ UNCHANGED <<redis, handled>>

\* Stop, Close or the end of the caller's context.
Ends(c) ==
    /\ \/ c \in scn.stops /\ Stop(c)
       \/ c \in scn.closes /\ Close(c)
       \/ c \in scn.stops \cup scn.closes /\ Cancel(c)
    /\ UNCHANGED <<redis, local, faults, handled>>

PollLoop(c) ==
    Poll(c) \/ RestoreGroup(c) \/ Enqueue(c, "poll") \/ Put(c, "poll") \/ LoopExits(c, "poll")

ReclaimLoop(c) ==
    \/ Reclaim(c) \/ RestoreGroup(c) \/ CleanupStale(c)
    \/ Enqueue(c, "reclaim") \/ Put(c, "reclaim") \/ LoopExits(c, "reclaim")

Worker(c, w) ==
    \/ Take(c, w) \/ WorkerExits(c, w) \/ HandlerSucceeds(c, w) \/ HandlerFails(c, w)
    \/ SendAck(c, w) \/ DropAck(c, w) \/ AddDeadLetter(c, w) \/ AckDeadLetter(c, w)

Runner(c) ==
    CollectAck(c) \/ Flush(c) \/ CloseAckQueue(c) \/ FinishSubscription(c)

\* What ends once it has begun: Publish, Subscribe and Close.
Caller(c) ==
    \/ Publish(c) \/ Subscribe(c) \/ SubscribeFails(c)
    \/ CloseReleases(c) /\ UNCHANGED <<redis, local, faults, handled>>

Next ==
    \/ \E c \in Clients : \/ BeginPublish(c) \/ BeginSubscribe(c) \/ Caller(c)
                          \/ PollLoop(c) \/ ReclaimLoop(c) \/ Runner(c)
                          \/ \E w \in Workers : Worker(c, w)
                          \/ Ends(c) \/ Crash(c)
    \/ \E e \in Entries : BecomesIdle(e)
    \/ LoseGroup

Spec == Init /\ [][Next]_vars

\* Every goroutine runs, commands are answered, time passes, and a client that
\* cannot stop subscribes in the end.
Fairness ==
    /\ \A c \in Clients :
         /\ WF_vars(PollLoop(c)) /\ WF_vars(ReclaimLoop(c)) /\ WF_vars(Runner(c))
         /\ \A w \in Workers : WF_vars(Worker(c, w))
         /\ WF_vars(Caller(c)) /\ WF_vars(c \in Steady /\ BeginSubscribe(c))
    /\ WF_vars(\E e \in Entries : BecomesIdle(e))

FairSpec == Spec /\ Fairness

-------------------------------------------------------------------------------
(* Properties. *)

\* While the group exists, every entry it has delivered is pending, was handled
\* before its context ended, or has a dead letter: no acknowledgement, consumer
\* cleanup, crash, forced stop or lost answer drops an entry.
NothingLost ==
    group => \A e \in 1..last : Pending(e) \/ e \in handled \/ e \in dlq

\* Where client c holds entry e: a loop that waits for room, the queue, a
\* worker, the acknowledgement queue or batch.
Holds(c, e) ==
    {<<"loop", p>> : p \in {q \in Producers : prod[c][q].marked /\ First(prod[c][q].msgs) = e}}
    \cup {<<"queue", i>> : i \in {j \in DOMAIN queue[c] : queue[c][j] = e}}
    \cup {<<"worker", w>> : w \in {v \in Workers : worker[c][v].e = e}}
    \cup {<<"ackQueue", i>> : i \in {j \in DOMAIN ackQueue[c] : ackQueue[c][j] = e}}
    \cup {<<"acks", i>> : i \in {j \in DOMAIN acks[c] : acks[c][j] = e}}

\* inFlight covers an entry from the send to its queue until its result is known:
\* a consumer holds an entry in one place at most, however often poll and
\* reclaim return it, and an entry it does not hold is never left marked (it
\* could not be handled by this consumer again).
InFlightIsHeld ==
    \A c \in Clients, e \in Entries :
        /\ Cardinality(Holds(c, e)) <= 1
        /\ e \in inFlight[c] <=> Holds(c, e) # {}

\* Before a subscription is reported finished its loops, workers and the
\* acknowledging goroutine have ended and every result they had is handed to
\* Redis; the store is closed only after that and after every Publish and
\* Subscribe under way has ended.
ReleaseAfterDrain ==
    \A c \in Clients :
        /\ sub[c] = "finished" =>
             /\ runner[c] = "off" /\ ProducersDone(c)
             /\ ackQueue[c] = <<>> /\ acks[c] = <<>>
             /\ \A w \in Workers : worker[c][w].pc \in {"idle", "exited"}
        /\ state[c] = "closed" => ops[c] = {} /\ sub[c] # "tracked"

\* Every published entry is handled or gets a dead letter in the end, as long as
\* one consumer stays and the group starts at 0: not lost with a crashed or
\* stopped consumer, not forgotten behind the reclaim cursor, not passed
\* between consumers for ever.
EverySettled ==
    Steady # {} =>
        \A e \in Entries : e <= published ~> (e \in handled \/ e \in dlq)

\* Close returns, whatever the goroutines were waiting for when it was called.
CloseCompletes ==
    \A c \in Clients : state[c] = "closing" ~> state[c] \in {"closed", "crashed"}
===============================================================================
