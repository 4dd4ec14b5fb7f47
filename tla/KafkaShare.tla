------------------------------- MODULE KafkaShare -------------------------------
(***************************************************************************)
(* pkg/infra/kafka.go, share group: a subscription runs several share      *)
(* consumers, each of which polls a batch, handles its records             *)
(* concurrently and polls again when all of them are acknowledged.         *)
(*                                                                         *)
(* The broker and the franz-go client are external.  The broker counts the *)
(* deliveries of a record, locks a delivered record for a time and, when   *)
(* the lock is released or runs out, delivers it again, or archives it if  *)
(* its count is at the limit.  The client sends acknowledgements in the    *)
(* background, on FlushAcks and before it polls, and accepts what the last *)
(* poll returned and nobody has acknowledged when it polls again.          *)
(*                                                                         *)
(* The time of a lock is cut into phases:                                  *)
(*   0  before lockDeadline - margin - DLQ reserve                         *)
(*   1  the reserve, before lockDeadline - margin                          *)
(*   2  the margin, before lockDeadline                                    *)
(*   3  the lock has run out                                               *)
(***************************************************************************)
EXTENDS MQLifecycle, Sequences, FiniteSets, FiniteSetsExt

CONSTANTS
    Records,
    MaxConsumers,          \* bound: share consumers of a subscription
    MaxDeliveryAttempts,
    DeliveryLimit,         \* of the broker
    DefaultConsumers,      \* defaultKafkaShareConsumers
    Scenarios              \* clients and which of them publish, may end or crash; records,
                           \* and records at the start; the options concurrency, batchSize
                           \* and shareConsumers; whether handlers may fail and take time;
                           \* bound: faults

\* checkKafkaShareDeliveryLimit, and the same check of a subscription's options.
AttemptsBelowLimit == MaxDeliveryAttempts < DeliveryLimit

ASSUME KafkaShareAssumption ==
    /\ {MaxDeliveryAttempts, DeliveryLimit, DefaultConsumers} \subseteq Nat \ {0}
    /\ MaxConsumers \in Nat /\ IsFiniteSet(Records) /\ IsFiniteSet(Clients)
    /\ AttemptsBelowLimit
    /\ \A s \in Scenarios :
         /\ s.publishers \cup s.stops \cup s.crashes \subseteq s.clients
         /\ s.clients \subseteq Clients /\ s.first \subseteq s.records /\ s.records \subseteq Records
         /\ s.hard \in BOOLEAN /\ {s.faults, s.shareConsumers} \subseteq Nat
         /\ {s.concurrency, s.batchSize} \subseteq Nat \ {0}
         /\ s.shareConsumers <= s.concurrency

-------------------------------------------------------------------------------
(* The share consumers of a subscription. *)

Count(s) ==
    LET wanted == IF s.shareConsumers = 0 THEN Min({s.concurrency, DefaultConsumers})
                  ELSE s.shareConsumers
    IN Max({wanted, (s.concurrency + s.batchSize - 1) \div s.batchSize})

\* kafkaShareConsumerLimits: what the n-th consumer polls at most.
Limit(s, n) ==
    (s.concurrency \div Count(s)) + (IF n <= s.concurrency % Count(s) THEN 1 ELSE 0)

Consumers == Clients \X (1..MaxConsumers)

VARIABLES
    scn,      \* the scenario; it never changes
    rec,      \* rec[r]: the broker's state of a record
    dlq,      \* records in the dead letter topic
    consumer, \* consumer[k]: off, poll, closing, backoff or gone
    work,     \* work[k][r]: the goroutine of a record in a batch of k
    faults,   \* faults so far
    handled   \* history: records a handler handled in time

vars == <<lifecycle, scn, rec, dlq, consumer, work, faults, handled>>

Nobody == <<>>
NoWork == [pc |-> "none", phase |-> 0, count |-> 0, ack |-> "none"]
Own(c) == {k \in Consumers : k[1] = c /\ k[2] <= Count(scn)}
Steady == scn.clients \ (scn.stops \cup scn.crashes)

TypeOK ==
    /\ LifecycleTypeOK
    /\ scn \in Scenarios
    /\ rec \in [Records -> [st : {"unborn", "available", "acquired", "accepted", "rejected",
                                  "archived"},
                            by : Consumers \cup {Nobody}, count : 0..DeliveryLimit]]
    /\ dlq \subseteq Records /\ handled \subseteq Records
    /\ consumer \in [Consumers -> {"off", "poll", "closing", "backoff", "gone"}]
    /\ work \in [Consumers -> [Records ->
                   [pc : {"none", "start", "handler", "wait", "dlq", "acked"}, phase : 0..3,
                    count : 0..DeliveryLimit, ack : {"none", "accept", "reject", "release"}]]]
    /\ faults \in 0..scn.faults

Init ==
    /\ LifecycleInit
    /\ scn \in Scenarios
    /\ rec = [r \in Records |-> [st |-> IF r \in scn.first THEN "available" ELSE "unborn",
                                 by |-> Nobody, count |-> 0]]
    /\ dlq = {} /\ handled = {}
    /\ consumer = [k \in Consumers |-> "off"]
    /\ work = [k \in Consumers |-> [r \in Records |-> NoWork]]
    /\ faults = 0

Fault == faults < scn.faults /\ faults' = faults + 1
NoFault == UNCHANGED faults

-------------------------------------------------------------------------------
(* The broker, external. *)

Available(r) == rec[r].st = "available"
\* The end of a lock without a decision.
Freed(b) == [b EXCEPT !.by = Nobody,
                      !.st = IF b.count >= DeliveryLimit THEN "archived" ELSE "available"]
\* The acknowledgement of a delivery counts only under its own lock.
Acknowledged(k, r, ack) ==
    IF rec[r].by # k \/ work[k][r].phase = 3 THEN rec[r]
    ELSE CASE ack = "accept" -> [rec[r] EXCEPT !.st = "accepted", !.by = Nobody]
           [] ack = "reject" -> [rec[r] EXCEPT !.st = "rejected", !.by = Nobody]
           [] OTHER -> Freed(rec[r])

\* An acknowledgement gets through.
SendAck(k, r) ==
    /\ work[k][r].pc = "acked"
    /\ rec' = [rec EXCEPT ![r] = Acknowledged(k, r, work[k][r].ack)]
    /\ work' = [work EXCEPT ![k][r] = NoWork]
    /\ UNCHANGED <<lifecycle, scn, dlq, consumer, faults, handled>>

\* The lock of a consumer that is not there any more runs out.
Expires(r) ==
    /\ rec[r].st = "acquired" /\ work[rec[r].by][r].pc = "none"
    /\ rec' = [rec EXCEPT ![r] = Freed(@)]
    /\ UNCHANGED <<lifecycle, scn, dlq, consumer, work, faults, handled>>

-------------------------------------------------------------------------------
(* Publish and subscribe. *)

BeginPublish(c) ==
    /\ c \in scn.publishers /\ \E r \in scn.records : rec[r].st = "unborn"
    /\ Begin(c, "publish")
    /\ UNCHANGED <<scn, rec, dlq, consumer, work, faults, handled>>

\* ProduceSync; a record whose answer is lost may be there or not.
Publish(c) ==
    /\ End(c, "publish")
    /\ \/ \E r \in scn.records : /\ rec[r].st = "unborn"
                                 /\ rec' = [rec EXCEPT ![r].st = "available"] /\ NoFault
       \/ UNCHANGED rec /\ Fault
    /\ UNCHANGED <<state, sub, pollCtx, workCtx, scn, dlq, consumer, work, handled>>

BeginSubscribe(c) ==
    /\ c \in scn.clients /\ sub[c] = "none" /\ AttemptsBelowLimit
    /\ Begin(c, "subscribe")
    /\ UNCHANGED <<scn, rec, dlq, consumer, work, faults, handled>>

\* The dead letter topic is missing, or a consumer cannot be created: the ones
\* that were are closed again.
SubscribeFails(c) ==
    /\ End(c, "subscribe") /\ Fault
    /\ UNCHANGED <<state, sub, pollCtx, workCtx, scn, rec, dlq, consumer, work, handled>>

\* The consumers are created, the handle is tracked, the sessions start.
Subscribe(c) ==
    /\ End(c, "subscribe") /\ Track(c)
    /\ consumer' = IF sub'[c] # "tracked" THEN consumer
                   ELSE [k \in Consumers |-> IF k \in Own(c) THEN "poll" ELSE consumer[k]]
    /\ UNCHANGED <<state, scn, rec, dlq, work, faults, handled>>

-------------------------------------------------------------------------------
(* consumeShareGroup and runSession. *)

\* Faulty: the next poll does not wait for the goroutines of the batch.
NeverWaits(k) == \A r \in Records : work[k][r].pc # "acked"

\* processShareGroupBatch has returned, and what it acknowledged is sent.
BatchDone(k) == \A r \in Records : work[k][r].pc = "none"

\* PollRecords returns records, possibly after the poll context has ended; these
\* are released and the loop ends.
Poll(k) ==
    LET c == k[1]
        forgotten == {r \in Records : work[k][r].pc # "none"}
        Delivered(r) == IF pollCtx[c] THEN [NoWork EXCEPT !.pc = "start", !.count = rec[r].count + 1]
                        ELSE [pc |-> "acked", phase |-> 0, count |-> rec[r].count + 1, ack |-> "release"]
    IN
    /\ consumer[k] = "poll" /\ BatchDone(k)
    /\ \E batch \in SUBSET {r \in Records : Available(r)} \ {{}} :
         /\ Cardinality(batch) <= Limit(scn, k[2])
         /\ rec' = [r \in Records |->
                     IF r \in batch THEN [st |-> "acquired", by |-> k, count |-> rec[r].count + 1]
                     ELSE IF r \in forgotten THEN Acknowledged(k, r, "accept") ELSE rec[r]]
         /\ work' = [work EXCEPT ![k] =
                       [r \in Records |-> IF r \in batch THEN Delivered(r) ELSE @[r]]]
    /\ consumer' = [consumer EXCEPT ![k] = IF pollCtx[c] THEN @ ELSE "closing"]
    /\ UNCHANGED <<lifecycle, scn, dlq, faults, handled>>

\* The loop ends with the poll context, or (a fault) with a client that is closed.
PollEnds(k) ==
    /\ consumer[k] = "poll" /\ BatchDone(k)
    /\ \/ ~pollCtx[k[1]] /\ NoFault
       \/ pollCtx[k[1]] /\ Fault
    /\ consumer' = [consumer EXCEPT ![k] = "closing"]
    /\ UNCHANGED <<lifecycle, scn, rec, dlq, work, handled>>

\* closeKafkaConsumer: FlushAcks, which may fail, and Close; then runSession
\* ends or waits to build the next client.
CloseConsumer(k) ==
    /\ consumer[k] = "closing"
    /\ \/ BatchDone(k) /\ UNCHANGED work /\ NoFault
       \/ ~BatchDone(k) /\ work' = [work EXCEPT ![k] = [r \in Records |-> NoWork]] /\ Fault
    /\ consumer' = [consumer EXCEPT ![k] = IF pollCtx[k[1]] THEN "backoff" ELSE "gone"]
    /\ UNCHANGED <<lifecycle, scn, rec, dlq, handled>>

\* Faulty: a client that was closed is not built again.
NeverRebuilt(k) ==
    /\ consumer[k] = "backoff"
    /\ consumer' = [consumer EXCEPT ![k] = "gone"]
    /\ UNCHANGED <<lifecycle, scn, rec, dlq, work, faults, handled>>

Rebuild(k) ==
    /\ consumer[k] = "backoff"
    /\ consumer' = [consumer EXCEPT ![k] = IF pollCtx[k[1]] THEN "poll" ELSE "gone"]
    /\ UNCHANGED <<lifecycle, scn, rec, dlq, work, faults, handled>>

\* runSubscription: all sessions have ended.
FinishSubscription(c) ==
    /\ sub[c] = "tracked" /\ \A k \in Own(c) : consumer[k] = "gone"
    /\ Finish(c)
    /\ UNCHANGED <<scn, rec, dlq, consumer, work, faults, handled>>

-------------------------------------------------------------------------------
(* processShareGroupRecord. *)

Live(k, r) == workCtx[k[1]] /\ work[k][r].phase < 2     \* its ctx
\* Faulty: the last attempt may use all of ctx.
HandlerPhasesAll(count) == 2
\* The phases in which a handler's context is live: the last attempt leaves the
\* reserve to the dead letter.
HandlerPhases(count) == IF count = MaxDeliveryAttempts THEN 1 ELSE 2

Step(k, r, w) ==
    /\ work' = [work EXCEPT ![k][r] = w]
    /\ UNCHANGED <<lifecycle, scn, rec, consumer>>
To(k, r, pc) == Step(k, r, [work[k][r] EXCEPT !.pc = pc])
Acks(k, r, ack) == Step(k, r, [work[k][r] EXCEPT !.pc = "acked", !.ack = ack])

\* Up to the handler; a record whose attempts are used up goes to the dead letter
\* topic without.
Start(k, r) ==
    /\ work[k][r].pc = "start"
    /\ IF ~pollCtx[k[1]] \/ ~Live(k, r) THEN Acks(k, r, "release")
       ELSE To(k, r, IF work[k][r].count > MaxDeliveryAttempts THEN "dlq" ELSE "handler")
    /\ UNCHANGED <<dlq, faults, handled>>

HandlerSucceeds(k, r) ==
    /\ work[k][r].pc = "handler"
    /\ workCtx[k[1]] /\ work[k][r].phase < HandlerPhases(work[k][r].count)
    /\ Acks(k, r, "accept")
    /\ handled' = handled \cup {r}
    /\ UNCHANGED <<dlq, faults>>

\* It fails, panics, or returns after its context has ended.
HandlerFails(k, r) ==
    /\ work[k][r].pc = "handler"
    /\ scn.hard \/ ~workCtx[k[1]]
    /\ IF ~Live(k, r) THEN Acks(k, r, "release")
       ELSE To(k, r, IF work[k][r].count < MaxDeliveryAttempts THEN "wait" ELSE "dlq")
    /\ UNCHANGED <<dlq, faults, handled>>

\* The delay before a release, cut short by either context.
Waited(k, r) ==
    /\ work[k][r].pc = "wait" /\ Acks(k, r, "release")
    /\ UNCHANGED <<dlq, faults, handled>>

\* publishKafkaDLQ succeeds, or fails, with the record written or not.
DeadLetter(k, r) ==
    /\ work[k][r].pc = "dlq"
    /\ \/ Live(k, r) /\ Acks(k, r, "reject") /\ dlq' = dlq \cup {r} /\ NoFault
       \/ /\ Acks(k, r, "release") /\ dlq' \in {dlq, dlq \cup {r}}
          /\ IF Live(k, r) THEN Fault ELSE NoFault
    /\ UNCHANGED handled

\* Time goes by.  It is a fault if a goroutine is late: not started, handling
\* after the end of its context, writing the dead letter through the reserve;
\* and if the lock runs out although the margin was left for the acknowledgement.
Late(k, r) ==
    \/ work[k][r].pc \in {"start", "dlq"} /\ work[k][r].phase >= 1
    \/ work[k][r].pc = "handler" /\ work[k][r].phase >= HandlerPhases(work[k][r].count)
    \/ work[k][r].pc \in {"wait", "acked"}
Tick(k, r) ==
    LET w == work[k][r] IN
    /\ scn.hard /\ w.pc # "none" /\ w.phase < 3
    /\ IF Late(k, r) THEN Fault ELSE NoFault
    /\ work' = [work EXCEPT ![k][r].phase = IF w.pc \in {"wait", "acked"} THEN 3 ELSE w.phase + 1]
    /\ rec' = IF work'[k][r].phase = 3 /\ rec[r].by = k THEN [rec EXCEPT ![r] = Freed(@)] ELSE rec
    /\ UNCHANGED <<lifecycle, scn, dlq, consumer, handled>>

-------------------------------------------------------------------------------
Crash(c) ==
    /\ c \in scn.crashes /\ Fault
    /\ LifecycleCrash(c)
    /\ consumer' = [k \in Consumers |-> IF k[1] = c THEN "gone" ELSE consumer[k]]
    /\ work' = [k \in Consumers |-> IF k[1] = c THEN [r \in Records |-> NoWork] ELSE work[k]]
    /\ UNCHANGED <<scn, rec, dlq, handled>>

\* Stop, Close or the end of the caller's context.
Ends(c) ==
    /\ c \in scn.stops
    /\ Stop(c) \/ Cancel(c) \/ Close(c)
    /\ UNCHANGED <<scn, rec, dlq, consumer, work, faults, handled>>

Session(k) == Poll(k) \/ PollEnds(k) \/ CloseConsumer(k) \/ Rebuild(k)
Worker(k, r) ==
    \/ Start(k, r) \/ HandlerSucceeds(k, r) \/ HandlerFails(k, r) \/ Waited(k, r)
    \/ DeadLetter(k, r) \/ SendAck(k, r)
Caller(c) ==
    \/ Publish(c) \/ Subscribe(c) \/ SubscribeFails(c) \/ FinishSubscription(c)
    \/ CloseReleases(c) /\ UNCHANGED <<scn, rec, dlq, consumer, work, faults, handled>>

Next ==
    \/ \E c \in Clients : \/ BeginPublish(c) \/ BeginSubscribe(c) \/ Caller(c)
                          \/ Ends(c) \/ Crash(c)
    \/ \E k \in Consumers : \/ Session(k)
                            \/ \E r \in Records : Worker(k, r) \/ Tick(k, r)
    \/ \E r \in Records : Expires(r)

Spec == Init /\ [][Next]_vars

\* Every goroutine runs, handlers return, the client and the broker answer, the
\* locks of the dead run out, and a client that cannot stop subscribes in the end.
Fairness ==
    /\ \A c \in Clients : WF_vars(Caller(c)) /\ WF_vars(c \in Steady /\ BeginSubscribe(c))
    /\ \A k \in Consumers : WF_vars(Session(k)) /\ \A r \in Records : WF_vars(Worker(k, r))
    /\ WF_vars(\E r \in Records : Expires(r))

FairSpec == Spec /\ Fairness

-------------------------------------------------------------------------------
(* Properties. *)

\* The broker takes a record for settled only if a handler handled it in time or
\* it is in the dead letter topic: no polling on, no late or lost
\* acknowledgement, no stop accepts what was not handled.
SettledIsDone ==
    \A r \in Records : /\ rec[r].st = "accepted" => r \in handled
                       /\ rec[r].st = "rejected" => r \in dlq

\* The broker's limit archives a record that was neither handled nor put into the
\* dead letter topic only after a fault in each of the deliveries from the last
\* attempt on, as long as no subscription is stopped (a stop releases records and
\* so uses up deliveries).
LossNeedsFaults ==
    \A r \in Records :
        rec[r].st = "archived" /\ r \notin handled \cup dlq /\ scn.stops = {} =>
            faults > DeliveryLimit - MaxDeliveryAttempts

\* Every record is settled or archived in the end, as long as one client stays.
EverySettled ==
    Steady # {} =>
        \A r \in Records :
            rec[r].st # "unborn" ~> rec[r].st \in {"accepted", "rejected", "archived"}

\* Close returns, and not before the producer's last dead letter is written and
\* every session has ended.
CloseCompletes ==
    \A c \in Clients :
        state[c] = "closing" ~> \/ state[c] = "crashed"
                                \/ state[c] = "closed" /\ \A k \in Own(c) : consumer[k] \in {"off", "gone"}
===============================================================================
