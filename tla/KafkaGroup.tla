------------------------------ MODULE KafkaGroup ------------------------------
(***************************************************************************)
(* pkg/infra/kafka.go, classic consumer group: kafkaGroupRunner with one   *)
(* serial kafkaPartitionWorker per assigned partition, the rebalance       *)
(* callbacks assign, revoke and lose, runSession, and what stops a         *)
(* subscription (internal/mqruntime Subscription).                         *)
(*                                                                         *)
(* The broker and the franz-go client are external: a member fetches from  *)
(* the committed offset on and, while nothing is committed, from the end   *)
(* of the log or from its beginning (WithKafkaStartOffset); a commit of a  *)
(* member the broker has removed fails; callbacks and polls exclude each   *)
(* other (BlockRebalanceOnPoll); the client forgets the marks of           *)
(* partitions it has given up.  Producers are external too.                *)
(***************************************************************************)
EXTENDS Integers, Sequences, FiniteSets, FiniteSetsExt, Functions

CONSTANTS
    Members,       \* subscriptions of one group
    Earliest,      \* those of them that ask for the earliest start; default: latest
    Partitions, LastOffset,   \* bound: the records of a partition are 0..LastOffset
    Backlog,       \* records of a partition before the group exists
    Concurrency, BatchSize, MaxRetries,
    Poison,        \* offsets that the handler may fail on
    DLQDown,       \* the dead letter topic never answers
    MaxMoves,      \* bound: revocations, kicks, lost clients and stops,
    MaxLate,       \* ... and the further ones that meet a runner shutting down
    MaxWorkers     \* bound: partition workers made

ASSUME KafkaGroupAssumption ==
    /\ {LastOffset, MaxRetries, MaxMoves, MaxLate, MaxWorkers} \subseteq Nat
    /\ {Concurrency, BatchSize} \subseteq Nat \ {0} /\ Backlog \in 0..(LastOffset + 1)
    /\ DLQDown \in BOOLEAN /\ 0 \notin Members \cup Partitions /\ Earliest \subseteq Members

VARIABLES
    owner, committed,   \* broker, by partition; owner 0: nobody; committed 0: nothing yet
    end,       \* end[p]: where the next record of p goes
    joined,    \* joined[m]: the broker takes m for a member
    client,    \* client[m]: the consumer client of m
    fetch,     \* fetch[m]: what PollRecords returned, until AllowRebalance
    callback,  \* callback[m]: the rebalance callback under way
    session,   \* session[m]: where runSession is
    sub,       \* sub[m]: open, stopped (pollCtx) or aborted (workCtx too)
    workers,   \* workers[m][p]: r.workers; 0: none
    worker,    \* worker[i]: the i-th worker made
    slots,     \* slots[m]: taken slots of the subscription
    settled,   \* records handled, or in the dead letter topic
    start,     \* history: the highest position a worker of p began at while
               \* nothing was committed; NoStart: none did
    orphan,    \* history: the partition that a callback gave up while worker i
               \* of it was in the hands of shutdown; 0: none
    made, moves

vars == <<owner, committed, end, joined, client, fetch, callback, session, sub, workers, worker,
          slots, settled, start, orphan, made, moves>>
broker == <<owner, committed, end, joined>>
history == <<start, orphan>>

WorkerIds == 1..MaxWorkers
Offsets == 0..LastOffset
Positions == 0..(LastOffset + 1)
Record(p, o) == [part |-> p, offset |-> o]
NoStart == -1
NoFetch == <<>>
NoClient == [held |-> {}, pos |-> [p \in Partitions |-> 0],
             mark |-> [p \in Partitions |-> 0], paused |-> {}]
NoCallback == [at |-> "none", part |-> 0, worker |-> 0]
NoWorker == [member |-> 0, part |-> 0, pc |-> "none", queue |-> <<>>, paused |-> FALSE,
             revoked |-> FALSE, stopping |-> FALSE, cancelled |-> FALSE,
             offset |-> 0, attempt |-> 0]

Init == /\ owner = [p \in Partitions |-> 0]
        /\ committed = [p \in Partitions |-> 0]
        /\ end = [p \in Partitions |-> Backlog]
        /\ joined = [m \in Members |-> TRUE]
        /\ client = [m \in Members |-> NoClient]
        /\ fetch = [m \in Members |-> NoFetch]
        /\ callback = [m \in Members |-> NoCallback]
        /\ session = [m \in Members |-> "run"]
        /\ sub = [m \in Members |-> "open"]
        /\ workers = [m \in Members |-> [p \in Partitions |-> 0]]
        /\ worker = [i \in WorkerIds |-> NoWorker]
        /\ slots = [m \in Members |-> 0]
        /\ settled = {}
        /\ start = [p \in Partitions |-> NoStart]
        /\ orphan = [i \in WorkerIds |-> 0]
        /\ made = 0 /\ moves = 0

\* The bounds on what happens to m from outside.
Move(m) == /\ moves < (IF session[m] = "run" THEN MaxMoves ELSE MaxMoves + MaxLate)
           /\ moves' = moves + 1

\* A producer appends a record.
Publish(p) ==
    /\ end[p] <= LastOffset /\ end' = [end EXCEPT ![p] = @ + 1]
    /\ UNCHANGED <<owner, committed, joined, client, fetch, callback, session, sub, workers,
                   worker, slots, settled, history, made, moves>>

-------------------------------------------------------------------------------
(* Rebalances *)

\* Faulty: a rebalance runs while fetched records wait to be dispatched.
NeverBlocked(m) == callback[m] = NoCallback
\* No callback between PollRecords and AllowRebalance, and one at a time.
MayCall(m) == callback[m] = NoCallback /\ fetch[m] = NoFetch

\* Where a client of m begins with p: ConsumeStartOffset and ConsumeResetOffset.
StartOf(m, p) == IF committed[p] # 0 THEN committed[p] ELSE IF m \in Earliest THEN 0 ELSE end[p]
Held(m, p) == [client[m] EXCEPT !.held = @ \cup {p}, !.pos[p] = StartOf(m, p),
                                !.mark[p] = 0, !.paused = @ \ {p}]
Dropped(c, p) == [c EXCEPT !.held = @ \ {p}, !.mark[p] = 0, !.paused = @ \ {p}]

\* assign; a runner that is shutting down starts no worker.
Assign(m, p) ==
    /\ joined[m] /\ owner[p] = 0 /\ MayCall(m) /\ session[m] # "gone"
    /\ owner' = [owner EXCEPT ![p] = m]
    /\ client' = [client EXCEPT ![m] = Held(m, p)]
    /\ IF session[m] = "run"
       THEN /\ made < MaxWorkers /\ made' = made + 1
            /\ start' = IF committed[p] # 0 THEN start
                        ELSE [start EXCEPT ![p] = Max({@, StartOf(m, p)})]
            /\ workers' = [workers EXCEPT ![m][p] = made + 1]
            /\ worker' = [worker EXCEPT ![made + 1] =
                            [NoWorker EXCEPT !.member = m, !.part = p, !.pc = "next"]]
       ELSE UNCHANGED <<start, made, workers, worker>>
    /\ UNCHANGED <<committed, end, joined, fetch, callback, session, sub, slots, settled, orphan,
                   moves>>

\* detach: the callback takes the worker out of the map, and tells it to stop.
Detach(m, p, at, cancel) ==
    LET i == workers[m][p] IN
    /\ callback' = [callback EXCEPT ![m] = [at |-> at, part |-> p, worker |-> i]]
    /\ workers' = [workers EXCEPT ![m][p] = 0]
    /\ worker' = IF i = 0 THEN worker
                 ELSE [worker EXCEPT ![i] =
                         [worker[i] EXCEPT !.stopping = TRUE, !.cancelled = @ \/ cancel]]

RevokeBegins(m, p) ==
    /\ joined[m] /\ p \in client[m].held /\ MayCall(m) /\ Move(m)
    /\ Detach(m, p, "graceful", FALSE)
    /\ UNCHANGED <<broker, client, fetch, session, sub, slots, settled, history, made>>

\* m is no member any more, and its partitions may be assigned.
Removed(m) == /\ joined' = [joined EXCEPT ![m] = FALSE]
              /\ owner' = [p \in Partitions |-> IF owner[p] = m THEN 0 ELSE owner[p]]

\* The broker removes m.
Kick(m) ==
    /\ joined[m] /\ client[m].held # {} /\ Move(m) /\ Removed(m)
    /\ UNCHANGED <<committed, end, client, fetch, callback, session, sub, workers, worker, slots,
                   settled, history, made>>

\* lose cancels at once and waits only for the forced deadline.
LoseBegins(m, p) ==
    /\ ~joined[m] /\ p \in client[m].held /\ MayCall(m)
    /\ Detach(m, p, "lost", TRUE)
    /\ UNCHANGED <<broker, client, fetch, session, sub, slots, settled, history, made, moves>>

Ended(i) == i # 0 => worker[i].pc = "done"

\* stopWorkers: the graceful deadline passes with the handler still running.
CancelWorkers(m) ==
    LET i == callback[m].worker IN
    /\ callback[m].at = "graceful" /\ ~Ended(i)
    /\ callback' = [callback EXCEPT ![m].at = "forced"]
    /\ worker' = [worker EXCEPT ![i].cancelled = TRUE]
    /\ UNCHANGED <<broker, client, fetch, session, sub, workers, slots, settled, history, made,
                   moves>>

\* Faulty: the worker is not told that its partition is gone.
KeptWorker(w) == w
\* markRevoked
RevokedWorker(w) == IF w.pc = "done" THEN w ELSE [w EXCEPT !.revoked = TRUE, !.queue = <<>>]

\* Faulty: the callback does not wait for the handler.
NeverWaits(m) == callback[m].at # "none"
\* All have exited, or the forced deadline has passed.
StopWaited(m) == \/ callback[m].at = "graceful" /\ Ended(callback[m].worker)
                 \/ callback[m].at \in {"forced", "lost"}

\* Workers that shutdown took out of the map; a callback waits for its own.
ShutdownWorkers(m) == {i \in 1..made : worker[i].member = m /\ ~worker[i].revoked
                                       /\ i # callback[m].worker}
\* The client of m gives p up, whatever shutdown is still waiting for.
Orphaned(m, p) == orphan' = [i \in WorkerIds |->
    IF i \in ShutdownWorkers(m) /\ worker[i].part = p THEN p ELSE orphan[i]]

\* stopWorkers ends, resume follows; lose is over then, revoke commits.
HandOver(m) ==
    LET c == callback[m] IN
    /\ c.at \in {"graceful", "forced", "lost"} /\ StopWaited(m)
    /\ worker' = IF c.worker = 0 THEN worker
                 ELSE [worker EXCEPT ![c.worker] = RevokedWorker(@)]
    /\ IF c.at = "lost"
       THEN /\ client' = [client EXCEPT ![m] = Dropped(@, c.part)]
            /\ callback' = [callback EXCEPT ![m] = NoCallback]
            /\ Orphaned(m, c.part)
       ELSE /\ client' = [client EXCEPT ![m].paused = @ \ {c.part}]
            /\ callback' = [callback EXCEPT ![m].at = "commit"]
            /\ UNCHANGED orphan
    /\ UNCHANGED <<broker, fetch, session, sub, workers, slots, settled, start, made, moves>>

\* CommitMarkedOffsets, or the client's background commit: all marks of m.
CommitMarked(m) == committed' = [p \in Partitions |->
    IF client[m].mark[p] # 0 THEN client[m].mark[p] ELSE committed[p]]
Unmarked(c) == [c EXCEPT !.mark = [p \in Partitions |-> 0]]

\* commit in a callback or at the end: it works, or fails and is logged; the
\* client is left as done or as failed.
Commit(m, done, failed) ==
    \/ joined[m] /\ CommitMarked(m) /\ client' = [client EXCEPT ![m] = done]
    \/ client' = [client EXCEPT ![m] = failed] /\ UNCHANGED committed

\* revoke commits, and the broker may assign the partition again.
RevokeCommits(m) ==
    LET p == callback[m].part IN
    /\ callback[m].at = "commit"
    /\ Commit(m, Dropped(Unmarked(client[m]), p), Dropped(client[m], p))
    /\ owner' = [owner EXCEPT ![p] = IF @ = m THEN 0 ELSE @]
    /\ callback' = [callback EXCEPT ![m] = NoCallback]
    /\ Orphaned(m, p)
    /\ UNCHANGED <<end, joined, fetch, session, sub, workers, worker, slots, settled, start, made,
                   moves>>

AutoCommit(m) ==
    /\ joined[m] /\ \E p \in Partitions : client[m].mark[p] # 0
    /\ CommitMarked(m) /\ client' = [client EXCEPT ![m] = Unmarked(@)]
    /\ UNCHANGED <<owner, end, joined, fetch, callback, session, sub, workers, worker, slots,
                   settled, history, made, moves>>

Rejoin(m) ==
    /\ ~joined[m] /\ client[m].held = {} /\ MayCall(m) /\ session[m] \in {"run", "shutdown"}
    /\ joined' = [joined EXCEPT ![m] = TRUE]
    /\ UNCHANGED <<owner, committed, end, client, fetch, callback, session, sub, workers, worker,
                   slots, settled, history, made, moves>>

-------------------------------------------------------------------------------
(* consume, dispatch, shutdown, runSession, Stop *)

\* PollRecords, of one partition that is not paused.
Poll(m) ==
    /\ session[m] = "run" /\ sub[m] = "open" /\ callback[m] = NoCallback /\ fetch[m] = NoFetch
    /\ \E p \in client[m].held \ client[m].paused :
         LET from == client[m].pos[p]
             n == Min({BatchSize, end[p] - from}) IN
         /\ n > 0
         /\ fetch' = [fetch EXCEPT ![m] = [k \in 1..n |-> Record(p, from + k - 1)]]
         /\ client' = [client EXCEPT ![m].pos[p] = @ + n]
    /\ UNCHANGED <<broker, callback, session, sub, workers, worker, slots, settled, history, made,
                   moves>>

\* enqueue; from 2 * BatchSize records on the partition is paused.
Queued(w, recs) == LET q == w.queue \o [k \in DOMAIN recs |-> recs[k].offset] IN
    [w EXCEPT !.queue = q, !.paused = @ \/ Len(q) >= 2 * BatchSize]

\* dispatch, then AllowRebalance; without a worker the records are dropped.
Dispatch(m) ==
    LET recs == fetch[m]
        To == {i \in {workers[m][recs[1].part]} \ {0} : ~worker[i].revoked /\ ~Ended(i)} IN
    /\ session[m] = "run" /\ sub[m] = "open" /\ recs # NoFetch
    /\ fetch' = [fetch EXCEPT ![m] = NoFetch]
    /\ worker' = [i \in WorkerIds |-> IF i \in To THEN Queued(worker[i], recs) ELSE worker[i]]
    /\ client' = [client EXCEPT ![m].paused =
                     @ \cup {recs[1].part : i \in {j \in To : worker'[j].paused}}]
    /\ UNCHANGED <<broker, callback, session, sub, workers, slots, settled, history, made, moves>>

\* Subscription.Stop or Close: no more polls ...
Stop(m) ==
    /\ sub[m] = "open" /\ Move(m) /\ sub' = [sub EXCEPT ![m] = "stopped"]
    /\ UNCHANGED <<broker, client, fetch, callback, session, workers, worker, slots, settled,
                   history, made>>

\* ... and, when its context ends before the subscription, no more work.
Abort(m) ==
    /\ sub[m] = "stopped" /\ session[m] # "gone" /\ sub' = [sub EXCEPT ![m] = "aborted"]
    /\ UNCHANGED <<broker, client, fetch, callback, session, workers, worker, slots, settled,
                   history, made, moves>>

\* consume returns, stopped or with a client that is closed; shutdown begins.
ShutdownBegins(m) ==
    /\ session[m] = "run"
    /\ \/ /\ sub[m] # "open" /\ session' = [session EXCEPT ![m] = "shutdown"]
          /\ UNCHANGED <<owner, joined, moves>>
       \/ /\ sub[m] = "open" /\ fetch[m] = NoFetch /\ callback[m] = NoCallback /\ Move(m)
          /\ session' = [session EXCEPT ![m] = "closed"] /\ Removed(m)
    /\ fetch' = [fetch EXCEPT ![m] = NoFetch]
    /\ workers' = [workers EXCEPT ![m] = [p \in Partitions |-> 0]]
    /\ worker' = [i \in WorkerIds |-> IF i \in Range(workers[m])
                                      THEN [worker[i] EXCEPT !.stopping = TRUE] ELSE worker[i]]
    /\ UNCHANGED <<committed, end, client, callback, sub, slots, settled, history, made>>

\* shutdown waits without a deadline, then commits.
ShutdownEnds(m) ==
    /\ session[m] \in {"shutdown", "closed"} /\ \A i \in ShutdownWorkers(m) : Ended(i)
    /\ session' = [session EXCEPT ![m] = "leaving"]
    /\ worker' = [i \in WorkerIds |-> IF i \in ShutdownWorkers(m)
                                      THEN RevokedWorker(worker[i]) ELSE worker[i]]
    /\ Commit(m, Unmarked(client[m]), client[m])
    /\ UNCHANGED <<owner, end, joined, fetch, callback, sub, workers, slots, settled, history,
                   made, moves>>

\* CloseAllowingRebalance leaves the group; its revoke callback finds no
\* workers and commits what is left.
Leave(m) ==
    /\ session[m] = "leaving" /\ callback[m] = NoCallback
    /\ session' = [session EXCEPT ![m] = "gone"]
    /\ Commit(m, NoClient, NoClient) /\ Removed(m)
    /\ UNCHANGED <<end, fetch, callback, sub, workers, worker, slots, settled, history, made,
                   moves>>

\* runSession makes a new client and a new runner, with the same slots.
Rebuild(m) ==
    /\ session[m] = "gone" /\ sub[m] = "open"
    /\ session' = [session EXCEPT ![m] = "run"]
    /\ joined' = [joined EXCEPT ![m] = TRUE]
    /\ UNCHANGED <<owner, committed, end, client, fetch, callback, sub, workers, worker, slots,
                   settled, history, made, moves>>

-------------------------------------------------------------------------------
(* runWorker, process *)

Goto(i, pc) == worker' = [worker EXCEPT ![i].pc = pc]
Cancelled(i) == worker[i].cancelled \/ sub[worker[i].member] = "aborted"
\* Faulty: only a cancelled worker stops waiting.
StoppedByContext(i) == Cancelled(i)
Stopped(i) == worker[i].stopping \/ Cancelled(i)

SlotFreed(m) == [slots EXCEPT ![m] = @ - 1]

\* The worker exits, outside and inside process.
Exit(i) == worker' = [worker EXCEPT ![i] = [NoWorker EXCEPT !.pc = "done"]] /\ UNCHANGED slots
Abandon(i) == /\ worker' = [worker EXCEPT ![i] = [NoWorker EXCEPT !.pc = "done"]]
              /\ slots' = SlotFreed(worker[i].member)

Same == UNCHANGED <<broker, fetch, callback, session, sub, workers, history, made, moves>>

\* Faulty: a paused partition stays so.
NeverResumes(w) == FALSE
\* With this record taken, BatchSize or fewer are left of a paused partition.
Resumes(w) == w.paused /\ Len(w.queue) - 1 <= BatchSize

\* next takes a record when there is one.
TakeNext(i) ==
    LET w == worker[i]
        resume == Resumes(w) IN
    /\ w.pc = "next" /\ ~w.stopping /\ w.queue # <<>>
    /\ worker' = [worker EXCEPT ![i] =
                    [w EXCEPT !.pc = "acquire", !.offset = Head(w.queue), !.queue = Tail(w.queue),
                              !.paused = @ /\ ~resume, !.attempt = 0]]
    /\ client' = IF resume THEN [client EXCEPT ![w.member].paused = @ \ {w.part}] ELSE client
    /\ Same /\ UNCHANGED <<slots, settled>>

\* next or acquire sees stopping or, where it waits, the cancelled context.
WorkerStops(i) ==
    /\ worker[i].pc \in {"next", "acquire"} /\ Stopped(i)
    /\ worker[i].pc = "next" => worker[i].stopping \/ worker[i].queue = <<>>
    /\ Exit(i) /\ Same /\ UNCHANGED <<client, settled>>

Acquire(i) ==
    LET m == worker[i].member IN
    /\ worker[i].pc = "acquire" /\ slots[m] < Concurrency /\ ~Stopped(i)
    /\ slots' = [slots EXCEPT ![m] = @ + 1]
    /\ Goto(i, "handle") /\ Same /\ UNCHANGED <<client, settled>>

\* handleKafkaMessage; a result that comes after the cancellation does not count.
HandlerSucceeds(i) ==
    /\ worker[i].pc = "handle"
    /\ settled' = settled \cup {Record(worker[i].part, worker[i].offset)}
    /\ IF Cancelled(i) THEN Abandon(i)
       ELSE slots' = SlotFreed(worker[i].member) /\ Goto(i, "complete")
    /\ Same /\ UNCHANGED <<client>>

HandlerFails(i) ==
    /\ worker[i].pc = "handle" /\ (worker[i].offset \in Poison \/ Cancelled(i))
    /\ IF Cancelled(i) THEN Abandon(i)
       ELSE /\ UNCHANGED slots
            /\ Goto(i, IF worker[i].attempt >= MaxRetries THEN "dlq" ELSE "backoff")
    /\ Same /\ UNCHANGED <<client, settled>>

\* The delay before another attempt, or before another dead letter.
Waited(i) ==
    LET w == worker[i] IN
    /\ w.pc \in {"backoff", "dlqwait"}
    /\ worker' = [worker EXCEPT ![i] =
                    IF w.pc = "backoff" THEN [w EXCEPT !.pc = "handle", !.attempt = @ + 1]
                    ELSE [w EXCEPT !.pc = "dlq"]]
    /\ Same /\ UNCHANGED <<client, slots, settled>>

WaitStops(i) ==
    /\ worker[i].pc \in {"backoff", "dlqwait"} /\ Stopped(i)
    /\ Abandon(i) /\ Same /\ UNCHANGED <<client, settled>>

\* publishKafkaDLQ
DeadLetter(i) ==
    /\ worker[i].pc = "dlq" /\ ~DLQDown
    /\ settled' = settled \cup {Record(worker[i].part, worker[i].offset)}
    /\ slots' = SlotFreed(worker[i].member) /\ Goto(i, "complete")
    /\ Same /\ UNCHANGED <<client>>

DeadLetterFails(i) ==
    /\ worker[i].pc = "dlq"
    /\ IF Cancelled(i) THEN Abandon(i) ELSE Goto(i, "dlqwait") /\ UNCHANGED slots
    /\ Same /\ UNCHANGED <<client, settled>>

\* complete marks the record for the next commit.
Complete(i) ==
    LET w == worker[i] IN
    /\ w.pc = "complete" /\ Goto(i, "next")
    /\ client' = IF w.revoked THEN client
                 ELSE [client EXCEPT ![w.member].mark[w.part] = Max({@, w.offset + 1})]
    /\ Same /\ UNCHANGED <<slots, settled>>

WorkerStep(i) == \/ TakeNext(i) \/ WorkerStops(i) \/ Acquire(i)
                 \/ HandlerSucceeds(i) \/ HandlerFails(i) \/ Waited(i) \/ WaitStops(i)
                 \/ DeadLetter(i) \/ DeadLetterFails(i) \/ Complete(i)

\* What the member and its client do by themselves.
MemberStep(m) == \/ \E p \in Partitions : Assign(m, p) \/ LoseBegins(m, p)
                 \/ CancelWorkers(m) \/ HandOver(m) \/ RevokeCommits(m) \/ AutoCommit(m)
                 \/ Rejoin(m) \/ Poll(m) \/ Dispatch(m) \/ ShutdownEnds(m) \/ Leave(m)
                 \/ Rebuild(m)

Next == \/ \E i \in WorkerIds : WorkerStep(i)
        \/ \E m \in Members :
             \/ MemberStep(m) \/ Kick(m) \/ Stop(m) \/ Abort(m) \/ ShutdownBegins(m)
             \/ \E p \in Partitions : RevokeBegins(m, p)
        \/ \E p \in Partitions : Publish(p)

Spec == Init /\ [][Next]_vars

\* Goroutines run, handlers return (they have a timeout), a dead letter topic
\* that is up takes a record in the end, the broker assigns free partitions,
\* and a poll ends when its context does.
FairSpec == /\ Spec
            /\ \A i \in WorkerIds : /\ WF_vars(WorkerStep(i))
                                    /\ SF_vars(DeadLetter(i))
            /\ \A m \in Members : /\ WF_vars(MemberStep(m))
                                  /\ WF_vars(sub[m] # "open" /\ ShutdownBegins(m))

-------------------------------------------------------------------------------
\* What a client, a callback and a worker may be.
Clients == [held : SUBSET Partitions, pos : [Partitions -> Positions],
            mark : [Partitions -> Positions], paused : SUBSET Partitions]
Callbacks == [at : {"none", "graceful", "forced", "lost", "commit"},
              part : Partitions \cup {0}, worker : 0..MaxWorkers]
Jobs == [member : Members \cup {0}, part : Partitions \cup {0},
         pc : {"none", "next", "acquire", "handle", "backoff", "dlq", "dlqwait", "complete", "done"},
         queue : Seq(Offsets), paused : BOOLEAN, revoked : BOOLEAN, stopping : BOOLEAN,
         cancelled : BOOLEAN, offset : Offsets, attempt : 0..MaxRetries]

\* The backlog of a worker is bounded by the pause.
TypeOK ==
    /\ owner \in [Partitions -> Members \cup {0}]
    /\ committed \in [Partitions -> Positions]
    /\ end \in [Partitions -> Positions]
    /\ joined \in [Members -> BOOLEAN]
    /\ client \in [Members -> Clients]
    /\ fetch \in [Members -> Seq([part : Partitions, offset : Offsets])]
    /\ callback \in [Members -> Callbacks]
    /\ session \in [Members -> {"run", "shutdown", "closed", "leaving", "gone"}]
    /\ sub \in [Members -> {"open", "stopped", "aborted"}]
    /\ workers \in [Members -> [Partitions -> 0..MaxWorkers]]
    /\ worker \in [WorkerIds -> Jobs]
    /\ \A i \in WorkerIds : Len(worker[i].queue) < 3 * BatchSize
    /\ slots \in [Members -> 0..Concurrency]
    /\ settled \subseteq [part : Partitions, offset : Offsets]
    /\ start \in [Partitions -> Positions \cup {NoStart}]
    /\ orphan \in [WorkerIds -> Partitions \cup {0}]
    /\ made \in 0..MaxWorkers /\ moves \in 0..(MaxMoves + MaxLate)

(***************************************************************************)
(* No record is lost: what lies below a committed offset has been handled  *)
(* or is in the dead letter topic, whatever rebalances, kicks, stops and   *)
(* lost clients did in between (MarkCommitRecords after process only;      *)
(* BlockRebalanceOnPoll around dispatch; markRevoked), but for what lies   *)
(* below the position a worker began at while nothing was committed        *)
(* (ConsumeStartOffset).                                                   *)
(***************************************************************************)
CommittedIsSettled == \A p \in Partitions : \A o \in 0..(committed[p] - 1) :
    o < start[p] \/ Record(p, o) \in settled

(***************************************************************************)
(* The comment in dispatch: what a member gives up unhandled, the next one *)
(* fetches again.  It fails for members outside Earliest, which begin at   *)
(* the end of the log again as long as nothing is committed.               *)
(***************************************************************************)
NothingSkipped == [][\A p \in Partitions : start[p] # NoStart =>
    \A o \in start[p]..(start'[p] - 1) : Record(p, o) \in settled]_vars

(***************************************************************************)
(* A committed offset never goes back: a member that has given a partition *)
(* up does not commit it any more (stopWorkers, markRevoked), unless a     *)
(* callback gave it up while shutdown was waiting for its worker.          *)
(***************************************************************************)
CommitsAdvance == [][\A p \in Partitions :
    (\A i \in WorkerIds : orphan[i] # p) => committed'[p] >= committed[p]]_vars

InProcess(i) == worker[i].pc \in {"handle", "backoff", "dlq", "dlqwait"}

(***************************************************************************)
(* While a partition's record is in process nobody else works on the       *)
(* partition, unless the first one's context is cancelled, the broker has  *)
(* removed it (revoke waits, cancels, waits again), or a callback gave the *)
(* partition up while shutdown was waiting for it.                         *)
(***************************************************************************)
OneWorkerPerPartition ==
    \A i, j \in 1..made : i # j /\ InProcess(i) /\ InProcess(j)
                          /\ worker[i].part = worker[j].part =>
        \E k \in {i, j} : Cancelled(k) \/ ~joined[worker[k].member] \/ orphan[k] # 0

(***************************************************************************)
(* The slots of a subscription are exactly those of its records in         *)
(* process, those of handed over partitions and former clients included,   *)
(* so that at most Concurrency handlers run and none is lost for good.     *)
(***************************************************************************)
SlotsAccounted == \A m \in Members :
    slots[m] = Cardinality({i \in 1..made : worker[i].member = m /\ InProcess(i)})

Over == \A m \in Members : sub[m] # "open"

(***************************************************************************)
(* Every record published is settled in the end unless all subscriptions   *)
(* are stopped (pause and resume, notify, slots, retries, rebalances), or  *)
(* a worker began above it while nothing was committed.                    *)
(***************************************************************************)
EventuallySettled == \A p \in Partitions :
    []<>(Over \/ \A o \in 0..(end[p] - 1) : o < start[p] \/ Record(p, o) \in settled)

(***************************************************************************)
(* A stopped subscription leaves the group (Stop waits for done).          *)
(***************************************************************************)
StopCompletes == \A m \in Members : sub[m] # "open" ~> session[m] = "gone"

Troubled(p) == \E i \in 1..made : worker[i].part = p /\ worker[i].pc \in {"dlq", "dlqwait"}

(***************************************************************************)
(* A dead letter topic that is down blocks the partition of the failed     *)
(* record only (KafkaConfig, process).                                     *)
(***************************************************************************)
DLQBlocksOnePartition == \A p \in Partitions :
    []<>(\/ Over \/ Troubled(p)
         \/ \A o \in 0..(end[p] - 1) : o < start[p] \/ Record(p, o) \in settled)
===============================================================================
