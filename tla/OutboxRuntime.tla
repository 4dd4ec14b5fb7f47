----------------------------- MODULE OutboxRuntime -----------------------------
(***************************************************************************)
(* The goroutines of one Outbox value (pkg/outbox, outbox.go and           *)
(* worker.go): the scan loop, the coordinate loop, the fixed workers, the  *)
(* callers inside Dispatch, Transaction (Publish is one with a single      *)
(* message) and ScanOnce, and Close.  What they share is the slots         *)
(* semaphore, the jobs and wake channels, the component context and the    *)
(* closed barrier.                                                         *)
(*                                                                         *)
(* Which messages are due is the environment's choice: a query may find    *)
(* any number of ready shards and a claim may return any number of tasks   *)
(* up to its limit, or fail.                                               *)
(***************************************************************************)
EXTENDS Integers, FiniteSets

CONSTANTS
    Workers,      \* the WorkerCount background workers
    Dispatchers,  \* callers of Dispatch, Transaction and Publish
    ScanCallers,  \* callers of ScanOnce
    BatchSize,
    MaxReady,     \* bound: ready shards found by one scan
    MaxIDs,       \* bound: ids of one Dispatch, messages of one transaction
    MaxCalls,     \* bound: public operations begun
    Scenarios     \* bound: which caller calls what, as sets of <<caller, operation>>

ASSUME RuntimeAssumption ==
    /\ IsFiniteSet(Workers) /\ Workers # {}
    /\ {BatchSize, MaxReady, MaxIDs} \subseteq Nat \ {0} /\ MaxCalls \in Nat
    /\ IsFiniteSet(Dispatchers) /\ IsFiniteSet(ScanCallers)
    /\ Dispatchers \cap ScanCallers = {} /\ "scanner" \notin Dispatchers \cup ScanCallers
    /\ \A s \in Scenarios : s \subseteq (ScanCallers \X {"scan"}) \cup
                                      (Dispatchers \X {"dispatch", "transaction", "call"})

Scanner == "scanner"
Callers == Dispatchers \cup ScanCallers
Reservers == {Scanner} \cup Callers      \* who takes slots before a claim
WorkerCount == Cardinality(Workers)

VARIABLES
    scn,      \* the scenario; it never changes
    slots,    \* occupancy of the slots channel
    jobs,     \* tasks in the jobs channel
    jobsOpen, \* the scan loop has not closed the jobs channel
    wake,     \* a token is in the wake channel
    worker,   \* worker[w]: what the worker is doing
    pc,       \* pc[p]: where the scan loop or the caller is
    held,     \* held[p]: slots reserved for a claim under way
    mine,     \* mine[p]: claimed tasks to queue (scan loop) or running (callers)
    left,     \* left[p]: what remains of the batch or of the ids
    ready,    \* ready[p]: ready shards still to visit
    tx,       \* tx[d]: the Tx of a caller inside Transaction
    starved,  \* history: the last scan stopped because no slot was free
    coord,    \* the coordinate loop is running
    done,     \* the component context is cancelled
    closed,   \* Close was called
    released, \* Close has released the node and returned
    called    \* public operations begun so far

chans == <<slots, jobs, jobsOpen, wake>>
life == <<scn, coord, done, closed, released, called>>
procs == <<pc, held, mine, left, ready, tx, starved>>
vars == <<chans, worker, procs, life>>

\* Of a Tx: the rows inserted in its SQL transaction, the ids it has returned,
\* the sticky error and the closed flag.  Ghost: some Enqueue failed.
NoTx == [rows |-> 0, ids |-> 0, err |-> FALSE, closed |-> FALSE, refused |-> FALSE]

Smaller(a, b) == IF a < b THEN a ELSE b
FreeSlots == WorkerCount - slots

Init == /\ scn \in Scenarios
        /\ slots = 0 /\ jobs = 0 /\ jobsOpen = TRUE
        /\ wake = TRUE          \* scanLoop notifies itself when it starts
        /\ worker = [w \in Workers |-> "idle"]
        /\ pc = [p \in Reservers |-> IF p = Scanner THEN "select" ELSE "out"]
        /\ held = [p \in Reservers |-> 0]
        /\ mine = [p \in Reservers |-> 0]
        /\ left = [p \in Reservers |-> 0]
        /\ ready = [p \in Reservers |-> 0]
        /\ tx = [d \in Dispatchers |-> NoTx]
        /\ starved = "no"
        /\ coord = TRUE /\ done = FALSE /\ closed = FALSE /\ released = FALSE
        /\ called = 0

-------------------------------------------------------------------------------
(* scanLoop and scan; ScanOnce runs the same scan in its caller. *)

\* The ticker fires, or a wake token is taken.
ScanWakes ==
    /\ pc[Scanner] = "select"
    /\ wake' \in {wake, FALSE}
    /\ pc' = [pc EXCEPT ![Scanner] = "query"]
    /\ starved' = "no"
    /\ UNCHANGED <<slots, jobs, jobsOpen, worker, held, mine, left, ready, tx, life>>

\* Faulty: the jobs channel stays open.
ScannerExitsOnly ==
    /\ pc[Scanner] = "select" /\ done
    /\ pc' = [pc EXCEPT ![Scanner] = "exited"]
    /\ UNCHANGED <<chans, worker, held, mine, left, ready, tx, starved, life>>

\* The context is done: the loop ends and closes the jobs channel.
ScannerExits ==
    /\ pc[Scanner] = "select" /\ done
    /\ pc' = [pc EXCEPT ![Scanner] = "exited"]
    /\ jobsOpen' = FALSE
    /\ UNCHANGED <<slots, jobs, wake, worker, held, mine, left, ready, tx, starved, life>>

\* The scan is over (cleanupIfDue touches nothing modelled here).
ScanEnds(p) ==
    /\ pc' = [pc EXCEPT ![p] = IF p = Scanner THEN "select" ELSE "out"]
    /\ left' = [left EXCEPT ![p] = 0] /\ ready' = [ready EXCEPT ![p] = 0]

\* owned and readyShards (ScanOnce refreshes the leases first): nothing to do
\* or an error, or some ready shards.
Query(p) ==
    /\ pc[p] = "query"
    /\ \/ ScanEnds(p)
       \/ /\ \E n \in 1..MaxReady : ready' = [ready EXCEPT ![p] = n]
          /\ left' = [left EXCEPT ![p] = BatchSize]
          /\ pc' = [pc EXCEPT ![p] = "reserve"]
    /\ UNCHANGED <<chans, worker, held, mine, tx, starved, life>>

\* A caller's own context may be done at any time.
ContextDone(p) == done \/ p \in Callers

\* reserve: each slot is taken on its own, so a racing reserver may leave
\* fewer than there were, but at least one if it got the first.
TakeSlots(p, limit) ==
    \E n \in 1..Smaller(limit, FreeSlots) :
        /\ slots' = slots + n
        /\ held' = [held EXCEPT ![p] = n]
        /\ pc' = [pc EXCEPT ![p] = "claim"]

\* One round of scan's loop up to reserve, which does not wait.
ScanReserve(p) ==
    /\ p \notin Dispatchers /\ pc[p] = "reserve"
    /\ LET over == ready[p] = 0 \/ left[p] = 0 IN
       \/ /\ over \/ ContextDone(p)
          /\ ScanEnds(p)
          /\ UNCHANGED <<slots, held, starved>>
       \/ /\ ~over /\ FreeSlots = 0
          /\ ScanEnds(p)
          /\ starved' = IF p # Scanner THEN starved ELSE
                        IF \E c \in ScanCallers : held[c] + mine[c] > 0 THEN "manual" ELSE "yes"
          /\ UNCHANGED <<slots, held>>
       \/ ~over /\ TakeSlots(p, left[p]) /\ UNCHANGED <<left, ready, starved>>
    /\ UNCHANGED <<jobs, jobsOpen, wake, worker, mine, tx, life>>

\* claimShard: unused slots go back, all of them when the claim fails.
ScanClaim(p) ==
    /\ p \notin Dispatchers /\ pc[p] = "claim"
    /\ \E k \in 0..held[p], ok \in BOOLEAN :
         /\ ~ok => k = 0
         /\ slots' = slots - (held[p] - k)
         /\ mine' = [mine EXCEPT ![p] = k]
         /\ left' = [left EXCEPT ![p] = @ - k]
         /\ pc' = [pc EXCEPT ![p] = IF ~ok THEN "reserve" ELSE IF p = Scanner THEN "push" ELSE "run"]
    /\ held' = [held EXCEPT ![p] = 0]
    /\ ready' = [ready EXCEPT ![p] = @ - 1]
    /\ UNCHANGED <<jobs, jobsOpen, wake, worker, tx, starved, life>>

\* The scan loop queues its tasks one by one; the channel holds WorkerCount.
Push ==
    /\ pc[Scanner] = "push" /\ mine[Scanner] > 0 /\ jobs < WorkerCount
    /\ jobs' = jobs + 1
    /\ mine' = [mine EXCEPT ![Scanner] = @ - 1]
    /\ UNCHANGED <<slots, jobsOpen, wake, worker, pc, held, left, ready, tx, starved, life>>

\* runTasks: one of the caller's goroutines ends and frees its slot.
TaskEnds(c) ==
    /\ c \in Callers /\ pc[c] = "run" /\ mine[c] > 0
    /\ mine' = [mine EXCEPT ![c] = @ - 1]
    /\ slots' = slots - 1
    /\ UNCHANGED <<jobs, jobsOpen, wake, worker, pc, held, left, ready, tx, starved, life>>

\* All tasks of the claim are queued, or have ended: the next round.
NextRound(p) ==
    /\ pc[p] \in {"push", "run"} /\ mine[p] = 0
    /\ pc' = [pc EXCEPT ![p] = "reserve"]
    /\ UNCHANGED <<chans, worker, held, mine, left, ready, tx, starved, life>>

-------------------------------------------------------------------------------
(* Public operations *)

\* begin: refused once closed or cancelled, else counted in operations.
Accepts == ~closed /\ ~done

\* ScanOnce; or Dispatch of some ids; or Transaction up to its callback; or Get,
\* Retry or EnqueueTx in a transaction of the caller's own (call).
Begin(c) ==
    /\ pc[c] = "out" /\ Accepts
    /\ called < MaxCalls /\ called' = called + 1
    /\ \/ /\ <<c, "scan">> \in scn
          /\ pc' = [pc EXCEPT ![c] = "query"] /\ UNCHANGED left
       \/ /\ <<c, "dispatch">> \in scn
          /\ pc' = [pc EXCEPT ![c] = "reserve"]
          /\ \E n \in 1..MaxIDs : left' = [left EXCEPT ![c] = n]
       \/ /\ <<c, "transaction">> \in scn
          /\ pc' = [pc EXCEPT ![c] = "callback"] /\ UNCHANGED left
       \/ /\ <<c, "call">> \in scn
          /\ pc' = [pc EXCEPT ![c] = "call"] /\ UNCHANGED left
    /\ UNCHANGED <<chans, worker, held, mine, ready, tx, starved, scn, coord, done, closed, released>>

\* Get, Retry or EnqueueTx ends; a Retry that reset a row wakes the scan loop.
End(d) ==
    /\ d \in Dispatchers /\ pc[d] = "call"
    /\ wake' \in {wake, TRUE}
    /\ pc' = [pc EXCEPT ![d] = "out"]
    /\ UNCHANGED <<slots, jobs, jobsOpen, worker, held, mine, left, ready, tx, starved, life>>

-------------------------------------------------------------------------------
(* Transaction *)

InTransaction(d) == pc[d] \in {"callback", "commit", "committed"}

\* Faulty: an Enqueue that fails leaves the transaction as it is.
EnqueueFails(t, inserted) == [t EXCEPT !.rows = inserted, !.refused = TRUE]

\* EnqueueTx returned an error: the transaction is doomed.
EnqueueDooms(t, inserted) == [t EXCEPT !.rows = inserted, !.refused = TRUE, !.err = TRUE]

Becomes(d, t) == tx' = [tx EXCEPT ![d] = t]

\* EnqueueTx is an operation of its own, which begin has to accept.  A row may
\* be there although the insert returned an error.
EnqueueTx(d, t) ==
    /\ Accepts /\ called < MaxCalls /\ called' = called + 1 /\ t.rows < MaxIDs
    /\ \/ Becomes(d, [t EXCEPT !.rows = @ + 1, !.ids = @ + 1])
       \/ Becomes(d, EnqueueDooms(t, t.rows + 1))

\* Tx.Enqueue under the Tx's lock, by the callback or by a goroutine it started,
\* which may be late: after close it is an error without effect.  The message is
\* invalid, begin refuses (Close, the caller's done context), or it is inserted.
Enqueue(d) ==
    LET t == tx[d] IN
    /\ InTransaction(d) /\ ~t.closed /\ ~t.err
    /\ \/ Becomes(d, EnqueueDooms(t, t.rows)) /\ UNCHANGED called
       \/ EnqueueTx(d, t)
    /\ UNCHANGED <<chans, worker, pc, held, mine, left, ready, starved, scn, coord, done, closed, released>>

\* Where the transaction goes on; its Tx is of no use any more when it is out.
Transact(d, pc0, t) ==
    /\ d \in Dispatchers
    /\ pc' = [pc EXCEPT ![d] = pc0]
    /\ tx' = [tx EXCEPT ![d] = t]
    /\ UNCHANGED <<chans, worker, held, mine, ready, starved, life>>

\* The callback returns an error or panics, or returns nil whatever its Enqueues
\* said; the Tx is closed.
CallbackReturns(d) ==
    /\ pc[d] = "callback"
    /\ \/ Transact(d, "out", NoTx)
       \/ ~tx[d].err /\ Transact(d, "commit", [tx[d] EXCEPT !.closed = TRUE])
    /\ UNCHANGED left

\* Commit fails, or takes effect.
Commit(d) ==
    /\ pc[d] = "commit"
    /\ Transact(d, "out", NoTx) \/ Transact(d, "committed", tx[d])
    /\ UNCHANGED left

\* Its answer arrives and the ids are dispatched, or it is lost: an error.
Committed(d) ==
    /\ pc[d] = "committed"
    /\ \/ Transact(d, "reserve", NoTx) /\ left' = [left EXCEPT ![d] = tx[d].ids]
       \/ Transact(d, "out", NoTx) /\ UNCHANGED left

-------------------------------------------------------------------------------
(* Dispatch *)

\* dispatch: reserve waits for a first slot or the end of its context.
DispatchReserve(d) ==
    /\ d \in Dispatchers /\ pc[d] = "reserve"
    /\ \/ /\ left[d] = 0 \/ ContextDone(d)
          /\ pc' = [pc EXCEPT ![d] = "notify"]
          /\ UNCHANGED <<slots, held>>
       \/ left[d] > 0 /\ TakeSlots(d, Smaller(left[d], BatchSize))
    /\ UNCHANGED <<jobs, jobsOpen, wake, worker, mine, left, ready, tx, starved, life>>

\* claimIDs of the next ids; they are done with, whatever came back.
DispatchClaim(d) ==
    /\ d \in Dispatchers /\ pc[d] = "claim"
    /\ \E k \in 0..held[d] :
         /\ slots' = slots - (held[d] - k)
         /\ mine' = [mine EXCEPT ![d] = k]
    /\ left' = [left EXCEPT ![d] = @ - held[d]]
    /\ held' = [held EXCEPT ![d] = 0]
    /\ pc' = [pc EXCEPT ![d] = "run"]
    /\ UNCHANGED <<jobs, jobsOpen, wake, worker, ready, tx, starved, life>>

\* dispatch wakes the scan loop before it returns.
DispatchEnds(d) ==
    /\ d \in Dispatchers /\ pc[d] = "notify"
    /\ wake' = TRUE
    /\ pc' = [pc EXCEPT ![d] = "out"]
    /\ left' = [left EXCEPT ![d] = 0]
    /\ UNCHANGED <<slots, jobs, jobsOpen, worker, held, mine, ready, tx, starved, life>>

-------------------------------------------------------------------------------
(* Workers, the coordinate loop and Close *)

WorkerTakes(w) ==
    /\ worker[w] = "idle" /\ jobs > 0
    /\ jobs' = jobs - 1
    /\ worker' = [worker EXCEPT ![w] = "executing"]
    /\ UNCHANGED <<slots, jobsOpen, wake, procs, life>>

WorkerExits(w) ==
    /\ worker[w] = "idle" /\ jobs = 0 /\ ~jobsOpen
    /\ worker' = [worker EXCEPT ![w] = "exited"]
    /\ UNCHANGED <<chans, procs, life>>

\* Faulty: the worker forgets to wake the scan loop.
WorkerSkipsNotify(w) ==
    /\ worker[w] = "notify"
    /\ worker' = [worker EXCEPT ![w] = "idle"]
    /\ UNCHANGED <<chans, procs, life>>

\* execute returns (the callback ended and finish was tried); unreserve.
WorkerFinishes(w) ==
    /\ worker[w] = "executing"
    /\ slots' = slots - 1
    /\ worker' = [worker EXCEPT ![w] = "notify"]
    /\ UNCHANGED <<jobs, jobsOpen, wake, procs, life>>

WorkerNotifies(w) ==
    /\ worker[w] = "notify"
    /\ wake' = TRUE
    /\ worker' = [worker EXCEPT ![w] = "idle"]
    /\ UNCHANGED <<slots, jobs, jobsOpen, procs, life>>

\* A successful refresh wakes the scan loop.
Coordinate == /\ coord
              /\ wake' = TRUE
              /\ UNCHANGED <<slots, jobs, jobsOpen, worker, procs, life>>

CoordinateExits == /\ coord /\ done
                   /\ coord' = FALSE
                   /\ UNCHANGED <<chans, worker, procs, scn, done, closed, released, called>>

\* The context given to New is cancelled.
Cancel == /\ ~done
          /\ done' = TRUE
          /\ UNCHANGED <<chans, worker, procs, scn, coord, closed, released, called>>

Close == /\ ~closed
         /\ closed' = TRUE /\ done' = TRUE
         /\ UNCHANGED <<chans, worker, procs, scn, coord, released, called>>

\* background.Wait and operations.Wait.
OperationsUnawaited == TRUE                            \* faulty: only background.Wait
BackgroundEnded == ~coord /\ pc[Scanner] = "exited" /\ \A w \in Workers : worker[w] = "exited"
OperationsEnded == \A c \in Callers : pc[c] = "out"

Release == /\ closed /\ ~released /\ BackgroundEnded /\ OperationsEnded
           /\ released' = TRUE
           /\ UNCHANGED <<chans, worker, procs, scn, coord, done, closed, called>>

Step(p) == \/ Query(p) \/ ScanReserve(p) \/ ScanClaim(p) \/ NextRound(p)
           \/ TaskEnds(p) \/ DispatchReserve(p) \/ DispatchClaim(p) \/ DispatchEnds(p)
           \/ End(p) \/ CallbackReturns(p) \/ Commit(p) \/ Committed(p)
WorkerStep(w) == WorkerTakes(w) \/ WorkerExits(w) \/ WorkerFinishes(w) \/ WorkerNotifies(w)

Next == \/ \E p \in Reservers : Step(p)
        \/ \E c \in Callers : Begin(c)
        \/ \E d \in Dispatchers : Enqueue(d)
        \/ \E w \in Workers : WorkerStep(w)
        \/ ScanWakes \/ ScannerExits \/ Push
        \/ Coordinate \/ CoordinateExits \/ Cancel \/ Close \/ Release

Spec == Init /\ [][Next]_vars

(***************************************************************************)
(* Goroutines run; callbacks end, because they obey their HandlerTimeout.  *)
(* Nobody has to call an operation, cancel or close.  A select between a   *)
(* done context and other cases picks the former sooner or later.          *)
(***************************************************************************)
Fairness ==
    /\ \A p \in Reservers : WF_vars(Step(p))
    /\ \A w \in Workers : WF_vars(WorkerStep(w))
    /\ WF_vars(Push) /\ WF_vars(Release)
    /\ SF_vars(ScannerExits) /\ SF_vars(CoordinateExits)

FairSpec == Spec /\ Fairness

-------------------------------------------------------------------------------
Executing == {w \in Workers : worker[w] = "executing"}
Idle == Executing = {} /\ \A c \in Callers : pc[c] = "run" => mine[c] = 0

\* The slots of claims, each as a pair of its reserver and a number.
Claims == [p \in Reservers |-> held[p] + mine[p]]
ClaimSlots == {s \in Reservers \X (1..WorkerCount) : s[2] <= Claims[s[1]]}

\* Types of the variables.
TypeOK ==
    /\ scn \in Scenarios
    /\ slots \in 0..WorkerCount /\ jobs \in 0..WorkerCount
    /\ starved \in {"no", "yes", "manual"}
    /\ {jobsOpen, wake, coord, done, closed, released} \subseteq BOOLEAN
    /\ worker \in [Workers -> {"idle", "executing", "notify", "exited"}]
    /\ pc \in [Reservers -> {"select", "query", "reserve", "claim", "push", "run",
                             "notify", "call", "callback", "commit", "committed", "out", "exited"}]
    /\ tx \in [Dispatchers -> [rows : 0..MaxIDs, ids : 0..MaxIDs, err : BOOLEAN,
                               closed : BOOLEAN, refused : BOOLEAN]]
    /\ held \in [Reservers -> 0..WorkerCount] /\ mine \in [Reservers -> 0..WorkerCount]
    /\ left \in [Reservers -> Nat] /\ ready \in [Reservers -> 0..MaxReady]
    /\ called \in 0..MaxCalls

(***************************************************************************)
(* Every occupied slot belongs to a reservation under way, a queued task   *)
(* or a running callback, and the other way round: claims that fail, come  *)
(* back short or are cut off by Close leak no slot, so unreserve never     *)
(* blocks.                                                                 *)
(***************************************************************************)
SlotsAccounted == slots = Cardinality(ClaimSlots) + jobs + Cardinality(Executing)

(***************************************************************************)
(* When Close releases the node, every claimed task has been executed and  *)
(* nothing of the instance can start one: no lease is given up under a     *)
(* running callback.                                                       *)
(***************************************************************************)
ReleaseAfterDrain == released => slots = 0 /\ jobs = 0 /\ Idle

(***************************************************************************)
(* Close always gets to the release: loops, workers and operations end     *)
(* without waiting for one another in a circle.                            *)
(***************************************************************************)
CloseCompletes == closed ~> released

(***************************************************************************)
(* A transaction commits the messages whose ids it dispatches, all of them *)
(* and no other, and commits nothing if an Enqueue failed: though the      *)
(* callback ignores the error, though goroutines it started call Enqueue   *)
(* while it returns, and though Close refuses one half way through         *)
(* (Tx.Enqueue, Transaction).                                              *)
(***************************************************************************)
TransactionIsWhole ==
    \A d \in Dispatchers : pc[d] = "committed" => tx[d].rows = tx[d].ids /\ ~tx[d].refused

\* Somebody who will wake the scan loop is at work.
Waker == \/ jobs > 0
         \/ \E w \in Workers : worker[w] \in {"executing", "notify"}
         \/ \E d \in Dispatchers : pc[d] \in {"reserve", "claim", "run", "notify"}

(***************************************************************************)
(* A scan that stopped because workers and Dispatch callers had all slots  *)
(* is repeated as soon as one is free, without waiting for the ticker:     *)
(* while the loop sleeps and no wake token is there, somebody who will     *)
(* send one is at work (worker, dispatch, notify).  ScanOnce wakes nobody: *)
(* a scan that stopped because of it waits for the ticker.                 *)
(***************************************************************************)
StarvedScanIsWoken == pc[Scanner] = "select" /\ starved = "yes" /\ ~wake /\ ~done => Waker
===============================================================================
