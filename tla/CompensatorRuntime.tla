-------------------------- MODULE CompensatorRuntime --------------------------
(***************************************************************************)
(* The goroutines of one Compensator (pkg/compensator, compensator.go and  *)
(* worker.go): the scan loop, the workers, the cleanup loop, the callers   *)
(* of Transaction, AddTx and Retry, RegisterAll and Close.  They share the *)
(* slots semaphore, the jobs and wake channels, the backlog flag and the   *)
(* closing barrier.                                                        *)
(*                                                                         *)
(* Which tasks are due is the environment's choice: a claim may return any *)
(* number of rows up to its limit, some of them exhausted, or fail.        *)
(***************************************************************************)
EXTENDS Integers, FiniteSets

CONSTANTS
    Workers,    \* the WorkerCount workers
    Callers,    \* callers of Transaction, AddTx and Retry
    MaxTasks,   \* bound: tasks of one transaction
    BatchSize,
    MaxCalls    \* bound: public operations begun

ASSUME RuntimeAssumption ==
    /\ IsFiniteSet(Workers) /\ Workers # {}
    /\ BatchSize \in Nat \ {0} /\ {MaxTasks, MaxCalls} \subseteq Nat

VARIABLES
    slots,     \* occupancy of the slots channel
    jobs,      \* tasks in the jobs channel
    jobsOpen,  \* the scan loop has not closed the jobs channel
    wake,      \* a token is in the wake channel
    backlog,   \* the flag workers read after a task
    worker,    \* worker[w]: idle, executing, freed (slot given back) or exited
    pc,        \* where the scan loop is
    held,      \* slots reserved for the claim under way
    mine,      \* claimed tasks still to queue
    full,      \* the last claim of this scan filled its batch
    starved,   \* history: the last scan stopped because no slot was free
    known,     \* some handler is registered
    cleaning,  \* the cleanup loop is running
    op,        \* op[c]: where a caller is, and its Tx
    called,    \* public operations begun so far
    closed,    \* Close was called and has cancelled the context
    returned   \* Close has returned

chans == <<slots, jobs, jobsOpen, wake>>
scan == <<pc, held, mine, full, starved>>
life == <<known, cleaning, op, called, closed, returned>>
vars == <<chans, backlog, worker, scan, life>>

WorkerCount == Cardinality(Workers)
FreeSlots == WorkerCount - slots

\* A caller is out, in AddTx or Retry (call), or in a Transaction: its callback
\* runs, it inserts, commits, has committed.  Of its Tx: the tasks, the sticky
\* error, the closed flag, the tasks that close returned.  Ghosts: the tasks
\* whose Add returned an id, and whether an Add within the callback failed.
NoOp == [pc |-> "out", tasks |-> 0, err |-> FALSE, closed |-> FALSE, rows |-> 0,
         promised |-> 0, refused |-> FALSE]
Smaller(a, b) == IF a < b THEN a ELSE b

Init == /\ slots = 0 /\ jobs = 0 /\ jobsOpen = TRUE
        /\ wake = TRUE                  \* scanLoop notifies itself
        /\ backlog = FALSE
        /\ worker = [w \in Workers |-> "idle"]
        /\ pc = "select" /\ held = 0 /\ mine = 0 /\ full = FALSE /\ starved = FALSE
        /\ known \in BOOLEAN            \* New may be given no handlers
        /\ cleaning = TRUE
        /\ op = [c \in Callers |-> NoOp] /\ called = 0
        /\ closed = FALSE /\ returned = FALSE

-------------------------------------------------------------------------------
\* The ticker fires, or a wake token is taken.
ScanWakes ==
    /\ pc = "select"
    /\ wake' \in {wake, FALSE}
    /\ pc' = "loop" /\ full' = FALSE /\ starved' = FALSE
    /\ UNCHANGED <<slots, jobs, jobsOpen, backlog, worker, held, mine, life>>

\* Faulty: the jobs channel stays open.
ScannerExitsOnly == /\ pc = "select" /\ closed
                    /\ pc' = "exited"
                    /\ UNCHANGED <<chans, backlog, worker, held, mine, full, starved, life>>

ScannerExits == /\ pc = "select" /\ closed
                /\ pc' = "exited" /\ jobsOpen' = FALSE
                /\ UNCHANGED <<slots, jobs, wake, backlog, worker, held, mine, full, starved, life>>

\* reserve takes what is free, one slot at a time, up to the batch.  Nobody
\* else takes slots, so the last look at the channel decides.
Reserve == Smaller(BatchSize, FreeSlots)

\* Head of scan's loop: the context, the registered types, reserve.
ScanReserves ==
    /\ pc = "loop"
    /\ \/ /\ closed \/ ~known
          /\ pc' = "select"
          /\ UNCHANGED <<slots, held>>
       \/ /\ ~closed /\ known
          /\ slots' = slots + Reserve /\ held' = Reserve
          /\ pc' = IF Reserve = 0 THEN "starved" ELSE "claim"
    /\ UNCHANGED <<jobs, jobsOpen, wake, backlog, worker, mine, full, starved, life>>

\* No worker was free: the flag is set, and the scan is over.
ScanStarves ==
    /\ pc = "starved"
    /\ backlog' = TRUE /\ starved' = TRUE
    /\ pc' = "select"
    /\ UNCHANGED <<chans, worker, held, mine, full, life>>

\* claim and runnable: the statement fails, or returns r rows of which k are
\* to be run; the other slots go back.
ScanClaims ==
    /\ pc = "claim"
    /\ \/ /\ slots' = slots - held
          /\ pc' = "select" /\ UNCHANGED <<mine, full>>
       \/ \E r \in 0..held, k \in 0..held :
             /\ k <= r
             /\ slots' = slots - (held - k) /\ mine' = k
             /\ full' = (r = held) /\ pc' = "push"
    /\ held' = 0
    /\ UNCHANGED <<jobs, jobsOpen, wake, backlog, worker, starved, life>>

\* One task is queued; the channel holds WorkerCount.
Push ==
    /\ pc = "push" /\ mine > 0 /\ jobs < WorkerCount
    /\ jobs' = jobs + 1 /\ mine' = mine - 1
    /\ UNCHANGED <<slots, jobsOpen, wake, backlog, worker, pc, held, full, starved, life>>

\* Faulty: the flag is only set when no worker is free.
ScanRepeatsUnflagged ==
    /\ pc = "push" /\ mine = 0
    /\ backlog' = (backlog /\ full) /\ pc' = IF full THEN "loop" ELSE "select"
    /\ UNCHANGED <<chans, worker, held, mine, full, starved, life>>

\* All tasks are queued: after a full batch the scan goes on.
ScanRepeats ==
    /\ pc = "push" /\ mine = 0
    /\ backlog' = full /\ pc' = IF full THEN "loop" ELSE "select"
    /\ UNCHANGED <<chans, worker, held, mine, full, starved, life>>

-------------------------------------------------------------------------------
WorkerTakes(w) ==
    /\ worker[w] = "idle" /\ jobs > 0
    /\ jobs' = jobs - 1
    /\ worker' = [worker EXCEPT ![w] = "executing"]
    /\ UNCHANGED <<slots, jobsOpen, wake, backlog, scan, life>>

WorkerExits(w) ==
    /\ worker[w] = "idle" /\ jobs = 0 /\ ~jobsOpen
    /\ worker' = [worker EXCEPT ![w] = "exited"]
    /\ UNCHANGED <<chans, backlog, scan, life>>

\* execute returns (finished or abandoned) and the slot is given back...
WorkerFrees(w) ==
    /\ worker[w] = "executing"
    /\ slots' = slots - 1
    /\ worker' = [worker EXCEPT ![w] = "freed"]
    /\ UNCHANGED <<jobs, jobsOpen, wake, backlog, scan, life>>

\* ... and only then is the flag read.
WorkerWakes(w) ==
    /\ worker[w] = "freed"
    /\ wake' = (wake \/ backlog)
    /\ worker' = [worker EXCEPT ![w] = "idle"]
    /\ UNCHANGED <<slots, jobs, jobsOpen, backlog, scan, life>>

-------------------------------------------------------------------------------
Caller(c, o) ==
    /\ op' = [op EXCEPT ![c] = o]
    /\ UNCHANGED <<slots, jobs, jobsOpen, backlog, worker, scan, known, cleaning, closed, returned>>
At(c, pc0) == op[c].pc = pc0

\* begin: refused once Close has set the flag.
Accepts == ~closed

\* AddTx, Get or Retry begins, or Transaction, up to its callback.
Begin(c) ==
    /\ At(c, "out") /\ Accepts
    /\ called < MaxCalls /\ called' = called + 1
    /\ \E kind \in {"call", "callback"} : Caller(c, [NoOp EXCEPT !.pc = kind])
    /\ UNCHANGED wake

\* AddTx and Retry end; a Retry that reset a task wakes the scan loop.
End(c) ==
    /\ At(c, "call") /\ Caller(c, NoOp)
    /\ wake' \in {wake, TRUE} /\ UNCHANGED called

\* Faulty: an Add that fails leaves the transaction as it is.
AddFails(o) == [o EXCEPT !.refused = TRUE]
\* Add refuses the task: the transaction is doomed.
AddDooms(o) == [o EXCEPT !.refused = TRUE, !.err = TRUE]

\* Tx.Add under the Tx's lock, by the callback or by a goroutine it started,
\* which may be late: after close it is an error without effect.
Add(c) ==
    LET o == op[c] IN
    /\ o.pc \notin {"out", "call"} /\ ~o.closed
    /\ \/ ~o.err /\ o.tasks < MaxTasks
          /\ Caller(c, [o EXCEPT !.tasks = @ + 1, !.promised = @ + 1])
       \/ Caller(c, AddDooms(o))
    /\ UNCHANGED <<wake, called>>

\* Tx.close
CloseTx(o) == [o EXCEPT !.closed = TRUE, !.rows = o.tasks]

\* The callback returns an error, or nil whatever its Adds said.
CallbackReturns(c) ==
    LET o == CloseTx(op[c]) IN
    /\ At(c, "callback")
    /\ \/ Caller(c, NoOp)
       \/ ~o.err /\ Caller(c, [o EXCEPT !.pc = "commit"])
    /\ UNCHANGED <<wake, called>>

\* insert and Commit: either fails, the commit perhaps after it took effect.
Commit(c) ==
    /\ At(c, "commit")
    /\ Caller(c, NoOp) \/ Caller(c, [op[c] EXCEPT !.pc = "committed"])
    /\ UNCHANGED <<wake, called>>

\* Transaction returns and, having added tasks, wakes the scan loop; after an
\* uncertain commit it does not.
TransactionEnds(c) ==
    /\ At(c, "committed") /\ Caller(c, NoOp)
    /\ \/ wake' = (wake \/ op[c].rows > 0)
       \/ UNCHANGED wake
    /\ UNCHANGED called

RegisterAll ==
    /\ ~closed /\ called < MaxCalls /\ called' = called + 1
    /\ known' = TRUE /\ wake' = TRUE
    /\ UNCHANGED <<slots, jobs, jobsOpen, backlog, worker, scan, cleaning, op, closed, returned>>

CleanupExits ==
    /\ cleaning /\ closed
    /\ cleaning' = FALSE
    /\ UNCHANGED <<chans, backlog, worker, scan, known, op, called, closed, returned>>

Close == /\ ~closed
         /\ closed' = TRUE
         /\ UNCHANGED <<chans, backlog, worker, scan, known, cleaning, op, called, returned>>

\* background.Wait.
BackgroundEnded == ~cleaning /\ pc = "exited" /\ \A w \in Workers : worker[w] = "exited"

CloseReturns == /\ closed /\ ~returned
                /\ BackgroundEnded /\ \A c \in Callers : At(c, "out")
                /\ returned' = TRUE
                /\ UNCHANGED <<chans, backlog, worker, scan, known, cleaning, op, called, closed>>

ScanStep == ScanReserves \/ ScanStarves \/ ScanClaims \/ Push \/ ScanRepeats
Ends(c) == End(c) \/ CallbackReturns(c) \/ Commit(c) \/ TransactionEnds(c)
WorkerStep(w) == WorkerTakes(w) \/ WorkerExits(w) \/ WorkerFrees(w) \/ WorkerWakes(w)

Next == \/ ScanStep \/ ScanWakes \/ ScannerExits
        \/ \E w \in Workers : WorkerStep(w)
        \/ \E c \in Callers : Begin(c) \/ Add(c) \/ Ends(c)
        \/ RegisterAll \/ CleanupExits \/ Close \/ CloseReturns

Spec == Init /\ [][Next]_vars

(***************************************************************************)
(* Goroutines run and callbacks obey their contexts.  A select between a   *)
(* done context and other cases picks the former sooner or later.          *)
(***************************************************************************)
Fairness ==
    /\ WF_vars(ScanStep) /\ \A w \in Workers : WF_vars(WorkerStep(w))
    /\ \A c \in Callers : WF_vars(Ends(c))
    /\ WF_vars(CloseReturns) /\ SF_vars(ScannerExits) /\ SF_vars(CleanupExits)

FairSpec == Spec /\ Fairness

-------------------------------------------------------------------------------
Executing == {w \in Workers : worker[w] = "executing"}

\* Types of the variables.
TypeOK ==
    /\ slots \in 0..WorkerCount /\ jobs \in 0..WorkerCount
    /\ held \in 0..WorkerCount /\ mine \in 0..WorkerCount
    /\ {jobsOpen, wake, backlog, full, starved, known, cleaning, closed, returned} \subseteq BOOLEAN
    /\ worker \in [Workers -> {"idle", "executing", "freed", "exited"}]
    /\ pc \in {"select", "loop", "starved", "claim", "push", "exited"}
    /\ op \in [Callers -> [pc : {"out", "call", "callback", "commit", "committed"},
                           tasks : 0..MaxTasks, err : BOOLEAN, closed : BOOLEAN,
                           rows : 0..MaxTasks, promised : Nat, refused : BOOLEAN]]
    /\ called \in 0..MaxCalls

(***************************************************************************)
(* Every occupied slot belongs to a claim under way, a queued task or a    *)
(* running callback: exhausted rows, short batches and failed claims give  *)
(* theirs back.                                                            *)
(***************************************************************************)
SlotsAccounted == slots = held + mine + jobs + Cardinality(Executing)

(***************************************************************************)
(* A transaction commits all the tasks whose Add returned an id, and none  *)
(* if an Add of its callback failed: though the callback ignores the       *)
(* error, and though goroutines it started call Add while it returns.      *)
(***************************************************************************)
TransactionIsWhole ==
    \A c \in Callers : At(c, "committed") => op[c].rows = op[c].promised /\ ~op[c].refused

\* Close returns, whatever it was called amidst.
CloseCompletes == closed ~> returned

SomeoneWillWake == jobs > 0 \/ \E w \in Workers : worker[w] \in {"executing", "freed"}

(***************************************************************************)
(* A scan that found all workers busy is repeated when one has finished,   *)
(* without waiting for the ticker: the flag is up and some worker has yet  *)
(* to read it (scan: the worker wakes it; Config: a full batch is scanned  *)
(* again at once).  The scan sets the flag after it looked for a slot, so  *)
(* this rests on the flag being up already whenever all slots are taken.   *)
(***************************************************************************)
StarvedScanIsWoken ==
    pc = "select" /\ starved /\ ~wake /\ ~closed => backlog /\ SomeoneWillWake
===============================================================================
