----------------------- MODULE CompensatorRuntimeProofs -----------------------
(***************************************************************************)
(* Proofs about CompensatorRuntime for any number of workers and callers,  *)
(* any batch size and any bound on the calls.                              *)
(***************************************************************************)
EXTENDS CompensatorRuntime, FiniteSetTheorems, TLAPS

(***************************************************************************)
(* The parts of the inductive invariant.                                   *)
(***************************************************************************)

\* A reservation is under way at the claim only, and is not empty; claimed tasks
\* are left at the push only.  A scan forgets how the last one ended.
ScanConsistent ==
    /\ held > 0 <=> pc = "claim"
    /\ mine > 0 => pc = "push"
    /\ pc \notin {"select", "exited"} => ~starved

\* All slots are taken only by batches that were full, and after a full batch
\* the flag goes up before the scan looks for slots again.
BacklogRaised ==
    /\ pc = "push" /\ slots = WorkerCount => full
    /\ pc \in {"select", "loop"} /\ slots = WorkerCount => backlog
    /\ pc = "starved" => backlog

\* From the moment a scan finds no slot, somebody who will read the flag is at
\* work, or has.
WakerAtWork ==
    pc = "starved" \/ (pc = "select" /\ starved) => backlog /\ (wake \/ SomeoneWillWake)

\* A Tx that is past its callback is closed, with the tasks it had then; one in
\* which an Add failed is doomed.
TxConsistent ==
    \A c \in Callers :
        /\ op[c].promised = op[c].tasks
        /\ op[c].pc \in {"commit", "committed"} =>
             op[c].closed /\ ~op[c].err /\ op[c].rows = op[c].tasks
        /\ op[c].refused => op[c].err

IInv == /\ TypeOK /\ SlotsAccounted /\ ScanConsistent /\ BacklogRaised /\ WakerAtWork
        /\ TxConsistent

-------------------------------------------------------------------------------
(* Facts about workers and callers. *)

\* There is at least one worker, and those that execute are finitely many.
LEMMA WorkersFinite ==
    /\ WorkerCount \in Nat /\ WorkerCount > 0
    /\ IsFiniteSet(Executing) /\ Cardinality(Executing) \in Nat
    /\ Executing # {} => Cardinality(Executing) > 0
<1>1. WorkerCount \in Nat /\ WorkerCount > 0
  BY RuntimeAssumption, FS_CardinalityType, FS_EmptySet DEF WorkerCount
<1>2. IsFiniteSet(Executing)
  BY RuntimeAssumption, FS_Subset DEF Executing
<1> QED BY <1>1, <1>2, FS_CardinalityType, FS_EmptySet

\* A worker that begins or ends an execution changes their number by one.
LEMMA WorkerCounted ==
    ASSUME TypeOK, NEW w \in Workers, NEW s \in {"idle", "executing", "freed", "exited"},
           worker' = [worker EXCEPT ![w] = s]
    PROVE  /\ s = "executing" /\ worker[w] # "executing" =>
                Cardinality(Executing') = Cardinality(Executing) + 1
           /\ s # "executing" /\ worker[w] = "executing" =>
                Cardinality(Executing') = Cardinality(Executing) - 1
           /\ s # "executing" /\ worker[w] # "executing" => Executing' = Executing
<1>1. worker \in [Workers -> {"idle", "executing", "freed", "exited"}]
  BY DEF TypeOK
<1>2. IsFiniteSet(Executing) /\ Cardinality(Executing) \in Nat
  BY WorkersFinite
<1>3. CASE s = "executing" /\ worker[w] # "executing"
  <2>1. Executing' = Executing \cup {w} /\ w \notin Executing
    BY <1>1, <1>3 DEF Executing
  <2> QED BY <1>2, <1>3, <2>1, FS_AddElement
<1>4. CASE s # "executing" /\ worker[w] = "executing"
  <2>1. Executing' = Executing \ {w} /\ w \in Executing
    BY <1>1, <1>4 DEF Executing
  <2> QED BY <1>2, <1>4, <2>1, FS_RemoveElement
<1>5. CASE s # "executing" /\ worker[w] # "executing"
  <2>1. Executing' = Executing
    BY <1>1, <1>5 DEF Executing
  <2> QED BY <1>5, <2>1
<1> QED BY <1>3, <1>4, <1>5

\* What a caller's record may be.
Ops == [pc : {"out", "call", "callback", "commit", "committed"},
        tasks : 0..MaxTasks, err : BOOLEAN, closed : BOOLEAN,
        rows : 0..MaxTasks, promised : Nat, refused : BOOLEAN]

\* The record of a caller that is out, or has just begun.
LEMMA NoOpType ==
    /\ NoOp \in Ops /\ NoOp.promised = NoOp.tasks /\ ~NoOp.refused /\ NoOp.pc = "out"
    /\ \A kind \in {"call", "callback"} :
         LET o == [NoOp EXCEPT !.pc = kind]
         IN  o \in Ops /\ o.promised = o.tasks /\ ~o.refused /\ o.pc = kind
<1>1. 0 \in 0..MaxTasks
  BY RuntimeAssumption
<1>2. NoOp \in Ops /\ NoOp.promised = NoOp.tasks /\ ~NoOp.refused /\ NoOp.pc = "out"
  BY <1>1 DEF NoOp, Ops
<1> QED BY <1>2 DEF Ops

\* The invariant holds initially.
LEMMA InitInv == Init => IInv
<1> SUFFICES ASSUME Init PROVE IInv
  OBVIOUS
<1>1. Executing = {}
  BY DEF Init, Executing
<1>2. SlotsAccounted
  BY <1>1, FS_EmptySet DEF Init, SlotsAccounted
<1>3. TypeOK
  <2>1. op \in [Callers -> Ops]
    BY NoOpType DEF Init
  <2>2. worker \in [Workers -> {"idle", "executing", "freed", "exited"}]
    BY DEF Init
  <2>3. 0 \in 0..WorkerCount /\ 0 \in 0..MaxCalls
    BY WorkersFinite, RuntimeAssumption
  <2> QED BY <2>1, <2>2, <2>3 DEF Init, TypeOK, Ops
<1>4. ScanConsistent /\ BacklogRaised /\ WakerAtWork
  BY WorkersFinite DEF Init, ScanConsistent, BacklogRaised, WakerAtWork
<1>5. TxConsistent
  BY DEF Init, TxConsistent, NoOp
<1> QED BY <1>2, <1>3, <1>4, <1>5 DEF IInv

-------------------------------------------------------------------------------
(* The scan loop. *)

\* What a step of the scan loop leaves alone.
LEMMA ScanFrame ==
    ASSUME IInv, UNCHANGED <<worker, op>>
    PROVE  Executing' = Executing /\ TxConsistent'
BY DEF IInv, Executing, TxConsistent

\* A scan begins.
LEMMA ScanWakesInv == ASSUME IInv, ScanWakes PROVE IInv'
<1>1. Executing' = Executing /\ TxConsistent'
  BY ScanFrame DEF ScanWakes, life
<1>2. TypeOK'
  BY DEF IInv, TypeOK, ScanWakes, life
<1>3. SlotsAccounted' /\ ScanConsistent' /\ BacklogRaised' /\ WakerAtWork'
  BY <1>1 DEF IInv, ScanWakes, life, SlotsAccounted, ScanConsistent, BacklogRaised, WakerAtWork
<1> QED BY <1>1, <1>2, <1>3 DEF IInv

\* The loop ends.
LEMMA ScannerExitsInv == ASSUME IInv, ScannerExits PROVE IInv'
<1>1. Executing' = Executing /\ TxConsistent'
  BY ScanFrame DEF ScannerExits, life
<1>2. TypeOK'
  BY DEF IInv, TypeOK, ScannerExits, life
<1>3. SlotsAccounted' /\ ScanConsistent' /\ BacklogRaised' /\ WakerAtWork'
  BY <1>1 DEF IInv, ScannerExits, life, SlotsAccounted, ScanConsistent, BacklogRaised, WakerAtWork
<1> QED BY <1>1, <1>2, <1>3 DEF IInv

(***************************************************************************)
(* reserve: a scan that finds no slot has the flag up already, and every   *)
(* slot it wanted is with a queued task or a worker.                       *)
(***************************************************************************)
LEMMA ScanReservesInv == ASSUME IInv, ScanReserves PROVE IInv'
<1>0. /\ pc = "loop" /\ held = 0 /\ mine = 0 /\ ~starved
      /\ slots \in 0..WorkerCount /\ jobs \in 0..WorkerCount
      /\ WorkerCount \in Nat /\ WorkerCount > 0 /\ BatchSize \in Nat /\ BatchSize > 0
      /\ Cardinality(Executing) \in Nat /\ slots = jobs + Cardinality(Executing)
      /\ UNCHANGED <<jobs, jobsOpen, wake, backlog, worker, mine, full, starved, life>>
  <2>1. /\ pc = "loop" /\ TypeOK /\ ScanConsistent /\ SlotsAccounted
        /\ UNCHANGED <<jobs, jobsOpen, wake, backlog, worker, mine, full, starved, life>>
    BY DEF IInv, ScanReserves
  <2>2. held \in Nat /\ mine \in Nat /\ slots \in 0..WorkerCount /\ jobs \in 0..WorkerCount
    BY <2>1 DEF TypeOK
  <2>3. held = 0 /\ mine = 0 /\ ~starved
    BY <2>1, <2>2 DEF ScanConsistent
  <2> QED BY <2>1, <2>2, <2>3, WorkersFinite, RuntimeAssumption DEF SlotsAccounted
<1>1. Executing' = Executing /\ TxConsistent'
  BY <1>0, ScanFrame DEF life
<1>2. Reserve \in 0..WorkerCount /\ Reserve = 0 <=> slots = WorkerCount
  BY <1>0 DEF Reserve, Smaller, FreeSlots
<1>3. CASE pc' = "select" /\ UNCHANGED <<slots, held>>
  <2>1. TypeOK'
    BY <1>3, <1>0 DEF IInv, TypeOK, life
  <2>2. SlotsAccounted' /\ ScanConsistent' /\ BacklogRaised' /\ WakerAtWork'
    BY <1>0, <1>1, <1>3 DEF IInv, SlotsAccounted, ScanConsistent, BacklogRaised, WakerAtWork
  <2> QED BY <1>1, <2>1, <2>2 DEF IInv
<1>4. CASE /\ slots' = slots + Reserve /\ held' = Reserve
           /\ pc' = IF Reserve = 0 THEN "starved" ELSE "claim"
  <2>1. slots + Reserve \in 0..WorkerCount /\ Reserve \in Nat
    BY <1>0, <1>2 DEF Reserve, Smaller, FreeSlots
  <2>2. TypeOK'
    BY <1>0, <1>2, <1>4, <2>1 DEF IInv, TypeOK, life
  <2>3. SlotsAccounted' /\ ScanConsistent'
    BY <1>0, <1>1, <1>4, <2>1 DEF SlotsAccounted, ScanConsistent
  <2>4. BacklogRaised'
    BY <1>0, <1>2, <1>4 DEF IInv, BacklogRaised
  <2>5. pc' = "starved" => SomeoneWillWake'
    <3>1. Cardinality(Executing) > 0 => \E w \in Workers : worker[w] = "executing"
      <4>1. Executing = {} => Cardinality(Executing) = 0
        BY FS_EmptySet
      <4> QED BY <1>0, <4>1 DEF Executing
    <3> QED BY <1>0, <1>2, <1>4, <3>1 DEF SomeoneWillWake
  <2>6. WakerAtWork'
    BY <1>0, <1>2, <1>4, <2>4, <2>5 DEF WakerAtWork, BacklogRaised
  <2> QED BY <1>1, <2>2, <2>3, <2>4, <2>6 DEF IInv
<1> QED BY <1>3, <1>4 DEF ScanReserves

\* The flag is set once more.
LEMMA ScanStarvesInv == ASSUME IInv, ScanStarves PROVE IInv'
<1>1. Executing' = Executing /\ TxConsistent'
  BY ScanFrame DEF ScanStarves, life
<1>2. TypeOK'
  BY DEF IInv, TypeOK, ScanStarves, life, chans
<1>3. SlotsAccounted' /\ ScanConsistent' /\ BacklogRaised'
  BY <1>1 DEF IInv, ScanStarves, life, chans, SlotsAccounted, ScanConsistent, BacklogRaised
<1>4. WakerAtWork'
  BY DEF IInv, ScanStarves, chans, WakerAtWork, SomeoneWillWake
<1> QED BY <1>1, <1>2, <1>3, <1>4 DEF IInv

\* claim: slots are only kept for what is to be run, so all are still taken
\* only if the batch was full.
LEMMA ScanClaimsInv == ASSUME IInv, ScanClaims PROVE IInv'
<1>0. /\ pc = "claim" /\ held \in 1..WorkerCount /\ mine = 0 /\ ~starved
      /\ slots \in 0..WorkerCount /\ jobs \in 0..WorkerCount /\ WorkerCount \in Nat
      /\ Cardinality(Executing) \in Nat /\ slots = held + jobs + Cardinality(Executing)
      /\ held' = 0 /\ UNCHANGED <<jobs, jobsOpen, wake, backlog, worker, starved, life>>
  <2>1. /\ pc = "claim" /\ TypeOK /\ ScanConsistent /\ SlotsAccounted /\ held' = 0
        /\ UNCHANGED <<jobs, jobsOpen, wake, backlog, worker, starved, life>>
    BY DEF IInv, ScanClaims
  <2>2. /\ held \in 0..WorkerCount /\ mine \in Nat /\ slots \in 0..WorkerCount
        /\ jobs \in 0..WorkerCount
    BY <2>1, WorkersFinite DEF TypeOK
  <2> QED BY <2>1, <2>2, WorkersFinite DEF SlotsAccounted, ScanConsistent
<1>1. Executing' = Executing /\ TxConsistent'
  BY <1>0, ScanFrame DEF life
<1>2. CASE slots' = slots - held /\ pc' = "select" /\ UNCHANGED <<mine, full>>
  <2>1. TypeOK'
    BY <1>2, <1>0 DEF IInv, TypeOK, life
  <2>2. SlotsAccounted' /\ ScanConsistent' /\ BacklogRaised' /\ WakerAtWork'
    BY <1>0, <1>1, <1>2 DEF IInv, SlotsAccounted, ScanConsistent, BacklogRaised, WakerAtWork
  <2> QED BY <1>1, <2>1, <2>2 DEF IInv
<1>3. ASSUME NEW r \in 0..held, NEW k \in 0..held, k <= r, slots' = slots - (held - k), mine' = k,
             full' = (r = held), pc' = "push"
      PROVE  IInv'
  <2>1. TypeOK'
    BY <1>3, <1>0 DEF IInv, TypeOK, life
  <2>2. SlotsAccounted'
    BY <1>0, <1>1, <1>3 DEF SlotsAccounted
  <2>3. ScanConsistent' /\ WakerAtWork'
    BY <1>0, <1>3 DEF ScanConsistent, WakerAtWork
  <2>4. slots' = WorkerCount => r = held
    BY <1>0, <1>3
  <2>5. BacklogRaised'
    BY <1>3, <2>4 DEF BacklogRaised
  <2> QED BY <1>1, <2>1, <2>2, <2>3, <2>5 DEF IInv
<1> QED BY <1>2, <1>3 DEF ScanClaims

\* A claimed task is queued.
LEMMA PushInv == ASSUME IInv, Push PROVE IInv'
<1>1. Executing' = Executing /\ TxConsistent'
  BY ScanFrame DEF Push, life
<1>2. TypeOK' /\ SlotsAccounted'
  BY <1>1, WorkersFinite DEF IInv, TypeOK, SlotsAccounted, Push, life
<1>3. ScanConsistent' /\ BacklogRaised' /\ WakerAtWork'
  BY DEF IInv, TypeOK, Push, ScanConsistent, BacklogRaised, WakerAtWork
<1> QED BY <1>1, <1>2, <1>3 DEF IInv

\* After a full batch the flag is up when the scan goes on.
LEMMA ScanRepeatsInv == ASSUME IInv, ScanRepeats PROVE IInv'
<1>1. Executing' = Executing /\ TxConsistent'
  BY ScanFrame DEF ScanRepeats, life
<1>2. TypeOK' /\ SlotsAccounted'
  BY <1>1 DEF IInv, TypeOK, SlotsAccounted, ScanRepeats, life, chans
<1>3. ScanConsistent' /\ BacklogRaised' /\ WakerAtWork'
  BY DEF IInv, TypeOK, ScanRepeats, chans, ScanConsistent, BacklogRaised, WakerAtWork
<1> QED BY <1>1, <1>2, <1>3 DEF IInv

-------------------------------------------------------------------------------
(* The workers. *)

\* A worker takes a task, ends, or gives its slot back: who was to wake the scan
\* loop still is.
LEMMA WorkerStepInv == ASSUME IInv, NEW w \in Workers, WorkerStep(w) PROVE IInv'
<1>0. /\ worker \in [Workers -> {"idle", "executing", "freed", "exited"}]
      /\ jobs \in 0..WorkerCount /\ slots \in 0..WorkerCount /\ WorkerCount \in Nat
      /\ held \in Nat /\ mine \in Nat
      /\ Cardinality(Executing) \in Nat /\ slots = held + mine + jobs + Cardinality(Executing)
  BY WorkersFinite DEF IInv, TypeOK, SlotsAccounted
<1>1. /\ UNCHANGED <<jobsOpen, backlog, scan, life>>
      /\ TxConsistent' /\ ScanConsistent'
  <2>1. UNCHANGED <<jobsOpen, backlog, scan, life>>
    BY DEF WorkerStep, WorkerTakes, WorkerExits, WorkerFrees, WorkerWakes, chans
  <2> QED BY <2>1 DEF IInv, TxConsistent, ScanConsistent, scan, life
<1>2. CASE WorkerTakes(w)
  <2>0. worker[w] = "idle" /\ worker' = [worker EXCEPT ![w] = "executing"] /\ TypeOK
    BY <1>2 DEF WorkerTakes, IInv
  <2>1. Cardinality(Executing') = Cardinality(Executing) + 1 /\ worker'[w] = "executing"
    BY <1>0, <2>0, WorkerCounted
  <2>2. TypeOK' /\ SlotsAccounted'
    <3>1. TypeOK'
      BY <1>0, <1>1, <1>2 DEF IInv, TypeOK, WorkerTakes, scan, life
    <3>2. SlotsAccounted'
      BY <1>0, <1>1, <1>2, <2>1 DEF SlotsAccounted, WorkerTakes, scan
    <3> QED BY <3>1, <3>2
  <2>3. BacklogRaised'
    BY <1>2 DEF IInv, BacklogRaised, WorkerTakes, scan
  <2>4. WakerAtWork'
    BY <1>2, <2>1 DEF IInv, WakerAtWork, SomeoneWillWake, WorkerTakes, scan
  <2> QED BY <1>1, <2>2, <2>3, <2>4 DEF IInv
<1>3. CASE WorkerExits(w)
  <2>0. worker[w] = "idle" /\ worker' = [worker EXCEPT ![w] = "exited"] /\ TypeOK
    BY <1>3 DEF WorkerExits, IInv
  <2>1. Cardinality(Executing') = Cardinality(Executing)
    BY <1>0, <2>0, WorkerCounted
  <2>2. TypeOK' /\ SlotsAccounted'
    BY <1>0, <1>1, <1>3, <2>1 DEF IInv, TypeOK, SlotsAccounted, WorkerExits, chans, scan, life
  <2>3. BacklogRaised'
    BY <1>3 DEF IInv, BacklogRaised, WorkerExits, chans, scan
  <2>4. SomeoneWillWake => SomeoneWillWake'
    BY <1>0, <1>3 DEF SomeoneWillWake, WorkerExits, chans
  <2>5. WakerAtWork'
    BY <1>3, <2>4 DEF IInv, WakerAtWork, WorkerExits, chans, scan
  <2> QED BY <1>1, <2>2, <2>3, <2>5 DEF IInv
<1>4. CASE WorkerFrees(w)
  <2>1. /\ Cardinality(Executing') = Cardinality(Executing) - 1 /\ worker'[w] = "freed"
        /\ Cardinality(Executing) > 0
    <3>1. w \in Executing
      BY <1>4 DEF WorkerFrees, Executing
    <3>2. worker[w] = "executing" /\ worker' = [worker EXCEPT ![w] = "freed"] /\ TypeOK
      BY <1>4 DEF WorkerFrees, IInv
    <3> QED BY <1>0, <3>1, <3>2, WorkersFinite, WorkerCounted
  <2>2. TypeOK' /\ SlotsAccounted'
    BY <1>0, <1>1, <1>4, <2>1 DEF IInv, TypeOK, SlotsAccounted, WorkerFrees, scan, life
  <2>3. BacklogRaised'
    BY <1>0, <1>4 DEF IInv, BacklogRaised, WorkerFrees, scan
  <2>4. WakerAtWork'
    BY <1>4, <2>1 DEF IInv, WakerAtWork, SomeoneWillWake, WorkerFrees, scan
  <2> QED BY <1>1, <2>2, <2>3, <2>4 DEF IInv
<1>5. CASE WorkerWakes(w)
  <2>0. worker[w] = "freed" /\ worker' = [worker EXCEPT ![w] = "idle"] /\ TypeOK
    BY <1>5 DEF WorkerWakes, IInv
  <2>1. Cardinality(Executing') = Cardinality(Executing)
    BY <1>0, <2>0, WorkerCounted
  <2>2. TypeOK' /\ SlotsAccounted'
    BY <1>0, <1>1, <1>5, <2>1 DEF IInv, TypeOK, SlotsAccounted, WorkerWakes, scan, life
  <2>3. BacklogRaised'
    BY <1>5 DEF IInv, BacklogRaised, WorkerWakes, scan
  <2>4. WakerAtWork'
    BY <1>5 DEF IInv, TypeOK, WakerAtWork, WorkerWakes, scan
  <2> QED BY <1>1, <2>2, <2>3, <2>4 DEF IInv
<1> QED BY <1>2, <1>3, <1>4, <1>5 DEF WorkerStep

-------------------------------------------------------------------------------
(* The callers, and the end. *)

\* A step of a caller changes its own Tx, and at most raises wake.
LEMMA CallerInv ==
    ASSUME IInv, NEW c \in Callers, NEW o, Caller(c, o), wake' \in BOOLEAN, wake => wake',
           called' \in 0..MaxCalls,
           o \in Ops, o.promised = o.tasks, o.refused => o.err,
           o.pc \in {"commit", "committed"} => o.closed /\ ~o.err /\ o.rows = o.tasks
    PROVE  IInv'
<1>1. /\ op' = [op EXCEPT ![c] = o]
      /\ UNCHANGED <<slots, jobs, jobsOpen, backlog, worker, scan, known, cleaning, closed, returned>>
      /\ Executing' = Executing
  BY DEF Caller, Executing
<1>2. TypeOK'
  BY <1>1 DEF IInv, TypeOK, scan, Ops
<1>3. TxConsistent'
  BY <1>1 DEF IInv, TypeOK, TxConsistent
<1>4. SlotsAccounted' /\ ScanConsistent' /\ BacklogRaised'
  BY <1>1 DEF IInv, SlotsAccounted, ScanConsistent, BacklogRaised, scan
<1>5. WakerAtWork'
  BY <1>1 DEF IInv, WakerAtWork, SomeoneWillWake, scan
<1> QED BY <1>2, <1>3, <1>4, <1>5 DEF IInv

\* Add keeps count of what it has promised, or dooms the transaction.
LEMMA AddInv == ASSUME IInv, NEW c \in Callers, Add(c) PROVE IInv'
<1>0. /\ op[c] \in Ops /\ op[c].promised = op[c].tasks
      /\ op[c].pc \in {"commit", "committed"} => op[c].closed
      /\ op[c].refused => op[c].err
      /\ ~op[c].closed /\ wake' = wake /\ called' = called
      /\ wake \in BOOLEAN /\ called \in 0..MaxCalls
  BY DEF IInv, TypeOK, TxConsistent, Ops, Add
<1>1. CASE op[c].tasks < MaxTasks /\ Caller(c, [op[c] EXCEPT !.tasks = @ + 1, !.promised = @ + 1])
  <2> DEFINE o == [op[c] EXCEPT !.tasks = @ + 1, !.promised = @ + 1]
  <2>1. /\ o \in Ops /\ o.promised = o.tasks /\ o.refused = op[c].refused
        /\ o.err = op[c].err /\ o.pc = op[c].pc
    <3>1. op[c].tasks + 1 \in 0..MaxTasks /\ op[c].tasks + 1 \in Nat
      BY <1>0, <1>1, RuntimeAssumption DEF Ops
    <3>2. o = [op[c] EXCEPT !.tasks = op[c].tasks + 1, !.promised = op[c].tasks + 1]
      BY <1>0 DEF Ops
    <3> HIDE DEF o
    <3> QED BY <1>0, <3>1, <3>2 DEF Ops
  <2>2. Caller(c, o)
    BY <1>1
  <2> HIDE DEF o
  <2> QED BY <1>0, <2>1, <2>2, CallerInv
<1>2. CASE Caller(c, AddDooms(op[c]))
  <2> DEFINE o == AddDooms(op[c])
  <2>1. /\ o \in Ops /\ o.promised = o.tasks /\ o.err /\ o.pc = op[c].pc
    BY <1>0 DEF Ops, AddDooms
  <2>2. Caller(c, o)
    BY <1>2
  <2> HIDE DEF o
  <2> QED BY <1>0, <2>1, <2>2, CallerInv
<1> QED BY <1>1, <1>2 DEF Add

\* Operations begin, and end.
LEMMA OperationInv ==
    ASSUME IInv, NEW c \in Callers, Begin(c) \/ End(c) \/ TransactionEnds(c) PROVE IInv'
<1>0. wake \in BOOLEAN /\ called \in 0..MaxCalls /\ MaxCalls \in Nat
  BY RuntimeAssumption DEF IInv, TypeOK
<1>1. CASE Begin(c)
  <2>1. PICK kind \in {"call", "callback"} : Caller(c, [NoOp EXCEPT !.pc = kind])
    BY <1>1 DEF Begin
  <2> DEFINE o == [NoOp EXCEPT !.pc = kind]
  <2>2. o \in Ops /\ o.promised = o.tasks /\ ~o.refused /\ o.pc = kind
    BY NoOpType
  <2>3. Caller(c, o) /\ wake' = wake /\ called' \in 0..MaxCalls
    BY <1>0, <1>1, <2>1 DEF Begin
  <2> HIDE DEF o
  <2> QED BY <1>0, <2>2, <2>3, CallerInv
<1>2. CASE End(c) \/ TransactionEnds(c)
  <2>1. Caller(c, NoOp) /\ wake' \in BOOLEAN /\ (wake => wake') /\ called' = called
    BY <1>0, <1>2 DEF End, TransactionEnds
  <2> QED BY <1>0, <2>1, NoOpType, CallerInv
<1> QED BY <1>1, <1>2

\* A transaction goes on with the tasks that close returned, or is given up.
LEMMA TransactionInv ==
    ASSUME IInv, NEW c \in Callers, CallbackReturns(c) \/ Commit(c) PROVE IInv'
<1>0. /\ op[c] \in Ops /\ op[c].promised = op[c].tasks /\ (op[c].refused => op[c].err)
      /\ op[c].pc \in {"commit", "committed"} =>
           op[c].closed /\ ~op[c].err /\ op[c].rows = op[c].tasks
      /\ wake' = wake /\ called' = called /\ wake \in BOOLEAN /\ called \in 0..MaxCalls
  BY DEF IInv, TypeOK, TxConsistent, Ops, CallbackReturns, Commit
<1>1. CASE Caller(c, NoOp)
  BY <1>0, <1>1, NoOpType, CallerInv
<1>2. CASE ~CloseTx(op[c]).err /\ Caller(c, [CloseTx(op[c]) EXCEPT !.pc = "commit"])
  <2> DEFINE o == [CloseTx(op[c]) EXCEPT !.pc = "commit"]
  <2>1. o = [op[c] EXCEPT !.closed = TRUE, !.rows = op[c].tasks, !.pc = "commit"]
    BY <1>0 DEF CloseTx, Ops
  <2>2. ~op[c].err /\ Caller(c, o)
    BY <1>0, <1>2 DEF CloseTx, Ops
  <2> HIDE DEF o
  <2>3. /\ o \in Ops /\ o.promised = o.tasks /\ o.rows = o.tasks /\ o.closed /\ o.err = op[c].err
        /\ o.refused = op[c].refused
    BY <1>0, <2>1 DEF Ops
  <2> QED BY <1>0, <2>2, <2>3, CallerInv
<1>3. CASE At(c, "commit") /\ Caller(c, [op[c] EXCEPT !.pc = "committed"])
  <2> DEFINE o == [op[c] EXCEPT !.pc = "committed"]
  <2>1. /\ o \in Ops /\ o.promised = o.tasks /\ o.rows = op[c].rows /\ o.tasks = op[c].tasks
        /\ o.closed = op[c].closed /\ o.err = op[c].err /\ o.refused = op[c].refused
    BY <1>0 DEF Ops
  <2>2. Caller(c, o) /\ op[c].pc = "commit"
    BY <1>3 DEF At
  <2> HIDE DEF o
  <2> QED BY <1>0, <2>1, <2>2, CallerInv
<1> QED BY <1>1, <1>2, <1>3 DEF CallbackReturns, Commit

\* Registration, cleanup and Close touch neither slots nor transactions.
LEMMA LifeInv == ASSUME IInv, RegisterAll \/ CleanupExits \/ Close \/ CloseReturns PROVE IInv'
<1>0. /\ {wake, known, cleaning, closed, returned} \subseteq BOOLEAN
      /\ called \in 0..MaxCalls /\ MaxCalls \in Nat
  BY RuntimeAssumption DEF IInv, TypeOK
<1>1. /\ UNCHANGED <<slots, jobs, jobsOpen, backlog, worker, scan, op>>
      /\ wake' \in BOOLEAN /\ (wake => wake')
      /\ {known', cleaning', closed', returned'} \subseteq BOOLEAN /\ called' \in 0..MaxCalls
  <2>1. CASE RegisterAll
    BY <1>0, <2>1 DEF RegisterAll
  <2>2. CASE CleanupExits \/ Close \/ CloseReturns
    <3>1. UNCHANGED <<slots, jobs, jobsOpen, wake, backlog, worker, scan, op, called, known>>
      BY <2>2 DEF CleanupExits, Close, CloseReturns, chans
    <3>2. /\ cleaning' \in {cleaning, FALSE} /\ closed' \in {closed, TRUE}
          /\ returned' \in {returned, TRUE}
      BY <2>2 DEF CleanupExits, Close, CloseReturns
    <3> QED BY <1>0, <3>1, <3>2
  <2> QED BY <2>1, <2>2
<1>2. Executing' = Executing /\ TxConsistent'
  BY <1>1, ScanFrame
<1>3. TypeOK'
  BY <1>1 DEF IInv, TypeOK, scan
<1>4. SlotsAccounted' /\ ScanConsistent' /\ BacklogRaised'
  BY <1>1, <1>2 DEF IInv, SlotsAccounted, ScanConsistent, BacklogRaised, scan
<1>5. WakerAtWork'
  BY <1>1 DEF IInv, WakerAtWork, SomeoneWillWake, scan
<1> QED BY <1>2, <1>3, <1>4, <1>5 DEF IInv

-------------------------------------------------------------------------------
\* Every step of the compensator's goroutines preserves the invariant.
LEMMA NextInv == IInv /\ [Next]_vars => IInv'
<1> SUFFICES ASSUME IInv, [Next]_vars PROVE IInv'
  OBVIOUS
<1>1. CASE ScanStep
  BY <1>1, ScanReservesInv, ScanStarvesInv, ScanClaimsInv, PushInv, ScanRepeatsInv DEF ScanStep
<1>2. CASE ScanWakes \/ ScannerExits
  BY <1>2, ScanWakesInv, ScannerExitsInv
<1>3. ASSUME NEW w \in Workers, WorkerStep(w) PROVE IInv'
  BY <1>3, WorkerStepInv
<1>4. ASSUME NEW c \in Callers, Begin(c) \/ Add(c) \/ Ends(c) PROVE IInv'
  BY <1>4, AddInv, OperationInv, TransactionInv DEF Ends
<1>5. CASE RegisterAll \/ CleanupExits \/ Close \/ CloseReturns
  BY <1>5, LifeInv
<1>6. CASE UNCHANGED vars
  <2>1. Executing' = Executing /\ SomeoneWillWake' = SomeoneWillWake
    BY <1>6 DEF vars, chans, Executing, SomeoneWillWake
  <2> QED BY <1>6, <2>1 DEF vars, chans, scan, life, IInv, TypeOK, SlotsAccounted, ScanConsistent,
                            BacklogRaised, WakerAtWork, TxConsistent
<1> QED BY <1>1, <1>2, <1>3, <1>4, <1>5, <1>6 DEF Next

\* The invariant holds in every reachable state.
LEMMA Invariance == Spec => []IInv
BY InitInv, NextInv, PTL DEF Spec

\* Type correctness; the slots channel never overflows and unreserve never
\* blocks on an empty one.
THEOREM TypeCorrect == Spec => []TypeOK
<1>1. IInv => TypeOK
  BY DEF IInv
<1> QED BY <1>1, Invariance, PTL

\* No slot leaks and none is given back twice, whatever claims return.
THEOREM NoSlotLeaks == Spec => []SlotsAccounted
<1>1. IInv => SlotsAccounted
  BY DEF IInv
<1> QED BY <1>1, Invariance, PTL

(***************************************************************************)
(* A scan that found all workers busy is woken by one of them, although    *)
(* the scan sets the flag only after it looked for a slot: for every       *)
(* number of workers and every batch size the flag was up before.          *)
(***************************************************************************)
THEOREM StarvedIsWoken == Spec => []StarvedScanIsWoken
<1>1. IInv => StarvedScanIsWoken
  BY DEF IInv, WakerAtWork, StarvedScanIsWoken
<1> QED BY <1>1, Invariance, PTL

\* A committed transaction has inserted exactly the tasks whose Add returned an
\* id, and no Add failed in it.
THEOREM TransactionsWhole == Spec => []TransactionIsWhole
<1>1. IInv => TransactionIsWhole
  BY DEF IInv, TxConsistent, TransactionIsWhole, At
<1> QED BY <1>1, Invariance, PTL
===============================================================================
