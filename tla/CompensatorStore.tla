--------------------------- MODULE CompensatorStore ---------------------------
(***************************************************************************)
(* The task table of pkg/compensator and the nodes that work on it:        *)
(* storage.go (insert, claim, finish, abandon, retry, cleanup) and the     *)
(* execution of a claimed task (worker.go execute, invoke, outcome),       *)
(* including what Close does to executions under way.  Every statement is  *)
(* one database transaction, hence one action.                             *)
(*                                                                         *)
(* Times are countdowns of the database clock, as in OutboxStore: one      *)
(* column, next_run_at, is when a pending task is due and when the lease   *)
(* of a running one ends.  A statement's now() may be lag old when it      *)
(* commits.                                                                *)
(***************************************************************************)
EXTENDS Integers, FiniteSets

CONSTANTS
    Items,            \* task ids
    Nodes,            \* processes; one that restarts is another element
    Steady,           \* bound: nodes that neither close nor crash
    MaxAttempts,      \* config.retries + 1
    HandlerTimeout, OperationTimeout, LeaseDuration,
    RetryBackoffMin, RetryBackoffMax, CleanupAfter,
    FailedRetention,  \* 0: failed tasks are kept
    PromptStart,      \* TRUE: the callback of a claimed task starts within the
                      \* OperationTimeout of the claim (no stalled process)
    MaxClaims,        \* bound: claim statements, each draws a fresh token
    MaxRequeues,      \* bound: operator Retry calls per task
    MaxLost           \* bound: answers and statements that get lost

ASSUME AttemptsAssumption == MaxAttempts \in Nat \ {0}
ASSUME DurationsAssumption ==
    /\ {HandlerTimeout, OperationTimeout, LeaseDuration, RetryBackoffMin, RetryBackoffMax,
        CleanupAfter} \subseteq Nat \ {0}
    /\ RetryBackoffMin <= RetryBackoffMax /\ FailedRetention \in Nat
ASSUME LeaseAssumption == LeaseDuration > HandlerTimeout
ASSUME BoundsAssumption == {MaxClaims, MaxRequeues, MaxLost} \subseteq Nat /\ Steady \subseteq Nodes
ASSUME PromptAssumption == PromptStart \in BOOLEAN

VARIABLES
    rows,     \* rows[i]: the row of task i
    tasks,    \* claimed tasks held by some worker
    life,     \* life[n]: up, stopping (Close called, a claim may be under way),
              \* closing (the workers finish), closed, gone (died)
    claims,   \* tokens drawn so far
    drawnBy,  \* history: drawnBy[k], the node that drew token k
    reports,  \* history: <<id, token, ok>>, outcomes of finished callbacks
    epoch,    \* history: epoch[i], operator retries of i
    calls,    \* history: calls[i], callbacks started in this epoch by claims
              \* that were not refunded, as <<attempt, token>>
    lost      \* history: <<id, token>> of tasks that got lost

vars == <<rows, tasks, life, claims, drawnBy, reports, epoch, calls, lost>>

NoToken == 0
NoNode == "none"
Past == -OperationTimeout
Tokens == 1..MaxClaims
Lags == 0..OperationTimeout
Status == {"absent", "pending", "running", "succeeded", "failed", "deleted"}

Row == [status : Status, attempts : Nat, next : Int, token : Nat, kept : Int]
Task == [id : Items, node : Nodes, token : Tokens, attempt : Nat, epoch : Nat,
         phase : {"claimed", "running", "cancelled", "interrupted", "returned"},
         left : Nat, ok : BOOLEAN]

Absent == [status |-> "absent", attempts |-> 0, next |-> Past, token |-> NoToken, kept |-> Past]
\* A row that insert or retry leaves.
Fresh == [status |-> "pending", attempts |-> 0, next |-> 0, token |-> NoToken, kept |-> Past]

\* backoff: exponential, capped, with equal jitter, never below one unit.
BackoffBase(attempt) ==
    LET raw == RetryBackoffMin * 2^(attempt - 1) IN
    IF raw < RetryBackoffMax THEN raw ELSE RetryBackoffMax
Backoff(attempt) ==
    {IF d < 1 THEN 1 ELSE d : d \in (BackoffBase(attempt) \div 2)..BackoffBase(attempt)}

Init == /\ rows = [i \in Items |-> Absent]
        /\ tasks = {}
        /\ life = [n \in Nodes |-> "up"]
        /\ claims = 0 /\ drawnBy = [k \in Tokens |-> NoNode]
        /\ reports = {} /\ lost = {}
        /\ epoch = [i \in Items |-> 0]
        /\ calls = [i \in Items |-> {}]

-------------------------------------------------------------------------------
\* insert, at the commit of the business transaction.
Insert(S) ==
    /\ S # {} /\ \A i \in S : rows[i].status = "absent"
    /\ rows' = [i \in Items |-> IF i \in S THEN Fresh ELSE rows[i]]
    /\ UNCHANGED <<tasks, life, claims, drawnBy, reports, epoch, calls, lost>>

\* Faulty: leases that ran out are never taken over.
ClaimablePendingOnly(i, lag) == rows[i].status = "pending" /\ rows[i].next <= -lag
\* The WHERE clause of claim: status < 2 AND next_run_at <= now().
Claimable(i, lag) == rows[i].status \in {"pending", "running"} /\ rows[i].next <= -lag

\* Faulty: a lease of the callback's time alone.
LeasedForHandlerOnly(i, lag) ==
    [rows[i] EXCEPT !.status = "running", !.attempts = @ + 1, !.token = claims + 1,
                    !.next = HandlerTimeout - lag, !.kept = Past]

\* What claim leaves of a task that has used its budget, and of any other.
GivenUp(i) == [rows[i] EXCEPT !.status = "failed", !.token = NoToken, !.kept = FailedRetention]
Leased(i, lag) == [rows[i] EXCEPT !.status = "running", !.attempts = @ + 1, !.token = claims + 1,
                                  !.next = LeaseDuration - lag, !.kept = Past]

(***************************************************************************)
(* claim by node n: of the due rows any part may be free of other          *)
(* transactions' locks.  The statement is not cancelled by Close; the scan *)
(* loop issues no further one after it.                                    *)
(***************************************************************************)
Claim(n, S, lag) ==
    LET taken == {i \in S : rows[i].attempts < MaxAttempts} IN
    /\ life[n] \in {"up", "stopping"}
    /\ S # {} /\ \A i \in S : Claimable(i, lag)
    /\ claims < MaxClaims /\ claims' = claims + 1
    /\ drawnBy' = [drawnBy EXCEPT ![claims + 1] = n]
    /\ life' = [life EXCEPT ![n] = IF @ = "stopping" THEN "closing" ELSE @]
    /\ rows' = [i \in Items |-> IF i \in taken THEN Leased(i, lag)
                                ELSE IF i \in S THEN GivenUp(i) ELSE rows[i]]
    /\ tasks' = tasks \cup
         {[id |-> i, node |-> n, token |-> claims + 1, attempt |-> rows[i].attempts + 1,
           epoch |-> epoch[i], phase |-> "claimed", left |-> OperationTimeout - lag,
           ok |-> FALSE] : i \in taken}
    /\ UNCHANGED <<reports, epoch, calls, lost>>

-------------------------------------------------------------------------------
CtxDone(n) == life[n] \in {"stopping", "closing"}
Becomes(t, u) == tasks' = (tasks \ {t}) \cup {u}

\* invoke: the callback starts, under a context of HandlerTimeout.
Start(t) ==
    /\ t.phase = "claimed" /\ life[t.node] = "up"
    /\ Becomes(t, [t EXCEPT !.phase = "running", !.left = HandlerTimeout])
    /\ calls' = IF t.epoch = epoch[t.id]
                THEN [calls EXCEPT ![t.id] = @ \cup {<<t.attempt, t.token>>}] ELSE calls
    /\ UNCHANGED <<rows, life, claims, drawnBy, reports, epoch, lost>>

(***************************************************************************)
(* The callback returns (an error, a panic, or nil).  A nil result is an   *)
(* error once the deadline has passed, but not after a mere cancellation.  *)
(***************************************************************************)
Return(t, ok) ==
    /\ t.phase \in {"running", "cancelled"}
    /\ ok => t.phase = "cancelled" \/ t.left > 0
    /\ Becomes(t, [t EXCEPT !.phase = "returned", !.ok = ok])
    /\ reports' = reports \cup {<<t.id, t.token, ok>>}
    /\ UNCHANGED <<rows, life, claims, drawnBy, epoch, calls, lost>>

\* The component is closing: invoke returns context.Canceled, at once or
\* through the callback.
Interrupt(t) ==
    /\ t.phase \in {"claimed", "running", "cancelled"} /\ CtxDone(t.node)
    /\ Becomes(t, [t EXCEPT !.phase = "interrupted"])
    /\ UNCHANGED <<rows, life, claims, drawnBy, reports, epoch, calls, lost>>

\* The guard of finish and abandon.  The lease time is not looked at: an
\* executor is late only once another one has drawn a token.
HoldsToken(t) == rows[t.id].status = "running" /\ rows[t.id].token = t.token

\* outcome and finishSQL.
Outcome(t, delay) ==
    IF t.ok THEN [rows[t.id] EXCEPT !.status = "succeeded", !.token = NoToken, !.kept = CleanupAfter]
    ELSE IF t.attempt >= MaxAttempts
    THEN [rows[t.id] EXCEPT !.status = "failed", !.token = NoToken, !.kept = FailedRetention]
    ELSE [rows[t.id] EXCEPT !.status = "pending", !.token = NoToken, !.next = delay, !.kept = Past]

Finish(t) ==
    /\ t.phase = "returned"
    /\ \/ /\ HoldsToken(t)
          /\ \E delay \in Backoff(t.attempt) : rows' = [rows EXCEPT ![t.id] = Outcome(t, delay)]
       \/ ~HoldsToken(t) /\ UNCHANGED rows
    /\ tasks' = tasks \ {t}
    /\ UNCHANGED <<life, claims, drawnBy, reports, epoch, calls, lost>>

\* Faulty: closing only drops the task; its lease is left to run out.
AbandonNothing(t) ==
    /\ t.phase = "interrupted"
    /\ tasks' = tasks \ {t}
    /\ UNCHANGED <<rows, life, claims, drawnBy, reports, epoch, calls, lost>>

\* Faulty: any interrupted task is refunded, held or not.
AbandonUnguarded(t) ==
    /\ t.phase = "interrupted"
    /\ rows' = [rows EXCEPT ![t.id].status = "pending", ![t.id].attempts = @ - 1,
                            ![t.id].token = NoToken, ![t.id].next = 0]
    /\ calls' = IF t.epoch = epoch[t.id]
                THEN [calls EXCEPT ![t.id] = @ \ {<<t.attempt, t.token>>}] ELSE calls
    /\ tasks' = tasks \ {t}
    /\ UNCHANGED <<life, claims, drawnBy, reports, epoch, lost>>

\* abandon: the task is due again and its attempt refunded.
Abandon(t) ==
    /\ t.phase = "interrupted"
    /\ \/ /\ HoldsToken(t)
          /\ rows' = [rows EXCEPT ![t.id].status = "pending", ![t.id].attempts = @ - 1,
                                  ![t.id].token = NoToken, ![t.id].next = 0]
          /\ calls' = IF t.epoch = epoch[t.id]
                      THEN [calls EXCEPT ![t.id] = @ \ {<<t.attempt, t.token>>}] ELSE calls
       \/ ~HoldsToken(t) /\ UNCHANGED <<rows, calls>>
    /\ tasks' = tasks \ {t}
    /\ UNCHANGED <<life, claims, drawnBy, reports, epoch, lost>>

\* The claim's answer never arrives, or finish or abandon fails.
Lose(t) ==
    /\ t.phase \in {"claimed", "interrupted", "returned"}
    /\ Cardinality(lost) < MaxLost
    /\ lost' = lost \cup {<<t.id, t.token>>}
    /\ tasks' = tasks \ {t}
    /\ UNCHANGED <<rows, life, claims, drawnBy, reports, epoch, calls>>

-------------------------------------------------------------------------------
\* Close: the component's context is cancelled; a callback whose deadline has
\* not passed sees its own context cancelled.
Close(n) ==
    /\ life[n] = "up" /\ n \notin Steady
    /\ life' = [life EXCEPT ![n] = "stopping"]
    /\ tasks' = {IF t.node = n /\ t.phase = "running" /\ t.left > 0
                 THEN [t EXCEPT !.phase = "cancelled"] ELSE t : t \in tasks}
    /\ UNCHANGED <<rows, claims, drawnBy, reports, epoch, calls, lost>>

\* The scan loop ends without a further claim.
ScanStops(n) ==
    /\ life[n] = "stopping"
    /\ life' = [life EXCEPT ![n] = "closing"]
    /\ UNCHANGED <<rows, tasks, claims, drawnBy, reports, epoch, calls, lost>>

\* background.Wait: the workers have emptied the jobs channel.
Drained(n) == \A t \in tasks : t.node # n

CloseEnds(n) ==
    /\ life[n] = "closing" /\ Drained(n)
    /\ life' = [life EXCEPT ![n] = "closed"]
    /\ UNCHANGED <<rows, tasks, claims, drawnBy, reports, epoch, calls, lost>>

\* The process dies with its tasks.
Crash(n) ==
    /\ life[n] \in {"up", "stopping", "closing"} /\ n \notin Steady
    /\ life' = [life EXCEPT ![n] = "gone"]
    /\ tasks' = {t \in tasks : t.node # n}
    /\ UNCHANGED <<rows, claims, drawnBy, reports, epoch, calls, lost>>

\* Retry: the operator restarts a failed task with a fresh budget.
Retry(i) ==
    /\ rows[i].status = "failed" /\ epoch[i] < MaxRequeues
    /\ rows' = [rows EXCEPT ![i] = Fresh]
    /\ epoch' = [epoch EXCEPT ![i] = @ + 1]
    /\ calls' = [calls EXCEPT ![i] = {}]
    /\ UNCHANGED <<tasks, life, claims, drawnBy, reports, lost>>

\* cleanupStatus, for succeeded tasks and, if configured, for failed ones.
Cleanup(status, S) ==
    /\ status = "failed" => FailedRetention > 0
    /\ S # {} /\ \A i \in S : rows[i].status = status /\ rows[i].kept < 0
    /\ rows' = [i \in Items |-> IF i \in S THEN [rows[i] EXCEPT !.status = "deleted"] ELSE rows[i]]
    /\ UNCHANGED <<tasks, life, claims, drawnBy, reports, epoch, calls, lost>>

Elapse(left) == IF left > Past THEN left - 1 ELSE Past

\* One unit of time passes.
Tick ==
    /\ PromptStart => \A t \in tasks : t.phase = "claimed" => t.left > 0
    /\ rows' = [i \in Items |-> [rows[i] EXCEPT !.next = Elapse(@), !.kept = Elapse(@)]]
    /\ tasks' = {[t EXCEPT !.left = IF @ > 0 THEN @ - 1 ELSE 0] : t \in tasks}
    /\ UNCHANGED <<life, claims, drawnBy, reports, epoch, calls, lost>>

Next ==
    \/ \E S \in SUBSET Items : Insert(S) \/ Cleanup("succeeded", S) \/ Cleanup("failed", S)
    \/ \E i \in Items : Retry(i)
    \/ \E n \in Nodes, S \in SUBSET Items, lag \in Lags : Claim(n, S, lag)
    \/ \E t \in tasks : Start(t) \/ Interrupt(t) \/ Finish(t) \/ Abandon(t) \/ Lose(t)
    \/ \E t \in tasks, ok \in BOOLEAN : Return(t, ok)
    \/ \E n \in Nodes : Close(n) \/ ScanStops(n) \/ CloseEnds(n) \/ Crash(n)
    \/ Tick

Spec == Init /\ [][Next]_vars

(***************************************************************************)
(* The scan loop of a steady node keeps claiming what is due, workers run  *)
(* their tasks to the end (callbacks obey their context) and time passes.  *)
(***************************************************************************)
Fairness ==
    /\ WF_vars(Tick)
    /\ \A n \in Steady, i \in Items :
         WF_vars(\E S \in SUBSET Items : i \in S /\ Claim(n, S, 0))
    /\ \A n \in Nodes : WF_vars(ScanStops(n)) /\ WF_vars(CloseEnds(n))
    /\ WF_vars(\E t \in tasks : Start(t) \/ Interrupt(t))
    /\ WF_vars(\E t \in tasks, ok \in BOOLEAN : Return(t, ok))
    /\ WF_vars(\E t \in tasks : Finish(t) \/ Abandon(t))

FairSpec == Spec /\ Fairness

-------------------------------------------------------------------------------
\* Types of the variables.
TypeOK == /\ rows \in [Items -> Row] /\ tasks \subseteq Task
          /\ life \in [Nodes -> {"up", "stopping", "closing", "closed", "gone"}]
          /\ claims \in 0..MaxClaims /\ drawnBy \in [Tokens -> Nodes \cup {NoNode}]
          /\ reports \subseteq Items \X Tokens \X BOOLEAN
          /\ epoch \in [Items -> Nat] /\ calls \in [Items -> SUBSET (Nat \X Tokens)]
          /\ lost \subseteq Items \X Tokens

(***************************************************************************)
(* A task is only taken over from an executor that crashed, lost touch or  *)
(* overran its deadline, never under a callback whose context is live      *)
(* (README, execution: LeaseDuration > HandlerTimeout is enough).          *)
(***************************************************************************)
NoTakeoverUnderLiveHandler ==
    PromptStart => \A t \in tasks : t.phase = "running" /\ t.left > 0 => HoldsToken(t)

(***************************************************************************)
(* While the context of a callback is live its task is leased to it, for   *)
(* at least as long, if the lease exceeds the handler's time by what a     *)
(* claim may take (the default configuration does).                        *)
(***************************************************************************)
LiveHandlerHoldsLease ==
    PromptStart /\ LeaseDuration - HandlerTimeout >= OperationTimeout =>
      \A t \in tasks : t.phase = "running" /\ t.left > 0 =>
        HoldsToken(t) /\ t.left <= rows[t.id].next

(***************************************************************************)
(* At most 1 + MaxRetries executions that were not handed back by Close    *)
(* per budget, although Close refunds attempts and crashes do not.         *)
(***************************************************************************)
DeliveryBudget == \A i \in Items : Cardinality(calls[i]) <= MaxAttempts

(***************************************************************************)
(* When Close has returned, no task is left leased to the node, unless the *)
(* statement that would have handed it back failed: the others need not    *)
(* wait for a lease to run out (README: Close hands tasks back at once).   *)
(***************************************************************************)
CloseHandsBack ==
    \A i \in Items : rows[i].status = "running" /\ life[drawnBy[rows[i].token]] = "closed" =>
        <<i, rows[i].token>> \in lost

(***************************************************************************)
(* Every committed task ends succeeded or failed as long as one node stays *)
(* up, whatever the others do (as far as the bound on claims goes).        *)
(***************************************************************************)
EventuallySettled ==
    \A i \in Items : rows[i].status = "pending" ~>
        rows[i].status \in {"succeeded", "failed", "deleted"} \/ claims = MaxClaims

LedgerState(status) ==
    CASE status = "pending" -> "waiting" [] status = "running" -> "held"
      [] status = "succeeded" -> "done"  [] status = "failed" -> "dead"
      [] status = "deleted" -> "gone"    [] OTHER -> "absent"

Ledger == INSTANCE DeliveryLedger
    WITH Budget <- MaxAttempts, Grants <- Tokens,
         Forgettable <- IF FailedRetention > 0 THEN {"done", "dead"} ELSE {"done"},
         state <- [i \in Items |-> LedgerState(rows[i].status)],
         grants <- [i \in Items |-> rows[i].attempts],
         holder <- [i \in Items |-> rows[i].token]

(***************************************************************************)
(* Claims, executions, finish, abandon, retry and cleanup refine the       *)
(* abstract delivery ledger: late results and late hand-backs of executors *)
(* that lost their task change nothing.                                    *)
(***************************************************************************)
ImplementsLedger == Ledger!Spec
===============================================================================
