------------------------------ MODULE OutboxStore ------------------------------
(***************************************************************************)
(* The message table of pkg/outbox and the executors that work on it:      *)
(* storage.go (insert, claimIDs, claimShard, markClaimed, finish, retry,   *)
(* cleanup) and the delivery of one claimed task (outbox.go execute and    *)
(* invoke).  Every statement is one database transaction, hence one action.*)
(*                                                                         *)
(* Time.  Every time the table stores comes from the database clock and is *)
(* only ever compared with it, so a stored time is kept as what is left    *)
(* until it: "lease_until > now" is lease > 0.  Tick lets one unit pass.   *)
(* A countdown stops at Past, one OperationTimeout below zero: a statement *)
(* may run with a "now" read up to OperationTimeout earlier (its lag), and *)
(* no comparison looks further back.                                       *)
(***************************************************************************)
EXTENDS Integers, FiniteSets

CONSTANTS
    Msgs,             \* message ids
    ShardOf,          \* shard_id drawn at insertion, a function on Msgs
    MaxAttempts,      \* config.retries + 1
    HandlerTimeout, OperationTimeout, TaskLease,
    RetryMin, RetryMax, Retention,
    PromptStart,      \* TRUE: the callback of a claimed task starts within the
                      \* OperationTimeout of the claim (no stalled process)
    MaxClaims,        \* bound: claim transactions, each has a fresh token
    MaxRequeues       \* bound: operator Retry calls per message

ASSUME AttemptsAssumption == MaxAttempts \in Nat \ {0}
ASSUME DurationsAssumption ==
    /\ {HandlerTimeout, OperationTimeout, TaskLease, RetryMin, RetryMax, Retention}
         \subseteq Nat \ {0}
    /\ RetryMin <= RetryMax
ASSUME LeaseAssumption == TaskLease - HandlerTimeout >= OperationTimeout
ASSUME BoundsAssumption == MaxClaims \in Nat /\ MaxRequeues \in Nat
ASSUME PromptAssumption == PromptStart \in BOOLEAN

VARIABLES
    rows,     \* rows[m]: the row of message m
    tasks,    \* claimed tasks held by some goroutine of some node
    claims,   \* tokens drawn so far (rand.Text(), never the same twice)
    reports,  \* history: <<id, token, ok>>, outcomes of finished callbacks
    epoch,    \* history: epoch[m], operator retries of m
    calls     \* history: calls[m], the callbacks started by claims of this
              \* epoch, as <<attempt, token>>

vars == <<rows, tasks, claims, reports, epoch, calls>>

NoToken == 0
Past == -OperationTimeout
Tokens == 1..MaxClaims
Status == {"absent", "pending", "processing", "succeeded", "failed", "deleted"}

Countdown == Int
Row == [status : Status, attempts : Nat, next : Countdown,
        token : Nat, lease : Countdown, kept : Countdown]
Task == [id : Msgs, token : Tokens, attempts : Nat, epoch : Nat,
         phase : {"claimed", "running", "returned"}, left : Nat, ok : BOOLEAN]

Absent == [status |-> "absent", attempts |-> 0, next |-> Past,
           token |-> NoToken, lease |-> Past, kept |-> Past]

\* A row that insert or retry leaves: due at once, unclaimed, unspent.
Fresh == [status |-> "pending", attempts |-> 0, next |-> 0,
          token |-> NoToken, lease |-> Past, kept |-> Past]

-------------------------------------------------------------------------------
(***************************************************************************)
(* backoff: exponential from RetryMin, capped by RetryMax, with equal      *)
(* jitter, never below one unit.                                           *)
(***************************************************************************)
BackoffBase(attempt) ==
    LET raw == RetryMin * 2^(attempt - 1) IN IF raw < RetryMax THEN raw ELSE RetryMax

Backoff(attempt) ==
    {IF d < 1 THEN 1 ELSE d : d \in (BackoffBase(attempt) \div 2)..BackoffBase(attempt)}

Init == /\ rows = [m \in Msgs |-> Absent]
        /\ tasks = {}
        /\ claims = 0
        /\ reports = {}
        /\ epoch = [m \in Msgs |-> 0]
        /\ calls = [m \in Msgs |-> {}]

\* insert, at the commit of the business transaction.
Insert(m) ==
    /\ rows[m].status = "absent"
    /\ rows' = [rows EXCEPT ![m] = Fresh]
    /\ UNCHANGED <<tasks, claims, reports, epoch, calls>>

\* Faulty: leases that ran out are never taken over.
ClaimablePendingOnly(m, lag) == rows[m].status = "pending" /\ rows[m].next <= -lag

\* The WHERE clause both claims share, for a statement whose "now" is lag old.
Claimable(m, lag) ==
    \/ rows[m].status = "pending"    /\ rows[m].next  <= -lag
    \/ rows[m].status = "processing" /\ rows[m].lease <= -lag

\* Faulty: a lease of the callback's time alone, or a claim that leaves the
\* counting to finish.
LeasedForHandlerOnly(m, lag) ==
    [rows[m] EXCEPT !.status = "processing", !.attempts = @ + 1,
                    !.token = claims + 1, !.lease = HandlerTimeout - lag]
LeasedUncounted(m, lag) ==
    [rows[m] EXCEPT !.status = "processing", !.token = claims + 1, !.lease = TaskLease - lag]

\* What a claim leaves of a row that has used its budget, and of any other.
GivenUp(m) == [rows[m] EXCEPT !.status = "failed", !.token = NoToken, !.lease = Past]
Leased(m, lag) == [rows[m] EXCEPT !.status = "processing", !.attempts = @ + 1,
                                  !.token = claims + 1, !.lease = TaskLease - lag]

(***************************************************************************)
(* markClaimed on the selected rows S, whose "now" is lag old when the     *)
(* transaction commits.  What is left of the call's OperationTimeout is    *)
(* the time in which the caller gets the tasks and starts them.            *)
(***************************************************************************)
MarkClaimed(S, lag) ==
    LET exhausted == {m \in S : rows[m].attempts >= MaxAttempts}
        taken == S \ exhausted
    IN /\ claims < MaxClaims
       /\ claims' = claims + 1
       /\ rows' = [m \in Msgs |-> IF m \in exhausted THEN GivenUp(m)
                                  ELSE IF m \in taken THEN Leased(m, lag) ELSE rows[m]]
       /\ tasks' = tasks \cup
            {[id |-> m, token |-> claims + 1, attempts |-> rows[m].attempts + 1,
              epoch |-> epoch[m], phase |-> "claimed",
              left |-> OperationTimeout - lag, ok |-> FALSE] : m \in taken}
       /\ UNCHANGED <<reports, epoch, calls>>

\* Rows locked by a concurrent transaction are skipped, so any part of the
\* due rows may be what a claim gets.  Dispatch claims by id, whatever the
\* shard; the scanner claims the due rows of one shard.
ClaimIDs(S, lag) == /\ S # {} /\ \A m \in S : Claimable(m, lag)
                    /\ MarkClaimed(S, lag)

ClaimShard(s, S, lag) == /\ S # {} /\ \A m \in S : ShardOf[m] = s /\ Claimable(m, lag)
                         /\ MarkClaimed(S, lag)

-------------------------------------------------------------------------------
\* execute / invoke: the callback runs under a context of HandlerTimeout.
Start(t) ==
    /\ t.phase = "claimed"
    /\ tasks' = (tasks \ {t}) \cup {[t EXCEPT !.phase = "running", !.left = HandlerTimeout]}
    /\ calls' = IF t.epoch = epoch[t.id]
                THEN [calls EXCEPT ![t.id] = @ \cup {<<t.attempts, t.token>>}] ELSE calls
    /\ UNCHANGED <<rows, claims, reports, epoch>>

\* invoke returns before calling: the context is done or no handler is known.
Reject(t) ==
    /\ t.phase = "claimed"
    /\ tasks' = (tasks \ {t}) \cup {[t EXCEPT !.phase = "returned", !.ok = FALSE]}
    /\ reports' = reports \cup {<<t.id, t.token, FALSE>>}
    /\ UNCHANGED <<rows, claims, epoch, calls>>

\* The callback returns, panics (an error) or was cancelled.  A nil result
\* counts only while its context is live.
Return(t, ok) ==
    /\ t.phase = "running"
    /\ ok => t.left > 0
    /\ tasks' = (tasks \ {t}) \cup {[t EXCEPT !.phase = "returned", !.ok = ok]}
    /\ reports' = reports \cup {<<t.id, t.token, ok>>}
    /\ UNCHANGED <<rows, claims, epoch, calls>>

\* Faulty: any live lease on the row will do.
HoldsAnyLease(t) == rows[t.id].status = "processing" /\ rows[t.id].lease > 0

\* The guard of the finish statement.
HoldsLease(t) == /\ rows[t.id].status = "processing"
                 /\ rows[t.id].token = t.token
                 /\ rows[t.id].lease > 0

\* The row finish writes when its guard holds.
Outcome(t, delay) ==
    LET settled == [rows[t.id] EXCEPT !.token = NoToken, !.lease = Past] IN
    IF t.ok THEN [settled EXCEPT !.status = "succeeded", !.next = Past, !.kept = Retention]
    ELSE IF t.attempts >= MaxAttempts
    THEN [settled EXCEPT !.status = "failed", !.next = Past, !.kept = Past]
    ELSE [settled EXCEPT !.status = "pending", !.next = delay, !.kept = Past]

\* finish; a lost lease changes nothing and the result is dropped.
Finish(t) ==
    /\ t.phase = "returned"
    /\ \/ /\ HoldsLease(t)
          /\ \E delay \in Backoff(t.attempts) :
               rows' = [rows EXCEPT ![t.id] = Outcome(t, delay)]
       \/ ~HoldsLease(t) /\ UNCHANGED rows
    /\ tasks' = tasks \ {t}
    /\ UNCHANGED <<claims, reports, epoch, calls>>

\* The task disappears: the process dies, the claim's answer never arrives,
\* or the finish statement fails.
Lose(t) == /\ tasks' = tasks \ {t}
           /\ UNCHANGED <<rows, claims, reports, epoch, calls>>

-------------------------------------------------------------------------------
\* Retry: the operator restarts a failed message with a fresh budget.
Retry(m) ==
    /\ rows[m].status = "failed"
    /\ epoch[m] < MaxRequeues
    /\ rows' = [rows EXCEPT ![m] = Fresh]
    /\ epoch' = [epoch EXCEPT ![m] = @ + 1]
    /\ calls' = [calls EXCEPT ![m] = {}]
    /\ UNCHANGED <<tasks, claims, reports>>

\* cleanup of shard s: completed_at < now - Retention.  (Nothing reads what
\* is left of a deleted row.)
Cleanup(s, S) ==
    /\ S # {}
    /\ \A m \in S : ShardOf[m] = s /\ rows[m].status = "succeeded" /\ rows[m].kept < 0
    /\ rows' = [m \in Msgs |-> IF m \in S THEN [rows[m] EXCEPT !.status = "deleted"]
                               ELSE rows[m]]
    /\ UNCHANGED <<tasks, claims, reports, epoch, calls>>

Elapse(left) == IF left > Past THEN left - 1 ELSE Past

\* One unit of time passes.
Tick ==
    /\ PromptStart => \A t \in tasks : t.phase = "claimed" => t.left > 0
    /\ rows' = [m \in Msgs |-> [rows[m] EXCEPT !.next = Elapse(@), !.lease = Elapse(@),
                                               !.kept = Elapse(@)]]
    /\ tasks' = {[t EXCEPT !.left = IF @ > 0 THEN @ - 1 ELSE 0] : t \in tasks}
    /\ UNCHANGED <<claims, reports, epoch, calls>>

Lags == 0..OperationTimeout
Shards == {ShardOf[m] : m \in Msgs}

Next ==
    \/ \E m \in Msgs : Insert(m) \/ Retry(m)
    \/ \E S \in SUBSET Msgs, lag \in Lags : ClaimIDs(S, lag)
    \/ \E s \in Shards, S \in SUBSET Msgs, lag \in Lags : ClaimShard(s, S, lag)
    \/ \E s \in Shards, S \in SUBSET Msgs : Cleanup(s, S)
    \/ \E t \in tasks : Start(t) \/ Reject(t) \/ Finish(t) \/ Lose(t)
    \/ \E t \in tasks, ok \in BOOLEAN : Return(t, ok)
    \/ Tick

Spec == Init /\ [][Next]_vars

(***************************************************************************)
(* The scan loop keeps claiming what is due (ScanInterval), a claimed task *)
(* is executed to its end or lost, and time passes.  The operator, the     *)
(* publisher and cleanup owe nothing.                                      *)
(***************************************************************************)
Fairness ==
    /\ WF_vars(Tick)
    /\ \A m \in Msgs : WF_vars(\E S \in SUBSET Msgs : m \in S /\ ClaimShard(ShardOf[m], S, 0))
    /\ WF_vars(\E t \in tasks : Start(t) \/ Reject(t))
    /\ WF_vars(\E t \in tasks, ok \in BOOLEAN : Return(t, ok))
    /\ WF_vars(\E t \in tasks : Finish(t))

FairSpec == Spec /\ Fairness

-------------------------------------------------------------------------------
\* Types of the variables.
TypeOK == /\ rows \in [Msgs -> Row]
          /\ tasks \subseteq Task
          /\ claims \in 0..MaxClaims
          /\ reports \subseteq Msgs \X Tokens \X BOOLEAN
          /\ epoch \in [Msgs -> Nat]
          /\ calls \in [Msgs -> SUBSET (Nat \X Tokens)]

(***************************************************************************)
(* While the context of a callback is live, its message is still leased to *)
(* it, for at least as long: nobody else can be delivering the message     *)
(* (resolveConfig's demand on TaskLease, markClaimed's lease, execute's    *)
(* deadline).  Needs callbacks that start promptly after the claim.        *)
(***************************************************************************)
LiveHandlerHoldsLease ==
    PromptStart => \A t \in tasks : t.phase = "running" /\ t.left > 0 =>
        HoldsLease(t) /\ t.left <= rows[t.id].lease

(***************************************************************************)
(* A message is delivered at most MaxAttempts times per budget, whatever   *)
(* crashes, lost answers and expired leases happen (README: a crash after  *)
(* the claim also consumes the budget).                                    *)
(***************************************************************************)
DeliveryBudget == \A m \in Msgs : Cardinality(calls[m]) <= MaxAttempts

(***************************************************************************)
(* A message only becomes succeeded, and is only removed by cleanup, after *)
(* one of its callbacks returned nil in time: none is dropped unhandled.   *)
(***************************************************************************)
NeverDroppedUnhandled ==
    \A m \in Msgs : rows[m].status \in {"succeeded", "deleted"} =>
        \E k \in Tokens : <<m, k, TRUE>> \in reports

(***************************************************************************)
(* finish: a step that settles a leased message applies the outcome of the *)
(* task that holds the lease, never of an executor that was superseded.    *)
(***************************************************************************)
OnlyHolderSettles ==
    [][\A m \in Msgs :
         /\ rows[m].status = "processing"
         /\ rows'[m].status \in {"pending", "succeeded"}
         => \E ok \in BOOLEAN : /\ <<m, rows[m].token, ok>> \in reports
                                /\ ok <=> rows'[m].status = "succeeded"]_vars

(***************************************************************************)
(* Every committed message is eventually succeeded or failed, although     *)
(* executors may be lost at any point: it never stays leased or due.       *)
(***************************************************************************)
EventuallySettled ==
    \A m \in Msgs : rows[m].status = "pending" ~>
        rows[m].status \in {"succeeded", "failed", "deleted"}

\* The table implements the delivery promise: grants are lease tokens.
LedgerState(status) ==
    CASE status = "pending" -> "waiting" [] status = "processing" -> "held"
      [] status = "succeeded" -> "done"  [] status = "failed" -> "dead"
      [] status = "deleted" -> "gone"    [] OTHER -> "absent"

Ledger == INSTANCE DeliveryLedger
    WITH Items <- Msgs, Budget <- MaxAttempts, Grants <- Tokens, Forgettable <- {"done"},
         state <- [m \in Msgs |-> LedgerState(rows[m].status)],
         grants <- [m \in Msgs |-> rows[m].attempts],
         holder <- [m \in Msgs |-> rows[m].token]

(***************************************************************************)
(* Claims, deliveries, finish, retry and cleanup refine the abstract       *)
(* at-least-once delivery ledger.                                          *)
(***************************************************************************)
ImplementsLedger == Ledger!Spec
===============================================================================
