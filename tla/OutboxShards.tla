----------------------------- MODULE OutboxShards -----------------------------
(***************************************************************************)
(* Ownership of the logical shards among the nodes of pkg/outbox:          *)
(* storage.go coordinate (two transactions), lockShard and release, driven *)
(* by worker.go refresh and by New and Close in outbox.go.                 *)
(*                                                                         *)
(* Times of the database clock are countdowns, as in OutboxStore.  A node  *)
(* id is drawn by New and never used again, so a process that restarts is  *)
(* another element of Nodes; ids are compared by sort.Strings, hence       *)
(* integers.                                                               *)
(***************************************************************************)
EXTENDS Integers, FiniteSets

CONSTANTS
    Nodes,             \* node ids, ordered
    ShardCount,        \* number of logical shards
    ShardLease, HeartbeatInterval, OperationTimeout,
    MaxFailures,       \* bound: coordinate or release calls that fail
    MaxScans           \* bound: ScanOnce calls

ASSUME NodesAssumption == Nodes \subseteq Int /\ IsFiniteSet(Nodes)
ASSUME ShardsAssumption == ShardCount \in Nat \ {0}
ASSUME HeartbeatAssumption ==
    /\ {ShardLease, HeartbeatInterval, OperationTimeout} \subseteq Nat \ {0}
    /\ 3 * HeartbeatInterval <= ShardLease

VARIABLES
    proc,      \* proc[n]: life of the process that drew id n
    reg,       \* reg[n]: lease_until of its row in the nodes table
    shard,     \* shard[s]: owner_id, lease_token, lease_until of the shard row
    view,      \* view[n]: live nodes read by the first transaction of coordinate
    step,      \* step[n]: where its coordinate call is; failed: no answer to its commit
    leases,    \* leases[n]: o.leases, what the process believes it owns
    beat,      \* beat[n]: time until the heartbeat ticker fires
    budget,    \* budget[n]: what is left of its call's OperationTimeout
    age,       \* age[n]: time since the call began or made its first commit
    tokens,    \* shard tokens drawn so far
    failures,  \* failed calls so far
    scans      \* ScanOnce calls so far

vars == <<proc, reg, shard, view, step, leases, beat, budget, age, tokens, failures, scans>>

Shards == 0..(ShardCount - 1)
NoNode == 0
NoToken == 0
Past == -OperationTimeout
Lags == 0..OperationTimeout
Free == [owner |-> NoNode, token |-> NoToken, left |-> Past]

(***************************************************************************)
(* assignment: live nodes in order take the shards in turn; the node of    *)
(* rank i gets i, i + |U|, i + 2|U|...; a node outside U gets nothing.     *)
(***************************************************************************)
Rank(U, n) == Cardinality({k \in U : k < n})
Assignment(U, n) ==
    IF n \in U THEN {s \in Shards : s % Cardinality(U) = Rank(U, n)} ELSE {}

Init == /\ proc = [n \in Nodes |-> "new"]
        /\ reg = [n \in Nodes |-> Past]
        /\ shard = [s \in Shards |-> Free]
        /\ view = [n \in Nodes |-> {}]
        /\ step = [n \in Nodes |-> "idle"]
        /\ leases = [n \in Nodes |-> {}]
        /\ beat = [n \in Nodes |-> 0]
        /\ budget = [n \in Nodes |-> 0]
        /\ age = [n \in Nodes |-> 0]
        /\ tokens = 0
        /\ failures = 0 /\ scans = 0

\* coordinate returns; what it read and when goes with it.
Returns(n) == /\ step' = [step EXCEPT ![n] = "idle"]
              /\ view' = [view EXCEPT ![n] = {}]
              /\ budget' = [budget EXCEPT ![n] = 0]
              /\ age' = [age EXCEPT ![n] = 0]

\* What a process that has ended still held in memory is of no interest.
Forget(n) == /\ leases' = [leases EXCEPT ![n] = {}]
             /\ beat' = [beat EXCEPT ![n] = 0]

\* New starts the process; its first refresh must succeed.
Open(n) == /\ proc[n] = "new"
           /\ proc' = [proc EXCEPT ![n] = "opening"]
           /\ UNCHANGED <<reg, shard, view, step, leases, beat, budget, age, tokens, failures, scans>>

\* The heartbeat ticker fires: refresh calls coordinate, which reads the
\* database clock.  (In New the first refresh does not wait for a ticker.)
Begin(n) ==
    /\ proc[n] \in {"opening", "up"} /\ step[n] = "idle" /\ beat[n] = 0
    /\ step' = [step EXCEPT ![n] = "begun"]
    /\ beat' = [beat EXCEPT ![n] = HeartbeatInterval]
    /\ budget' = [budget EXCEPT ![n] = OperationTimeout]
    /\ age' = [age EXCEPT ![n] = 0]
    /\ UNCHANGED <<proc, reg, shard, view, leases, tokens, failures, scans>>

\* ScanOnce refreshes too, whenever its caller likes; coordinateMu keeps the
\* two refreshes of a node apart, so the heartbeat may have to wait for it.
ScanOnce(n) ==
    /\ proc[n] = "up" /\ step[n] = "idle"
    /\ scans < MaxScans /\ scans' = scans + 1
    /\ step' = [step EXCEPT ![n] = "begun"]
    /\ budget' = [budget EXCEPT ![n] = OperationTimeout]
    /\ age' = [age EXCEPT ![n] = 0]
    /\ UNCHANGED <<proc, reg, shard, view, leases, beat, tokens, failures>>

\* lease_until := now + ShardLease, where now is lag old.
LeaseUntil(lag) == ShardLease - lag

(***************************************************************************)
(* First transaction of coordinate: renew the node's own row, read the     *)
(* live nodes, give up owned shards that the assignment gives to others.   *)
(* Its clock reading is as old as the call.                                *)
(***************************************************************************)
Register(n) ==
    LET lag == age[n]
        live == {k \in Nodes : k = n \/ reg[k] > -lag} IN
    /\ step[n] = "begun"
    /\ reg' = [reg EXCEPT ![n] = LeaseUntil(lag)]
    /\ view' = [view EXCEPT ![n] = live]
    /\ shard' = [s \in Shards |->
                   IF shard[s].owner = n /\ s \notin Assignment(live, n) THEN Free ELSE shard[s]]
    /\ step' = [step EXCEPT ![n] = "registered"]
    /\ age' = [age EXCEPT ![n] = 0]
    /\ UNCHANGED <<proc, leases, beat, budget, tokens, failures, scans>>

(***************************************************************************)
(* Second transaction: renew the wanted shards it still holds, take the    *)
(* wanted shards nobody holds under a fresh token, read back what it owns. *)
(* The wanted shards are those of the view read by the first transaction.  *)
(* Its clock was read at some point since the first commit.  Deleting the  *)
(* expired rows of the nodes table changes no live node.                   *)
(***************************************************************************)
Wanted(n) == Assignment(view[n], n)
AvailableReleased(n, lag) == {s \in Wanted(n) : shard[s].owner = NoNode}  \* faulty: no takeover
Available(n, lag) == {s \in Wanted(n) : shard[s].left <= -lag}

Take(n, lag) ==
    /\ step[n] = "registered" /\ lag <= age[n]
    /\ shard' = [s \in Shards |->
         CASE s \in Available(n, lag) ->
                [owner |-> n, token |-> tokens + 1, left |-> LeaseUntil(lag)]
           [] s \in Wanted(n) \ Available(n, lag) /\ shard[s].owner = n ->
                [shard[s] EXCEPT !.left = LeaseUntil(lag)]
           [] OTHER -> shard[s]]
    /\ tokens' = IF Available(n, lag) = {} THEN tokens ELSE tokens + 1

Acquire(n, lag) ==
    /\ Take(n, lag)
    /\ leases' = [leases EXCEPT ![n] =
         {<<s, shard'[s].token>> : s \in {x \in Shards : /\ shard'[x].owner = n
                                                         /\ shard'[x].left > -lag}}]
    /\ Returns(n)
    /\ proc' = [proc EXCEPT ![n] = IF @ = "opening" THEN "up" ELSE @]
    /\ UNCHANGED <<reg, beat, failures, scans>>

\* release: the node's row and its ownership disappear in one transaction.
ReleaseRows(n) == /\ shard' = [s \in Shards |-> IF shard[s].owner = n THEN Free ELSE shard[s]]
                  /\ reg' = [reg EXCEPT ![n] = Past]

\* Calls that Close cancels are not counted.
MayFail(n) == IF proc[n] = "closing" THEN UNCHANGED failures
              ELSE failures < MaxFailures /\ failures' = failures + 1

\* The second commit takes effect, and its answer is lost.
AnswerLost(n, lag) ==
    /\ Take(n, lag) /\ MayFail(n)
    /\ step' = [step EXCEPT ![n] = "failed"]
    /\ UNCHANGED <<proc, reg, view, leases, beat, budget, age, scans>>

(***************************************************************************)
(* coordinate fails: a database error, its OperationTimeout, or the        *)
(* cancellation by Close, before a commit or by the lost answer of one.    *)
(* The cached leases stay.  New then releases what the node may have got,  *)
(* ignores whether that worked, and gives up.                              *)
(***************************************************************************)
CoordinateFails(n) ==
    /\ step[n] # "idle"
    /\ IF step[n] = "failed" THEN UNCHANGED failures ELSE MayFail(n)
    /\ Returns(n)
    /\ \/ /\ proc[n] = "opening"
          /\ ReleaseRows(n) /\ proc' = [proc EXCEPT ![n] = "closed"] /\ Forget(n)
       \/ /\ proc[n] = "opening"
          /\ UNCHANGED <<shard, reg>> /\ proc' = [proc EXCEPT ![n] = "gone"] /\ Forget(n)
       \/ /\ proc[n] # "opening"
          /\ UNCHANGED <<shard, reg, proc, leases, beat>>
    /\ UNCHANGED <<tokens, scans>>

\* Close cancels the loops; what is under way may still commit.
Close(n) == /\ proc[n] = "up"
            /\ proc' = [proc EXCEPT ![n] = "closing"]
            /\ UNCHANGED <<reg, shard, view, step, leases, beat, budget, age, tokens, failures, scans>>

\* Close, once the loops and operations have ended (background.Wait and
\* operations.Wait): the node's rows are released, or the release fails.
QuietAtOnce(n) == TRUE                                 \* faulty: no wait
Quiet(n) == step[n] = "idle"

Release(n) ==
    /\ proc[n] = "closing" /\ Quiet(n)
    /\ ReleaseRows(n)
    /\ proc' = [proc EXCEPT ![n] = "closed"]
    /\ Forget(n)
    /\ UNCHANGED <<view, step, budget, age, tokens, failures, scans>>

ReleaseFails(n) ==
    /\ proc[n] = "closing" /\ Quiet(n)
    /\ failures < MaxFailures /\ failures' = failures + 1
    /\ proc' = [proc EXCEPT ![n] = "gone"]
    /\ Forget(n)
    /\ UNCHANGED <<reg, shard, view, step, budget, age, tokens, scans>>

\* The process dies; its rows stay until their leases run out.
Crash(n) == /\ proc[n] \in {"opening", "up", "closing"}
            /\ proc' = [proc EXCEPT ![n] = "gone"]
            /\ Forget(n) /\ Returns(n)
            /\ UNCHANGED <<reg, shard, tokens, failures, scans>>

Elapse(left) == IF left > Past THEN left - 1 ELSE Past

\* Time passes; a live process is never late for its heartbeat, and no
\* coordinate call outlives its OperationTimeout.
Tick == /\ \A n \in Nodes : proc[n] \in {"opening", "up"} /\ step[n] = "idle" => beat[n] > 0
        /\ \A n \in Nodes : step[n] # "idle" => budget[n] > 0
        /\ reg' = [n \in Nodes |-> Elapse(reg[n])]
        /\ shard' = [s \in Shards |-> [shard[s] EXCEPT !.left = Elapse(@)]]
        /\ beat' = [n \in Nodes |-> IF beat[n] > 0 THEN beat[n] - 1 ELSE 0]
        /\ budget' = [n \in Nodes |-> IF step[n] # "idle" THEN budget[n] - 1 ELSE 0]
        /\ age' = [n \in Nodes |-> IF step[n] # "idle" THEN age[n] + 1 ELSE 0]
        /\ UNCHANGED <<proc, view, step, leases, tokens, failures, scans>>

Next == \/ Tick
        \/ \E n \in Nodes : Open(n) \/ Close(n) \/ Release(n) \/ ReleaseFails(n)
                            \/ Crash(n) \/ Begin(n) \/ ScanOnce(n) \/ Register(n)
                            \/ CoordinateFails(n)
        \/ \E n \in Nodes, lag \in Lags : Acquire(n, lag) \/ AnswerLost(n, lag)

Spec == Init /\ [][Next]_vars

(***************************************************************************)
(* The coordinate loop of a live process keeps running and its two         *)
(* transactions end; time passes.  Failures are bounded by MaxFailures.    *)
(***************************************************************************)
Fairness ==
    /\ WF_vars(Tick)
    /\ \A n \in Nodes :
         /\ WF_vars(Begin(n) \/ Register(n))
         /\ WF_vars(\E lag \in Lags : Acquire(n, lag))
         /\ WF_vars(step[n] = "failed" /\ CoordinateFails(n))
         /\ WF_vars(Release(n))

FairSpec == Spec /\ Fairness

-------------------------------------------------------------------------------
\* Types of the variables.
TypeOK ==
    /\ proc \in [Nodes -> {"new", "opening", "up", "closing", "closed", "gone"}]
    /\ reg \in [Nodes -> Past..ShardLease]
    /\ shard \in [Shards -> [owner : Nodes \cup {NoNode}, token : Nat, left : Past..ShardLease]]
    /\ view \in [Nodes -> SUBSET Nodes]
    /\ step \in [Nodes -> {"idle", "begun", "registered", "failed"}]
    /\ leases \in [Nodes -> SUBSET (Shards \X Nat)]
    /\ beat \in [Nodes -> 0..HeartbeatInterval]
    /\ budget \in [Nodes -> 0..OperationTimeout]
    /\ age \in [Nodes -> 0..OperationTimeout]
    /\ tokens \in Nat /\ failures \in 0..MaxFailures /\ scans \in 0..MaxScans

\* The lease check of claimShard and cleanup on a cached lease.
LockShard(n, lease) == LET row == shard[lease[1]] IN
    row.owner = n /\ row.token = lease[2] /\ row.left > 0

(***************************************************************************)
(* A node whose Close released its rows never owns a shard again and is    *)
(* never counted as live: no coordinate call of its own runs after the     *)
(* release (Close waits for the loops and operations first).               *)
(***************************************************************************)
ClosedOwnsNothing ==
    \A n \in Nodes : proc[n] = "closed" =>
        /\ reg[n] = Past
        /\ \A s \in Shards : shard[s].owner # n

\* The shards whose cached lease passes lockShard.
Usable(n) == {s \in Shards : \E l \in leases[n] : l[1] = s /\ LockShard(n, l)}

(***************************************************************************)
(* Once nodes stop coming and going and the database answers, the live     *)
(* nodes can use disjoint shares of all shards from their cached leases,   *)
(* in numbers that differ by at most one, and keep them: crashed owners    *)
(* are replaced, swapped shards are handed over, and heartbeats renew      *)
(* before the leases run out (HeartbeatInterval <= ShardLease / 3).        *)
(***************************************************************************)
Balanced ==
    LET up == {n \in Nodes : proc[n] = "up"} IN
    up # {} =>
      /\ UNION {Usable(n) : n \in up} = Shards
      /\ \A n, k \in up : n # k =>
           Usable(n) \cap Usable(k) = {} /\ Cardinality(Usable(n)) - Cardinality(Usable(k)) <= 1

\* In the end the shares are balanced for good (coordinate, release, lease expiry).
EventuallyBalanced == <>[]Balanced
===============================================================================
