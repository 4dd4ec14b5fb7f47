------------------------------- MODULE Snowflake -------------------------------
(***************************************************************************)
(* pkg/idgen/snowflake: generators that lease a worker id from a shared    *)
(* table (storage.go allocateWorkerOnce, heartbeat, release), hand out ids *)
(* made of wall clock, worker and sequence (node.go generate), and replace *)
(* a lost lease (snowflake.go Generate, heartbeatLoop, recoverLease,       *)
(* Close).                                                                 *)
(*                                                                         *)
(* now is the database clock; the wall clock of p is now + off[p].  The    *)
(* monotonic clock that measures heartbeats runs like now.  An id is kept  *)
(* as its three parts; 41 bits of time never run out here.                 *)
(***************************************************************************)
EXTENDS Integers, FiniteSets, FiniteSetsExt

CONSTANTS
    Procs,            \* processes, one generator each at a time
    MaxWorkerID, MaxSequence,
    WorkerTimeout,    \* defaultWorkerTimeout
    SafetyThreshold,  \* defaultSafetyThreshold
    MaxRollback,      \* maxStartupClockRollback
    Skews,            \* what a wall clock is ahead of the database's at first
    MaxSkew, MaxBehind,   \* how far it may be ahead, and behind
    MaxAnswer,        \* environment: time an answer takes after its effect
    MaxPause,         \* environment: time from Generate's check to its clock
    MaxTime, MaxIDs, MaxTokens, MaxFails, MaxSteps   \* bounds

ASSUME SnowflakeAssumption ==
    /\ {MaxWorkerID, MaxSequence, SafetyThreshold, MaxRollback, MaxSkew, MaxBehind, MaxAnswer,
        MaxPause, MaxTime, MaxIDs, MaxTokens, MaxFails, MaxSteps} \subseteq Nat
    /\ WorkerTimeout \in Nat /\ SafetyThreshold < WorkerTimeout
    /\ Skews \subseteq -MaxBehind..MaxSkew /\ Skews # {}

VARIABLES
    now, off,
    rows,    \* rows[w]: [last, updated, token] of worker w
    state,   \* state[p]: s.state; none: there is no generator
    loop,    \* loop[p]: where New, heartbeatLoop or Close is
    got,     \* got[p]: what it holds there: an allocation, a time, an answer
    node,    \* node[p]: the current lease and its node (start: history)
    beat,    \* beat[p]: lastHeartbeat
    wait,    \* wait[p]: time spent with an answer
    calls,   \* calls[p]: how long ago the calls of Generate there are checked
    spin,    \* spin[p]: the same of the call, if any, that waits for a millisecond
    issued,  \* history: the ids handed out
    tokens, fails, steps

vars == <<now, off, rows, state, loop, got, node, beat, wait, calls, spin, issued,
          tokens, fails, steps>>
callVars == <<calls, spin, issued>>

Workers == 0..MaxWorkerID
NoRow == [last |-> 0, updated |-> 0, token |-> 0]
Nothing == [worker |-> 0, token |-> 0, time |-> 0, ok |-> FALSE]
NoNode == [worker |-> 0, token |-> 0, ts |-> 0, seq |-> 0, retired |-> TRUE,
           start |-> 0]
Clock(p) == now + off[p]

\* The time starts where updated_at = 0 is long ago.
Init == /\ now = WorkerTimeout + MaxBehind + 1
        /\ off \in [Procs -> Skews]
        /\ rows = [w \in Workers |-> NoRow]
        /\ state = [p \in Procs |-> "none"]
        /\ loop = [p \in Procs |-> "none"]
        /\ got = [p \in Procs |-> Nothing]
        /\ node = [p \in Procs |-> NoNode]
        /\ beat = [p \in Procs |-> 0]
        /\ wait = [p \in Procs |-> 0]
        /\ calls = [p \in Procs |-> {}] /\ spin = [p \in Procs |-> {}]
        /\ issued = {}
        /\ tokens = 0 /\ fails = 0 /\ steps = 0

-------------------------------------------------------------------------------
(* The table *)

Allocated == {w \in Workers : rows[w].token # 0}
Expired == {w \in Allocated : rows[w].updated < now - WorkerTimeout}

\* What a new holder must be later than: every stored time and now.
Barrier == Max({rows[v].last : v \in Workers} \cup {now})

\* Which worker an allocation takes: the expired one that is longest so, else
\* the first free one, else none.
Candidates ==
    IF Expired # {} THEN {w \in Expired : \A v \in Expired : rows[w].updated <= rows[v].updated}
    ELSE IF Workers \ Allocated # {} THEN {Min(Workers \ Allocated)} ELSE {}

\* allocateWorkerOnce, one transaction under the coordinator's row lock.
Allocate(w) == /\ tokens < MaxTokens /\ tokens' = tokens + 1
               /\ rows' = [rows EXCEPT ![w] = [last |-> Barrier, updated |-> now,
                                               token |-> tokens + 1]]

\* heartbeat: renews the row if the token is still in it.
HeartbeatRow(w, token, ts) ==
    rows' = IF rows[w].token = token
            THEN [rows EXCEPT ![w] = [last |-> Max({@.last, ts, now}), updated |-> now,
                                      token |-> token]]
            ELSE rows

\* release: the row can be reclaimed at once.
ReleaseRow(w, token, ts) ==
    rows' = IF rows[w].token = token
            THEN [rows EXCEPT ![w] = [last |-> Max({@.last, ts, now}), updated |-> 0,
                                      token |-> token]]
            ELSE rows

\* A statement fails; Close cancels those that use the generator's context.
Failure(cancelled) == \/ cancelled /\ UNCHANGED fails
                      \/ fails < MaxFails /\ fails' = fails + 1

-------------------------------------------------------------------------------
(* New, heartbeatLoop, recoverLease, Close *)

\* New gets to its allocation.
New(p) ==
    /\ state[p] = "none" /\ loop[p] = "none" /\ calls[p] \cup spin[p] = {}
    /\ state' = [state EXCEPT ![p] = "new"]
    /\ loop' = [loop EXCEPT ![p] = "alloc"]
    /\ UNCHANGED <<now, off, rows, got, node, beat, wait, callVars, tokens, fails, steps>>

\* New gives up, recoverLease goes back to the loop.
Abort(p) == /\ loop' = [loop EXCEPT ![p] = IF state[p] = "new" THEN "none" ELSE "select"]
            /\ state' = [state EXCEPT ![p] = IF @ = "new" THEN "none" ELSE @]

AllocateWorker(p) ==
    /\ loop[p] = "alloc"
    /\ \E w \in Candidates :
         /\ Allocate(w)
         /\ got' = [got EXCEPT ![p] = [worker |-> w, token |-> tokens + 1,
                                       time |-> Barrier, ok |-> TRUE]]
    /\ loop' = [loop EXCEPT ![p] = "clock"]
    /\ UNCHANGED <<now, off, state, node, beat, wait, callVars, fails, steps>>

\* No worker is free, or the transaction fails, perhaps after its commit.
AllocateFails(p) ==
    /\ loop[p] = "alloc"
    /\ \/ Candidates = {} /\ UNCHANGED <<rows, tokens, fails>>
       \/ /\ Failure(state[p] = "closed")
          /\ (\E w \in Candidates : Allocate(w)) \/ UNCHANGED <<rows, tokens>>
    /\ Abort(p)
    /\ UNCHANGED <<now, off, got, node, beat, wait, callVars, steps>>

\* Faulty: the clock may stand at the stored time.
PassedOrEqual(p) == Clock(p) >= got[p].time
\* startupClockWait: the clock is past the barrier, too far behind it, or about
\* to pass it.
Passed(p) == Clock(p) > got[p].time
TooFarBehind(p) == got[p].time - Clock(p) > MaxRollback

\* waitForClock returned: the new lease is stored and the heartbeat recorded.
\* recoverLease activates unless Close was faster.
Activate(p) ==
    /\ loop[p] = "clock" /\ Passed(p)
    /\ node' = [node EXCEPT ![p] = [worker |-> got[p].worker, token |-> got[p].token,
                                    ts |-> 0, seq |-> 0, retired |-> FALSE,
                                    start |-> Clock(p)]]
    /\ beat' = [beat EXCEPT ![p] = now]
    /\ state' = [state EXCEPT ![p] = IF @ = "closed" THEN @ ELSE "active"]
    /\ loop' = [loop EXCEPT ![p] = "select"]
    /\ got' = [got EXCEPT ![p] = Nothing] /\ wait' = [wait EXCEPT ![p] = 0]
    /\ UNCHANGED <<now, off, rows, callVars, tokens, fails, steps>>

\* waitForClock failed: the allocation is released (if that works).
ClockFails(p) ==
    /\ loop[p] = "clock" /\ ~Passed(p)
    /\ TooFarBehind(p) \/ state[p] = "closed"
    /\ \/ ReleaseRow(got[p].worker, got[p].token, got[p].time) /\ UNCHANGED fails
       \/ UNCHANGED rows /\ Failure(FALSE)
    /\ Abort(p)
    /\ got' = [got EXCEPT ![p] = Nothing]
    /\ UNCHANGED <<now, off, node, beat, wait, callVars, tokens, steps>>

\* updateHeartbeat reads the node's time (under its mu) and renews the row, or
\* finds another token in it.  Ids of the time in between are like later ones.
Beat(p) ==
    /\ loop[p] = "select" /\ state[p] = "active" /\ spin[p] = {}
    /\ HeartbeatRow(node[p].worker, node[p].token, node[p].ts)
    /\ got' = [got EXCEPT ![p].ok = (rows[node[p].worker].token = node[p].token)]
    /\ loop' = [loop EXCEPT ![p] = "beaten"]
    /\ UNCHANGED <<now, off, state, node, beat, wait, callVars, tokens, fails, steps>>

\* markLeaseLost: only an active generator loses its lease.
LoseLease(p) == state' = [state EXCEPT ![p] = IF @ = "active" THEN "lost" ELSE @]

\* heartbeatExpired, on the monotonic clock.
HeartbeatExpired(p) == now - beat[p] > SafetyThreshold

\* The answer arrives.
BeatEnds(p) ==
    /\ loop[p] = "beaten"
    /\ \/ got[p].ok /\ beat' = [beat EXCEPT ![p] = now] /\ UNCHANGED state
       \/ ~got[p].ok /\ LoseLease(p) /\ UNCHANGED beat
    /\ got' = [got EXCEPT ![p] = Nothing] /\ wait' = [wait EXCEPT ![p] = 0]
    /\ loop' = [loop EXCEPT ![p] = "select"]
    /\ UNCHANGED <<now, off, rows, node, callVars, tokens, fails, steps>>

\* The heartbeat fails, before or after its effect.
BeatFails(p) ==
    /\ loop[p] = "beaten" \/ (loop[p] = "select" /\ state[p] = "active" /\ spin[p] = {})
    /\ Failure(state[p] = "closed")
    /\ IF HeartbeatExpired(p) THEN LoseLease(p) ELSE UNCHANGED state
    /\ got' = [got EXCEPT ![p] = Nothing] /\ wait' = [wait EXCEPT ![p] = 0]
    /\ loop' = [loop EXCEPT ![p] = "select"]
    /\ UNCHANGED <<now, off, rows, node, beat, callVars, tokens, steps>>

\* retire, under the node's mu.
Retired(p) == [node EXCEPT ![p].retired = TRUE]

\* recoverLease, or Close when the loop has ended, retires the node and takes
\* its last time ...
Retire(p) ==
    /\ loop[p] = "select" /\ state[p] \in {"lost", "closed"} /\ spin[p] = {}
    /\ node' = Retired(p)
    /\ got' = [got EXCEPT ![p] = [worker |-> node[p].worker, token |-> node[p].token,
                                  time |-> node[p].ts, ok |-> TRUE]]
    /\ loop' = [loop EXCEPT ![p] = IF state[p] = "lost" THEN "release" ELSE "closing"]
    /\ UNCHANGED <<now, off, rows, state, beat, wait, callVars, tokens, fails, steps>>

\* ... and releases the row; whether that works makes no difference to it.
Release(p) ==
    /\ loop[p] \in {"release", "closing"}
    /\ \/ ReleaseRow(got[p].worker, got[p].token, got[p].time) /\ UNCHANGED fails
       \/ UNCHANGED rows /\ Failure(FALSE)
    /\ got' = [got EXCEPT ![p] = Nothing]
    /\ loop' = [loop EXCEPT ![p] = IF @ = "release" THEN "alloc" ELSE "none"]
    /\ \/ loop[p] = "release" /\ UNCHANGED <<state, node, beat>>
       \/ /\ loop[p] = "closing"
          /\ state' = [state EXCEPT ![p] = "none"]
          /\ node' = [node EXCEPT ![p] = NoNode] /\ beat' = [beat EXCEPT ![p] = 0]
    /\ UNCHANGED <<now, off, wait, callVars, tokens, steps>>

Close(p) ==
    /\ state[p] \in {"active", "lost"}
    /\ state' = [state EXCEPT ![p] = "closed"]
    /\ UNCHANGED <<now, off, rows, loop, got, node, beat, wait, callVars, tokens, fails, steps>>

\* The process dies; its row stays.
Crash(p) ==
    /\ state[p] # "none" /\ Failure(FALSE)
    /\ state' = [state EXCEPT ![p] = "none"] /\ loop' = [loop EXCEPT ![p] = "none"]
    /\ got' = [got EXCEPT ![p] = Nothing] /\ node' = [node EXCEPT ![p] = NoNode]
    /\ calls' = [calls EXCEPT ![p] = {}] /\ spin' = [spin EXCEPT ![p] = {}]
    /\ beat' = [beat EXCEPT ![p] = 0] /\ wait' = [wait EXCEPT ![p] = 0]
    /\ UNCHANGED <<now, off, rows, issued, tokens, steps>>

-------------------------------------------------------------------------------
(* Generate, called by any number of goroutines *)

\* The state and the heartbeat are looked at first.
GenerateChecks(p) ==
    /\ state[p] = "active" /\ Cardinality(issued) < MaxIDs
    /\ \/ HeartbeatExpired(p) /\ LoseLease(p) /\ UNCHANGED calls
       \/ /\ ~HeartbeatExpired(p)
          /\ calls' = [calls EXCEPT ![p] = @ \cup {0}] /\ UNCHANGED state
    /\ UNCHANGED <<now, off, rows, loop, got, node, beat, wait, spin, issued, tokens, fails, steps>>

\* The id of the node's worker at time ts.
HandOut(p, ts, seq) ==
    /\ issued' = issued \cup {[ts |-> ts, worker |-> node[p].worker, seq |-> seq,
                               token |-> node[p].token, replay |-> ts < node[p].start]}
    /\ node' = [node EXCEPT ![p].ts = ts, ![p].seq = seq]

Backwards(p) == Clock(p) < node[p].ts

Full(n, clock) == clock = n.ts /\ n.seq = MaxSequence

\* Then the node of the current lease, under its mu, reads the clock: an error,
\* the next id, or (the sequence is used up) a wait for the next millisecond.
\* Another call may have been checked as long ago.
NodeGenerates(p) ==
    LET n == node[p]
        full == Full(n, Clock(p)) IN
    /\ spin[p] = {} /\ Cardinality(issued) < MaxIDs
    /\ \E k \in calls[p] :
         /\ calls' \in {calls, [calls EXCEPT ![p] = @ \ {k}]}
         /\ \/ /\ n.retired \/ Backwards(p)
               /\ UNCHANGED <<node, issued, spin>>
            \/ /\ ~n.retired /\ full
               /\ spin' = [spin EXCEPT ![p] = {k}] /\ UNCHANGED <<node, issued>>
            \/ /\ ~n.retired /\ ~Backwards(p) /\ ~full
               /\ HandOut(p, Clock(p), IF Clock(p) = n.ts THEN n.seq + 1 ELSE 0)
               /\ UNCHANGED spin
    /\ UNCHANGED <<now, off, rows, state, loop, got, beat, wait, tokens, fails, steps>>

\* The wait is over, or the clock stepped back.
SpinEnds(p) ==
    /\ spin[p] # {} /\ spin' = [spin EXCEPT ![p] = {}]
    /\ \/ Clock(p) > node[p].ts /\ HandOut(p, Clock(p), 0)
       \/ Backwards(p) /\ UNCHANGED <<node, issued>>
    /\ UNCHANGED <<now, off, rows, state, loop, got, beat, wait, calls, tokens, fails, steps>>

-------------------------------------------------------------------------------
\* A wall clock is set back.
ClockSteps(p) ==
    /\ off[p] > -MaxBehind /\ steps < MaxSteps /\ steps' = steps + 1
    /\ off' = [off EXCEPT ![p] = @ - 1]
    /\ UNCHANGED <<now, rows, state, loop, got, node, beat, wait, callVars, tokens, fails>>

\* Somebody has an answer, or a clock that is late enough, to go on with.
HasAnswer(p) == loop[p] = "beaten" \/ (loop[p] = "clock" /\ Passed(p))

Older(ages) == {k + 1 : k \in ages}

\* Time passes, no longer than the environment lets an answer or Generate wait.
Tick ==
    /\ now < MaxTime /\ Cardinality(issued) < MaxIDs /\ now' = now + 1
    /\ \A p \in Procs :
         /\ HasAnswer(p) => wait[p] < MaxAnswer
         /\ \A k \in calls[p] \cup spin[p] : k < MaxPause
    /\ wait' = [p \in Procs |-> IF HasAnswer(p) THEN wait[p] + 1 ELSE 0]
    /\ calls' = [p \in Procs |-> Older(calls[p])]
    /\ spin' = [p \in Procs |-> Older(spin[p])]
    /\ UNCHANGED <<off, rows, state, loop, got, node, beat, issued, tokens, fails, steps>>

Step(p) == \/ New(p) \/ AllocateWorker(p) \/ AllocateFails(p) \/ Activate(p) \/ ClockFails(p)
           \/ Beat(p) \/ BeatEnds(p) \/ BeatFails(p)
           \/ Retire(p) \/ Release(p) \/ Close(p) \/ Crash(p)
           \/ GenerateChecks(p) \/ NodeGenerates(p) \/ SpinEnds(p) \/ ClockSteps(p)

Next == Tick \/ \E p \in Procs : Step(p)

Spec == Init /\ [][Next]_vars

-------------------------------------------------------------------------------
\* Types of the variables.
TypeOK ==
    /\ now \in Nat /\ now >= MaxBehind /\ off \in [Procs -> -MaxBehind..MaxSkew]
    /\ rows \in [Workers -> [last : Nat, updated : 0..now, token : 0..MaxTokens]]
    /\ state \in [Procs -> {"none", "new", "active", "lost", "closed"}]
    /\ loop \in [Procs -> {"none", "alloc", "clock", "select", "beaten", "release", "closing"}]
    /\ got \in [Procs -> [worker : Workers, token : 0..MaxTokens, time : Nat, ok : BOOLEAN]]
    /\ node \in [Procs -> [worker : Workers, token : 0..MaxTokens, ts : Nat,
                           seq : 0..MaxSequence, retired : BOOLEAN, start : Nat]]
    /\ beat \in [Procs -> 0..now] /\ wait \in [Procs -> 0..MaxAnswer]
    /\ calls \in [Procs -> SUBSET (0..MaxPause)] /\ spin \in [Procs -> SUBSET (0..MaxPause)]
    /\ issued \subseteq [ts : Nat, worker : Workers, seq : 0..MaxSequence,
                       token : 0..MaxTokens, replay : BOOLEAN]
    /\ tokens \in 0..MaxTokens /\ fails \in 0..MaxFails /\ steps \in 0..MaxSteps

\* What WorkerTimeout leaves above SafetyThreshold covers an answer, the skew of
\* the clocks and a call of Generate from its check to its clock.
WideMargin == /\ SafetyThreshold + MaxPause + MaxAnswer + MaxSkew <= WorkerTimeout
              /\ MaxAnswer + MaxSkew + MaxBehind < WorkerTimeout

SameID(x, y) == x.ts = y.ts /\ x.worker = y.worker /\ x.seq = y.seq

(***************************************************************************)
(* No two leases hand out the same id, through expiry, takeover, release,  *)
(* crashes, lost answers, skewed clocks and pauses within the margin,      *)
(* unless a clock was set back below where waitForClock saw it pass the    *)
(* barrier (Generate: no id when the lease cannot be confirmed).           *)
(***************************************************************************)
UniqueIDs == \A x, y \in issued : SameID(x, y) /\ ~x.replay /\ ~y.replay => x = y

(***************************************************************************)
(* The same wherever clocks are set back to, which generate and            *)
(* waitForClock look for (startupClockWait: the next millisecond must be   *)
(* reached, so that the sequence is not replayed from 0 when a worker is   *)
(* used again).                                                            *)
(***************************************************************************)
NoReplay == \A x, y \in issued : SameID(x, y) => x = y

(***************************************************************************)
(* Every id of a former holder of a worker lies at or below the worker's   *)
(* last_timestamp, the barrier for its later holders (recoverLease: retire *)
(* first, so that the times of all old ids are in the barrier).            *)
(***************************************************************************)
BarrierCoversFormerIDs ==
    \A x \in issued : x.token # rows[x.worker].token => x.ts <= rows[x.worker].last

\* A call of Generate hands out the id of this time and sequence.
Generates(p, ts, seq) == /\ NodeGenerates(p) \/ SpinEnds(p)
                         /\ ~node[p].retired /\ spin'[p] = {} /\ HandOut(p, ts, seq)

(***************************************************************************)
(* A lease never hands out an id a second time, wherever its clock is set  *)
(* to (generate: an error while the clock is behind, the next sequence in  *)
(* the same millisecond, a wait when it is used up).                       *)
(***************************************************************************)
FreshIDs == [][\A p \in Procs, seq \in 0..MaxSequence :
    Generates(p, Clock(p), seq) =>
        \A x \in issued : ~(x.token = node[p].token /\ x.ts = Clock(p) /\ x.seq = seq)]_vars

(***************************************************************************)
(* Nobody hands out the id of an earlier call again, of whatever lease,    *)
(* unless one of the two was of a clock set back below where its lease     *)
(* started.                                                                *)
(***************************************************************************)
NeverTwice == [][\A p \in Procs, seq \in 0..MaxSequence :
    Generates(p, Clock(p), seq) /\ Clock(p) >= node[p].start =>
        \A x \in issued :
            ~(x.ts = Clock(p) /\ x.worker = node[p].worker /\ x.seq = seq /\ ~x.replay)]_vars
===============================================================================
