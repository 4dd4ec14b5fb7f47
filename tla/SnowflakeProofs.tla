---------------------------- MODULE SnowflakeProofs ----------------------------
(***************************************************************************)
(* Proofs about Snowflake for any processes, workers, sequence bits and    *)
(* clocks, any number of concurrent calls, tokens, failures, crashes and   *)
(* clock steps: the types, that the barrier covers the ids of former       *)
(* holders, that no two leases hand out the same id, and that no lease     *)
(* hands one out twice.                                                    *)
(***************************************************************************)
EXTENDS Snowflake, WellFoundedInduction, TLAPS

-------------------------------------------------------------------------------
(* The inductive invariant *)

Live(p) == ~node[p].retired

\* How far past a heartbeat the ids of a lease may lie, by a clock that is so
\* much ahead.
Hold(ahead) == SafetyThreshold + MaxPause + ahead

\* A claim says that ids of a lease lie up to a time: those handed out, and
\* those a live lease may still hand out.
IdClaim(x) == [worker |-> x.worker, token |-> x.token, time |-> x.ts]
LeaseClaim(n, b, o) == [worker |-> n.worker, token |-> n.token, time |-> b + Hold(o)]
Claims == {IdClaim(x) : x \in issued}
          \cup {LeaseClaim(node[p], beat[p], off[p]) : p \in {q \in Procs : Live(q)}}

\* A floor says that ids of a lease lie above a time: the barrier of the row,
\* that of an allocation which waits for its clock, where a live lease started,
\* and the ids themselves.
RowFloor(w, r) == [worker |-> w, token |-> r.token, time |-> r.last]
GotFloor(g) == [worker |-> g.worker, token |-> g.token, time |-> g.time]
LeaseFloor(n) == [worker |-> n.worker, token |-> n.token, time |-> n.start - 1]
IdFloor(x) == [worker |-> x.worker, token |-> x.token, time |-> x.ts - 1]
Floors == {RowFloor(w, rows[w]) : w \in Workers}
          \cup {GotFloor(got[p]) : p \in {q \in Procs : loop[q] = "clock"}}
          \cup {LeaseFloor(node[p]) : p \in {q \in Procs : Live(q)}}
          \cup {IdFloor(x) : x \in {y \in issued : ~y.replay}}

\* What an earlier lease claims lies at or below the floors of later ones.
Behind(c, f) == c.worker = f.worker /\ c.token < f.token => c.time <= f.time
Ordered == \A c \in Claims, f \in Floors : Behind(c, f)

\* What the row's lease claims lies in its barrier, or passes before it expires.
CoveredBy(c, r) == c.token = r.token => c.time <= r.last \/ c.time <= r.updated + WorkerTimeout + 1
Covered == \A c \in Claims : CoveredBy(c, rows[c.worker])

\* The newest token of a worker is in its row.
Newest == /\ \A c \in Claims : c.token # 0 /\ c.token <= rows[c.worker].token
          /\ \A f \in Floors : f.token <= rows[f.worker].token
          /\ \A w \in Workers : rows[w].token <= tokens

\* Tokens are not shared.
TokensOf(p) == {node[p].token, got[p].token}
Disjoint == \A p, q \in Procs :
    p # q => \A a \in TokensOf(p), b \in TokensOf(q) : a = b => a = 0
Known == \A p \in Procs : \A a \in TokensOf(p) : a <= tokens

\* A lease has a token, and so have its ids.
Held == /\ \A x \in issued : x.token # 0 /\ x.token <= tokens
        /\ \A p \in Procs : /\ Live(p) => node[p].token # 0
                            /\ loop[p] = "clock" => got[p].token # 0

\* Where the ids of a process' lease are.
UpTo(x, n) == x.ts < n.ts \/ (x.ts = n.ts /\ x.seq <= n.seq)
LeaseIDs == \A p \in Procs, x \in issued :
    /\ x.token = node[p].token => UpTo(x, node[p])
    /\ loop[p] \in {"release", "closing"} /\ x.token = got[p].token => x.ts <= got[p].time
    /\ loop[p] = "clock" => x.token # got[p].token

\* Which leases are live.
Modes == \A p \in Procs :
    /\ loop[p] \notin {"select", "beaten"} => node[p].retired
    /\ loop[p] = "beaten" \/ state[p] = "active" \/ spin[p] # {} => ~node[p].retired

\* The row of an allocation that waits for its clock, and of a heartbeat whose
\* answer is on its way, is still theirs.
Waiting(g, r, wt, o) == /\ g.token # 0 /\ r.token = g.token
                        /\ now + o <= r.updated + MaxSkew + 1 + wt
                        /\ g.time <= r.updated + MaxSkew
Renewed(n, r, wt) == r.token = n.token /\ now <= r.updated + wt
Rows == \A p \in Procs :
    /\ loop[p] = "clock" => Waiting(got[p], rows[got[p].worker], wait[p], off[p])
    /\ loop[p] = "beaten" /\ got[p].ok => Renewed(node[p], rows[node[p].worker], wait[p])

\* Generate is not long after a heartbeat.
Timely == \A p \in Procs : \A k \in calls[p] \cup spin[p] :
    Live(p) => now <= beat[p] + SafetyThreshold + k

\* No time is ahead of every clock.
NotAhead == /\ \A w \in Workers : rows[w].last <= now + MaxSkew
            /\ \A p \in Procs : node[p].ts <= now + MaxSkew /\ got[p].time <= now + MaxSkew

\* What holds whatever the margin is, and what needs it.
LeaseInv == TypeOK /\ NotAhead /\ Modes /\ Timely /\ Known /\ Disjoint /\ Held /\ LeaseIDs
IInv == LeaseInv /\ Newest /\ Rows /\ Ordered /\ Covered

-------------------------------------------------------------------------------
(* Least and greatest elements *)

\* A set of natural numbers has a least element (well-foundedness).
LEMMA LeastNatural ==
    ASSUME NEW T \in SUBSET Nat, T # {}
    PROVE  \E x \in T : \A y \in T : x <= y
<1> DEFINE R == OpToRel(<, Nat)
<1>1. IsWellFoundedOn(R, Nat)
  BY NatLessThanWellFounded
<1>2. \A x, y \in Nat : <<y, x>> \in R <=> y < x
  BY DEF OpToRel
<1> HIDE DEF R
<1>3. \E x \in T : \A y \in T : ~(<<y, x>> \in R)
  BY <1>1, WFMin
<1>4. PICK x \in T : \A y \in T : ~(<<y, x>> \in R)
  BY <1>3
<1>5. ASSUME NEW y \in T PROVE x <= y
  <2>1. x \in Nat /\ y \in Nat
    OBVIOUS
  <2>2. ~(y < x)
    BY <1>2, <1>4, <2>1
  <2> QED BY <2>1, <2>2
<1> QED BY <1>5

\* So Min is one of the elements ...
LEMMA MinIs ==
    ASSUME NEW T \in SUBSET Nat, T # {}
    PROVE  Min(T) \in T /\ \A y \in T : Min(T) <= y
<1>1. \E x \in T : \A y \in T : x <= y
  BY LeastNatural
<1> QED BY <1>1 DEF Min

\* ... and Max is, when the set has a bound.
LEMMA MaxIs ==
    ASSUME NEW T \in SUBSET Int, T # {}, NEW b \in Int, \A x \in T : x <= b
    PROVE  Max(T) \in T /\ \A y \in T : y <= Max(T)
<1> DEFINE S == {n \in Nat : \E x \in T : n = b - x}
<1>1. S \in SUBSET Nat /\ S # {}
  <2>1. PICK x \in T : TRUE
    OBVIOUS
  <2>2. x \in Int /\ x <= b
    BY <2>1
  <2>3. b - x \in Nat
    BY <2>2
  <2>4. b - x \in S
    BY <2>3, <2>1
  <2> QED BY <2>4
<1>2. PICK n \in S : \A m \in S : n <= m
  BY <1>1, LeastNatural
<1>3. PICK x \in T : n = b - x
  BY <1>2
<1>4. \A y \in T : b - y \in S
  OBVIOUS
<1>5. \A y \in T : x >= y
  <2> SUFFICES ASSUME NEW y \in T PROVE x >= y
    OBVIOUS
  <2>1. n <= b - y
    BY <1>2, <1>4
  <2>2. x \in Int /\ y \in Int
    BY <1>3
  <2> HIDE DEF S
  <2> QED BY <1>3, <2>1, <2>2
<1>6. Max(T) \in T /\ \A y \in T : Max(T) >= y
  BY <1>3, <1>5 DEF Max
<1>7. \A y \in T : y \in Int
  OBVIOUS
<1> HIDE DEF S
<1> QED BY <1>6, <1>7

\* The greatest of three times, as heartbeat and release write it.
LEMMA MaxOfThree ==
    ASSUME NEW a \in Nat, NEW b \in Nat, NEW c \in Nat, NEW d \in Int, a <= d, b <= d, c <= d
    PROVE  /\ Max({a, b, c}) \in Nat /\ Max({a, b, c}) <= d
           /\ a <= Max({a, b, c}) /\ b <= Max({a, b, c}) /\ c <= Max({a, b, c})
<1>1. {a, b, c} \in SUBSET Int /\ {a, b, c} # {} /\ \A x \in {a, b, c} : x <= d
  OBVIOUS
<1>2. Max({a, b, c}) \in {a, b, c} /\ \A y \in {a, b, c} : y <= Max({a, b, c})
  BY <1>1, MaxIs
<1> QED BY <1>2

-------------------------------------------------------------------------------
(* The constants and the table *)

\* The constants, one by one.
LEMMA Constants ==
    /\ MaxWorkerID \in Nat /\ MaxSequence \in Nat /\ SafetyThreshold \in Nat
    /\ MaxAnswer \in Nat /\ MaxPause \in Nat /\ MaxTokens \in Nat /\ MaxFails \in Nat
    /\ MaxSteps \in Nat /\ WorkerTimeout \in Nat /\ MaxSkew \in Nat /\ MaxBehind \in Nat
    /\ Skews \subseteq -MaxBehind..MaxSkew
BY SnowflakeAssumption

Row == [last : Nat, updated : 0..now, token : 0..MaxTokens]

\* The barrier is later than every stored time and now, and ahead of no clock.
LEMMA BarrierIs ==
    ASSUME TypeOK, NotAhead
    PROVE  /\ Barrier \in Nat /\ now <= Barrier /\ Barrier <= now + MaxSkew
           /\ \A w \in Workers : rows[w].last <= Barrier
<1> DEFINE T == {rows[v].last : v \in Workers} \cup {now}
<1>1. \A v \in Workers : rows[v].last \in Nat /\ rows[v].last <= now + MaxSkew
  BY DEF TypeOK, NotAhead
<1>2. now \in Nat /\ now \in T /\ now + MaxSkew \in Int /\ now <= now + MaxSkew
  BY Constants DEF TypeOK
<1>3. \A x \in T : x \in Nat /\ x <= now + MaxSkew
  BY <1>1, <1>2
<1>4. T \in SUBSET Int /\ T # {}
  BY <1>2, <1>3
<1>5. \A w \in Workers : rows[w].last \in T
  OBVIOUS
<1> HIDE DEF T
<1>6. Max(T) \in T /\ \A y \in T : y <= Max(T)
  BY <1>2, <1>3, <1>4, MaxIs
<1>7. Barrier = Max(T)
  BY DEF Barrier, T
<1> QED BY <1>2, <1>3, <1>5, <1>6, <1>7

\* An allocation takes a worker whose lease has expired, or a free one.
LEMMA CandidateIs ==
    ASSUME TypeOK, NEW w \in Candidates
    PROVE  w \in Workers /\ (rows[w].updated < now - WorkerTimeout \/ rows[w].token = 0)
<1>1. CASE Expired # {}
  BY <1>1 DEF Candidates, Expired, Allocated
<1>2. CASE Expired = {} /\ Workers \ Allocated # {}
  <2>1. Workers \ Allocated \in SUBSET Nat
    BY Constants DEF Workers
  <2>2. Min(Workers \ Allocated) \in Workers \ Allocated
    BY <1>2, <2>1, MinIs
  <2>3. w = Min(Workers \ Allocated)
    BY <1>2 DEF Candidates
  <2> QED BY <2>2, <2>3 DEF Allocated
<1>3. CASE Expired = {} /\ Workers \ Allocated = {}
  BY <1>3 DEF Candidates
<1> QED BY <1>1, <1>2, <1>3

\* A heartbeat moves the times of its row forward and no other row.
LEMMA HeartbeatRowIs ==
    ASSUME TypeOK, NotAhead, NEW w \in Workers, NEW token, NEW ts \in Nat,
           ts <= now + MaxSkew, HeartbeatRow(w, token, ts)
    PROVE  /\ rows' \in [Workers -> Row]
           /\ \A v \in Workers :
                /\ rows'[v].token = rows[v].token /\ rows[v].updated <= rows'[v].updated
                /\ rows[v].last <= rows'[v].last /\ rows'[v].last <= now + MaxSkew
           /\ rows[w].token = token => rows'[w].updated = now
<1> DEFINE m == Max({rows[w].last, ts, now})
<1>1. rows \in [Workers -> Row] /\ now \in Nat
  BY DEF TypeOK, Row
<1>2. \A v \in Workers : /\ rows[v].last \in Nat /\ rows[v].updated \in 0..now
                         /\ rows[v].last <= now + MaxSkew /\ rows[v].token \in 0..MaxTokens
  BY <1>1 DEF NotAhead, Row
<1>3. m \in Nat /\ rows[w].last <= m /\ m <= now + MaxSkew
  BY <1>1, <1>2, MaxOfThree, Constants
<1>4. CASE rows[w].token = token
  <2>1. rows' = [rows EXCEPT ![w] = [last |-> m, updated |-> now, token |-> token]]
    BY <1>4 DEF HeartbeatRow
  <2> HIDE DEF m
  <2>2. rows' = [rows EXCEPT ![w] = [last |-> m, updated |-> now, token |-> rows[w].token]]
    BY <1>4, <2>1
  <2>3. [last |-> m, updated |-> now, token |-> rows[w].token] \in Row
    BY <1>1, <1>2, <1>3 DEF Row
  <2>4. rows' \in [Workers -> Row]
    BY <1>1, <2>2, <2>3
  <2>5. \A v \in Workers :
          rows'[v] = IF v = w THEN [last |-> m, updated |-> now, token |-> rows[w].token] ELSE rows[v]
    BY <1>1, <2>2
  <2> QED BY <1>1, <1>2, <1>3, <2>4, <2>5
<1>5. CASE rows[w].token # token
  <2>1. rows' = rows
    BY <1>5 DEF HeartbeatRow
  <2> QED BY <1>1, <1>2, <1>5, <2>1
<1> QED BY <1>4, <1>5

\* A release leaves the token, moves last_timestamp forward and forgets the
\* update.
LEMMA ReleaseRowIs ==
    ASSUME TypeOK, NotAhead, NEW w \in Workers, NEW token, NEW ts \in Nat,
           ts <= now + MaxSkew, ReleaseRow(w, token, ts)
    PROVE  /\ rows' \in [Workers -> Row]
           /\ \A v \in Workers :
                /\ rows'[v].token = rows[v].token
                /\ rows[v].token # token => rows[v].updated <= rows'[v].updated
                /\ rows[v].last <= rows'[v].last /\ rows'[v].last <= now + MaxSkew
           /\ rows[w].token = token => ts <= rows'[w].last
           /\ \A v \in Workers : v # w => rows'[v] = rows[v]
<1> DEFINE m == Max({rows[w].last, ts, now})
<1>1. rows \in [Workers -> Row] /\ now \in Nat
  BY DEF TypeOK, Row
<1>2. \A v \in Workers : /\ rows[v].last \in Nat /\ rows[v].updated \in 0..now
                         /\ rows[v].last <= now + MaxSkew /\ rows[v].token \in 0..MaxTokens
  BY <1>1 DEF NotAhead, Row
<1>3. m \in Nat /\ rows[w].last <= m /\ m <= now + MaxSkew /\ ts <= m
  BY <1>1, <1>2, MaxOfThree, Constants
<1>4. CASE rows[w].token = token
  <2>1. rows' = [rows EXCEPT ![w] = [last |-> m, updated |-> 0, token |-> token]]
    BY <1>4 DEF ReleaseRow
  <2> HIDE DEF m
  <2>2. rows' = [rows EXCEPT ![w] = [last |-> m, updated |-> 0, token |-> rows[w].token]]
    BY <1>4, <2>1
  <2>3. [last |-> m, updated |-> 0, token |-> rows[w].token] \in Row
    BY <1>1, <1>2, <1>3 DEF Row
  <2>4. rows' \in [Workers -> Row]
    BY <1>1, <2>2, <2>3
  <2>5. \A v \in Workers :
          rows'[v] = IF v = w THEN [last |-> m, updated |-> 0, token |-> rows[w].token] ELSE rows[v]
    BY <1>1, <2>2
  <2> QED BY <1>1, <1>2, <1>3, <1>4, <2>4, <2>5
<1>5. CASE rows[w].token # token
  <2>1. rows' = rows
    BY <1>5 DEF ReleaseRow
  <2> QED BY <1>1, <1>2, <1>5, <2>1
<1> QED BY <1>4, <1>5

\* An allocation writes its row, with a token of its own, and no other.
LEMMA AllocateIs ==
    ASSUME TypeOK, NotAhead, NEW w \in Candidates, Allocate(w)
    PROVE  /\ w \in Workers /\ rows' \in [Workers -> Row]
           /\ rows'[w] = [last |-> Barrier, updated |-> now, token |-> tokens + 1]
           /\ \A v \in Workers : v # w => rows'[v] = rows[v]
           /\ tokens' = tokens + 1 /\ tokens' \in 0..MaxTokens
<1>1. rows \in [Workers -> Row] /\ now \in Nat /\ tokens \in 0..MaxTokens
  BY DEF TypeOK, Row
<1>2. w \in Workers /\ Barrier \in Nat
  BY CandidateIs, BarrierIs
<1>3. tokens' = tokens + 1 /\ tokens' \in 0..MaxTokens
  BY <1>1, Constants DEF Allocate
<1>4. rows' = [rows EXCEPT ![w] = [last |-> Barrier, updated |-> now, token |-> tokens + 1]]
  BY DEF Allocate
<1>5. [last |-> Barrier, updated |-> now, token |-> tokens + 1] \in Row
  BY <1>1, <1>2, <1>3 DEF Row
<1> QED BY <1>1, <1>2, <1>3, <1>4, <1>5

-------------------------------------------------------------------------------
(* What a step changes *)

\* What a row may become without a new lease: its time grows, and its update is
\* forgotten only when the lease with this token is released.
RowsKeep(r2, token) == \A v \in Workers :
    /\ r2[v].token = rows[v].token
    /\ rows[v].last <= r2[v].last /\ r2[v].last <= now + MaxSkew
    /\ rows[v].token # token => rows[v].updated <= r2[v].updated

\* What a step of p leaves alone.
Others(p) == \A q \in Procs : q # p =>
    /\ state'[q] = state[q] /\ loop'[q] = loop[q] /\ got'[q] = got[q]
    /\ node'[q] = node[q] /\ beat'[q] = beat[q] /\ wait'[q] = wait[q]
    /\ calls'[q] = calls[q] /\ spin'[q] = spin[q] /\ off'[q] = off[q]

Functions == /\ state = [q \in Procs |-> state[q]] /\ loop = [q \in Procs |-> loop[q]]
             /\ got = [q \in Procs |-> got[q]] /\ node = [q \in Procs |-> node[q]]
             /\ beat = [q \in Procs |-> beat[q]] /\ wait = [q \in Procs |-> wait[q]]
             /\ calls = [q \in Procs |-> calls[q]] /\ spin = [q \in Procs |-> spin[q]]
             /\ off = [q \in Procs |-> off[q]]

\* The variables are functions, so EXCEPT changes them as it reads.
LEMMA FunctionsOK == ASSUME TypeOK PROVE Functions
BY DEF TypeOK, Functions

Ages == SUBSET (0..MaxPause)

\* The second half of Generate is that of one of the calls; others stay.
LEMMA NodeCalls ==
    ASSUME TypeOK, NEW p \in Procs, NodeGenerates(p)
    PROVE  /\ calls' \in [Procs -> Ages] /\ spin' \in [Procs -> Ages]
           /\ calls'[p] \subseteq calls[p] /\ spin'[p] \subseteq calls[p]
           /\ calls[p] # {}
           /\ \A q \in Procs : q # p => calls'[q] = calls[q] /\ spin'[q] = spin[q]
<1>1. calls \in [Procs -> Ages] /\ spin \in [Procs -> Ages] /\ spin[p] = {}
  BY DEF TypeOK, Ages, NodeGenerates
<1>2. PICK k \in calls[p] : /\ calls' \in {calls, [calls EXCEPT ![p] = @ \ {k}]}
                            /\ spin' = spin \/ spin' = [spin EXCEPT ![p] = {k}]
  BY DEF NodeGenerates
<1>3. {k} \in Ages /\ calls[p] \ {k} \in Ages
  BY <1>1, <1>2 DEF Ages
<1> QED BY <1>1, <1>2, <1>3

\* A step of p leaves what the other processes hold.
LEMMA OthersKeep ==
    ASSUME TypeOK, NEW p \in Procs, Step(p)
    PROVE  now' = now /\ Others(p)
<1>1. Functions
  BY FunctionsOK
<1>2. CASE New(p)
  BY <1>1, <1>2 DEF Functions, Others, New, callVars
<1>3. CASE AllocateWorker(p)
  BY <1>1, <1>3 DEF Functions, Others, AllocateWorker, callVars
<1>4. CASE AllocateFails(p)
  BY <1>1, <1>4 DEF Functions, Others, AllocateFails, Abort, callVars
<1>5. CASE Activate(p)
  BY <1>1, <1>5 DEF Functions, Others, Activate, callVars
<1>6. CASE ClockFails(p)
  BY <1>1, <1>6 DEF Functions, Others, ClockFails, Abort, callVars
<1>7. CASE Beat(p)
  BY <1>1, <1>7 DEF Functions, Others, Beat, callVars
<1>8. CASE BeatEnds(p)
  BY <1>1, <1>8 DEF Functions, Others, BeatEnds, LoseLease, callVars
<1>9. CASE BeatFails(p)
  BY <1>1, <1>9 DEF Functions, Others, BeatFails, LoseLease, callVars
<1>10. CASE Retire(p)
  BY <1>1, <1>10 DEF Functions, Others, Retire, Retired, callVars
<1>11. CASE Release(p)
  BY <1>1, <1>11 DEF Functions, Others, Release, callVars
<1>12. CASE Close(p)
  BY <1>1, <1>12 DEF Functions, Others, Close, callVars
<1>13. CASE Crash(p)
  BY <1>1, <1>13 DEF Functions, Others, Crash
<1>14. CASE GenerateChecks(p)
  BY <1>1, <1>14 DEF Functions, Others, GenerateChecks, LoseLease
<1>15. CASE NodeGenerates(p)
  BY <1>1, <1>15, NodeCalls DEF Functions, Others, NodeGenerates, HandOut
<1>16. CASE SpinEnds(p)
  BY <1>1, <1>16 DEF Functions, Others, SpinEnds, HandOut
<1>17. CASE ClockSteps(p)
  BY <1>1, <1>17 DEF Functions, Others, ClockSteps, callVars
<1> QED BY <1>2, <1>3, <1>4, <1>5, <1>6, <1>7, <1>8, <1>9, <1>10, <1>11, <1>12, <1>13,
           <1>14, <1>15, <1>16, <1>17 DEF Step

\* A step allocates a worker, or the rows keep their leases.
Allocates(p) == loop[p] = "alloc" /\ \E w \in Candidates : Allocate(w)
Keeps(p) == /\ rows' \in [Workers -> Row]
            /\ tokens' = tokens /\ RowsKeep(rows', got[p].token)

\* What a step does to the table: an allocation, or rows that keep their
\* tokens and never go back, but for a release of p's own.
LEMMA RowsStep ==
    ASSUME TypeOK, NotAhead, NEW p \in Procs, Step(p)
    PROVE  Allocates(p) \/ Keeps(p)
<1>1. /\ rows \in [Workers -> Row] /\ now \in Nat
      /\ got[p].worker \in Workers /\ got[p].time \in Nat /\ got[p].time <= now + MaxSkew
      /\ node[p].worker \in Workers /\ node[p].ts \in Nat /\ node[p].ts <= now + MaxSkew
  BY DEF TypeOK, NotAhead, Row
<1>2. \A v \in Workers : rows[v].last \in Nat /\ rows[v].last <= now + MaxSkew /\ rows[v].updated \in Nat
  BY <1>1 DEF NotAhead, Row
<1>3. ASSUME rows' = rows, tokens' = tokens
      PROVE  Keeps(p)
  <2>1. RowsKeep(rows, got[p].token)
    BY <1>2 DEF RowsKeep
  <2> QED BY <1>1, <1>3, <2>1 DEF Keeps
<1>4. ASSUME ReleaseRow(got[p].worker, got[p].token, got[p].time), tokens' = tokens
      PROVE  Keeps(p)
  <2>1. /\ rows' \in [Workers -> Row]
        /\ \A v \in Workers :
                /\ rows'[v].token = rows[v].token
                /\ rows[v].token # got[p].token => rows[v].updated <= rows'[v].updated
                /\ rows[v].last <= rows'[v].last /\ rows'[v].last <= now + MaxSkew
    BY <1>1, <1>4, ReleaseRowIs
  <2> QED BY <1>4, <2>1 DEF Keeps, RowsKeep
<1>5. ASSUME HeartbeatRow(node[p].worker, node[p].token, node[p].ts), tokens' = tokens
      PROVE  Keeps(p)
  <2>1. /\ rows' \in [Workers -> Row]
        /\ \A v \in Workers :
                /\ rows'[v].token = rows[v].token /\ rows[v].updated <= rows'[v].updated
                /\ rows[v].last <= rows'[v].last /\ rows'[v].last <= now + MaxSkew
    BY <1>1, <1>5, HeartbeatRowIs
  <2> QED BY <1>5, <2>1 DEF Keeps, RowsKeep
<1>6. CASE AllocateWorker(p)
  BY <1>6 DEF AllocateWorker, Allocates
<1>7. CASE AllocateFails(p)
  <2>1. loop[p] = "alloc"
    BY <1>7 DEF AllocateFails
  <2>2. (rows' = rows /\ tokens' = tokens) \/ \E w \in Candidates : Allocate(w)
    BY <1>7 DEF AllocateFails
  <2> QED BY <1>3, <2>1, <2>2 DEF Allocates
<1>8. CASE ClockFails(p)
  <2>1. tokens' = tokens /\ (rows' = rows \/ ReleaseRow(got[p].worker, got[p].token, got[p].time))
    BY <1>8 DEF ClockFails
  <2> QED BY <1>3, <1>4, <2>1
<1>9. CASE Release(p)
  <2>1. tokens' = tokens /\ (rows' = rows \/ ReleaseRow(got[p].worker, got[p].token, got[p].time))
    BY <1>9 DEF Release
  <2> QED BY <1>3, <1>4, <2>1
<1>10. CASE Beat(p)
  BY <1>5, <1>10 DEF Beat
<1>11. CASE \/ New(p) \/ Activate(p) \/ BeatEnds(p) \/ BeatFails(p) \/ Retire(p) \/ Close(p)
            \/ Crash(p) \/ GenerateChecks(p) \/ NodeGenerates(p) \/ SpinEnds(p) \/ ClockSteps(p)
  <2>1. rows' = rows /\ tokens' = tokens
    BY <1>11 DEF New, Activate, BeatEnds, BeatFails, Retire, Close, Crash, GenerateChecks,
                 NodeGenerates, SpinEnds, ClockSteps
  <2> QED BY <1>3, <2>1
<1> QED BY <1>6, <1>7, <1>8, <1>9, <1>10, <1>11 DEF Step

-------------------------------------------------------------------------------
(* Types *)

States == {"none", "new", "active", "lost", "closed"}
Loops == {"none", "alloc", "clock", "select", "beaten", "release", "closing"}
Gots == [worker : Workers, token : 0..MaxTokens, time : Nat, ok : BOOLEAN]
Nodes == [worker : Workers, token : 0..MaxTokens, ts : Nat, seq : 0..MaxSequence,
          retired : BOOLEAN, start : Nat]
IDs == [ts : Nat, worker : Workers, seq : 0..MaxSequence, token : 0..MaxTokens, replay : BOOLEAN]

\* TypeOK with the types by name.
LEMMA Types ==
    TypeOK <=> /\ now \in Nat /\ now >= MaxBehind
               /\ off \in [Procs -> -MaxBehind..MaxSkew] /\ rows \in [Workers -> Row]
               /\ state \in [Procs -> States] /\ loop \in [Procs -> Loops]
               /\ got \in [Procs -> Gots] /\ node \in [Procs -> Nodes]
               /\ beat \in [Procs -> 0..now] /\ wait \in [Procs -> 0..MaxAnswer]
               /\ calls \in [Procs -> Ages] /\ spin \in [Procs -> Ages]
               /\ issued \subseteq IDs
               /\ tokens \in 0..MaxTokens /\ fails \in 0..MaxFails /\ steps \in 0..MaxSteps
BY DEF TypeOK, Row, States, Loops, Gots, Nodes, IDs, Ages

\* The empty records and 0 have their types.
LEMMA ZeroTyped ==
    Nothing \in Gots /\ NoNode \in Nodes /\ 0 \in Workers /\ 0 \in 0..MaxAnswer
    /\ 0 \in 0..MaxPause /\ {} \in Ages /\ \A S \in Ages : S \cup {0} \in Ages
<1>1. /\ 0 \in Workers /\ 0 \in 0..MaxAnswer /\ 0 \in 0..MaxPause /\ 0 \in 0..MaxTokens
      /\ 0 \in 0..MaxSequence
  BY Constants DEF Workers
<1>2. Nothing \in Gots /\ NoNode \in Nodes
  BY <1>1 DEF Nothing, NoNode, Gots, Nodes
<1> QED BY <1>1, <1>2 DEF Ages

\* A wall clock is at most MaxSkew ahead of the database's, and never negative.
LEMMA ClockIs ==
    ASSUME TypeOK, NEW p \in Procs
    PROVE  Clock(p) \in Nat /\ Clock(p) <= now + MaxSkew
BY Constants DEF TypeOK, Clock

\* Everything but the rows and the tokens.
ProcTypes == /\ off \in [Procs -> -MaxBehind..MaxSkew]
             /\ state \in [Procs -> States] /\ loop \in [Procs -> Loops]
             /\ got \in [Procs -> Gots] /\ node \in [Procs -> Nodes] /\ beat \in [Procs -> 0..now]
             /\ wait \in [Procs -> 0..MaxAnswer]
             /\ calls \in [Procs -> Ages] /\ spin \in [Procs -> Ages]
             /\ issued \subseteq IDs /\ fails \in 0..MaxFails /\ steps \in 0..MaxSteps

\* What an id handed out makes of the node and of the ids.
Id(p, ts, seq) == [ts |-> ts, worker |-> node[p].worker, seq |-> seq,
                   token |-> node[p].token, replay |-> ts < node[p].start]

\* An id handed out is typed; the node keeps its lease and takes the id's time.
LEMMA HandOutIs ==
    ASSUME node \in [Procs -> Nodes], NEW p \in Procs, NEW ts \in Nat, NEW seq \in 0..MaxSequence,
           HandOut(p, ts, seq)
    PROVE  /\ issued' = issued \cup {Id(p, ts, seq)} /\ Id(p, ts, seq) \in IDs
           /\ node'[p] \in Nodes
           /\ node'[p].ts = ts /\ node'[p].seq = seq /\ node'[p].worker = node[p].worker
           /\ node'[p].token = node[p].token /\ node'[p].retired = node[p].retired
           /\ node'[p].start = node[p].start
<1>1. issued' = issued \cup {Id(p, ts, seq)}
  BY DEF HandOut, Id
<1>2. node[p] \in Nodes
  OBVIOUS
<1>3. Id(p, ts, seq) \in IDs
  <2>1. (ts < node[p].start) \in BOOLEAN
    OBVIOUS
  <2>2. node[p].worker \in Workers /\ node[p].token \in 0..MaxTokens
    BY <1>2 DEF Nodes
  <2> QED BY <2>1, <2>2 DEF Id, IDs
<1>4. node'[p] = [node[p] EXCEPT !.ts = ts, !.seq = seq]
  BY DEF HandOut
<1>5. [node[p] EXCEPT !.ts = ts] \in Nodes
  BY <1>2 DEF Nodes
<1>6. [node[p] EXCEPT !.ts = ts, !.seq = seq] \in Nodes
  BY <1>5 DEF Nodes
<1> QED BY <1>1, <1>2, <1>3, <1>4, <1>6 DEF Nodes

\* So nodes and ids keep their types.
LEMMA HandOutTypes ==
    ASSUME node \in [Procs -> Nodes], issued \subseteq IDs, NEW p \in Procs, NEW ts \in Nat,
           NEW seq \in 0..MaxSequence, HandOut(p, ts, seq)
    PROVE  node' \in [Procs -> Nodes] /\ issued' \subseteq IDs
<1>1. node'[p] \in Nodes /\ issued' \subseteq IDs
  BY HandOutIs
<1>2. node' = [node EXCEPT ![p] = node'[p]]
  BY DEF HandOut
<1> QED BY <1>1, <1>2

\* What the processes hold keeps its type.
LEMMA StepTypes ==
    ASSUME TypeOK, NotAhead, NEW p \in Procs, Step(p)
    PROVE  ProcTypes'
<1>1. ProcTypes /\ now \in Nat /\ now' = now /\ now \in 0..now /\ 0 \in 0..now
  BY Types, OthersKeep DEF ProcTypes
<1>2. Clock(p) \in Nat
  BY ClockIs
<1>3. MaxFails \in Nat /\ MaxSteps \in Nat /\ MaxSequence \in Nat
  BY Constants
<1>4. CASE New(p)
  BY <1>1, <1>2, <1>3, <1>4, ZeroTyped DEF ProcTypes, New, callVars, States, Loops
<1>5. CASE AllocateWorker(p)
  <2>1. PICK w \in Candidates :
          /\ Allocate(w)
          /\ got' = [got EXCEPT ![p] = [worker |-> w, token |-> tokens + 1, time |-> Barrier, ok |-> TRUE]]
    BY <1>5 DEF AllocateWorker
  <2>2. w \in Workers /\ tokens + 1 \in 0..MaxTokens /\ Barrier \in Nat
    BY <2>1, AllocateIs, BarrierIs
  <2>3. [worker |-> w, token |-> tokens + 1, time |-> Barrier, ok |-> TRUE] \in Gots
    BY <2>2 DEF Gots
  <2>4. got' \in [Procs -> Gots]
    BY <1>1, <2>1, <2>3 DEF ProcTypes
  <2> QED BY <1>1, <1>5, <2>4 DEF ProcTypes, AllocateWorker, callVars, Loops
<1>6. CASE AllocateFails(p)
  BY <1>1, <1>2, <1>3, <1>6, ZeroTyped DEF ProcTypes, AllocateFails, Abort, callVars, Failure, States, Loops
<1>7. CASE Activate(p)
  <2> DEFINE n == [worker |-> got[p].worker, token |-> got[p].token, ts |-> 0, seq |-> 0,
                   retired |-> FALSE, start |-> Clock(p)]
  <2>1. got[p] \in Gots
    BY <1>1 DEF ProcTypes
  <2>2. n \in Nodes
    BY <1>2, <1>3, <2>1 DEF Nodes, Gots
  <2>3. node' = [node EXCEPT ![p] = n]
    BY <1>7 DEF Activate
  <2> HIDE DEF n
  <2>4. node' \in [Procs -> Nodes]
    BY <1>1, <2>2, <2>3 DEF ProcTypes
  <2> QED BY <1>1, <1>7, <2>4, ZeroTyped DEF ProcTypes, Activate, callVars, States, Loops
<1>8. CASE ClockFails(p)
  BY <1>1, <1>2, <1>3, <1>8, ZeroTyped DEF ProcTypes, ClockFails, Abort, callVars, Failure, States, Loops
<1>9. CASE Beat(p)
  <2> DEFINE ok == rows[node[p].worker].token = node[p].token
  <2>1. got' = [got EXCEPT ![p].ok = ok] /\ ok \in BOOLEAN
    BY <1>9 DEF Beat
  <2> HIDE DEF ok
  <2>2. got[p] \in Gots
    BY <1>1 DEF ProcTypes
  <2>3. [got[p] EXCEPT !.ok = ok] \in Gots
    BY <2>1, <2>2 DEF Gots
  <2>4. got' \in [Procs -> Gots]
    BY <1>1, <2>1, <2>3 DEF ProcTypes
  <2> QED BY <1>1, <1>9, <2>4 DEF ProcTypes, Beat, callVars, Loops
<1>10. CASE BeatEnds(p)
  BY <1>1, <1>2, <1>3, <1>10, ZeroTyped DEF ProcTypes, BeatEnds, LoseLease, callVars, States, Loops
<1>11. CASE BeatFails(p)
  BY <1>1, <1>2, <1>3, <1>11, ZeroTyped
     DEF ProcTypes, BeatFails, LoseLease, callVars, Failure, States, Loops
<1>12. CASE Retire(p)
  <2>1. node[p] \in Nodes /\ node \in [Procs -> Nodes]
    BY <1>1 DEF ProcTypes
  <2>2. [node[p] EXCEPT !.retired = TRUE] \in Nodes
    BY <2>1 DEF Nodes
  <2>3. node' = [node EXCEPT ![p] = [node[p] EXCEPT !.retired = TRUE]]
    BY <1>12, <2>1 DEF Retire, Retired
  <2>4. node' \in [Procs -> Nodes]
    BY <2>1, <2>2, <2>3
  <2>5. [worker |-> node[p].worker, token |-> node[p].token, time |-> node[p].ts, ok |-> TRUE] \in Gots
    BY <2>1 DEF Nodes, Gots
  <2>6. got' \in [Procs -> Gots]
    BY <1>1, <1>12, <2>5 DEF ProcTypes, Retire
  <2> QED BY <1>1, <1>12, <2>4, <2>6 DEF ProcTypes, Retire, callVars, Loops
<1>13. CASE Release(p)
  BY <1>1, <1>2, <1>3, <1>13, ZeroTyped DEF ProcTypes, Release, callVars, Failure, States, Loops
<1>14. CASE Close(p)
  BY <1>1, <1>2, <1>3, <1>14, ZeroTyped DEF ProcTypes, Close, callVars, States, Loops
<1>15. CASE Crash(p)
  BY <1>1, <1>2, <1>3, <1>15, ZeroTyped DEF ProcTypes, Crash, Failure, States, Loops
<1>16. CASE GenerateChecks(p)
  BY <1>1, <1>2, <1>3, <1>16, ZeroTyped DEF ProcTypes, GenerateChecks, LoseLease, States, Loops
<1>17. CASE NodeGenerates(p)
  <2>0. calls' \in [Procs -> Ages] /\ spin' \in [Procs -> Ages]
    BY <1>17, NodeCalls
  <2>1. CASE node' = node /\ issued' = issued
    BY <1>1, <1>17, <2>0, <2>1 DEF ProcTypes, NodeGenerates
  <2>2. CASE /\ ~node[p].retired /\ ~Full(node[p], Clock(p))
             /\ HandOut(p, Clock(p), IF Clock(p) = node[p].ts THEN node[p].seq + 1 ELSE 0)
    <3> DEFINE seq == IF Clock(p) = node[p].ts THEN node[p].seq + 1 ELSE 0
    <3>1. node[p].seq \in 0..MaxSequence
      BY <1>1 DEF ProcTypes, Nodes
    <3>2. Clock(p) = node[p].ts => node[p].seq # MaxSequence
      BY <2>2 DEF Full
    <3>3. seq \in 0..MaxSequence
      BY <1>3, <3>1, <3>2
    <3>4. HandOut(p, Clock(p), seq)
      BY <2>2
    <3> HIDE DEF seq
    <3>5. node' \in [Procs -> Nodes] /\ issued' \subseteq IDs
      BY <1>1, <1>2, <3>3, <3>4, HandOutTypes DEF ProcTypes
    <3> QED BY <1>1, <1>17, <2>0, <3>5 DEF ProcTypes, NodeGenerates
  <2> QED BY <1>17, <2>1, <2>2 DEF NodeGenerates
<1>18. CASE SpinEnds(p)
  <2>1. CASE node' = node /\ issued' = issued
    BY <1>1, <1>18, <2>1, ZeroTyped DEF ProcTypes, SpinEnds
  <2>2. CASE HandOut(p, Clock(p), 0)
    <3>1. node' \in [Procs -> Nodes] /\ issued' \subseteq IDs
      BY <1>1, <1>2, <1>3, <2>2, HandOutTypes DEF ProcTypes
    <3> QED BY <1>1, <1>18, <3>1, ZeroTyped DEF ProcTypes, SpinEnds
  <2> QED BY <1>18, <2>1, <2>2 DEF SpinEnds
<1>19. CASE ClockSteps(p)
  <2>1. off[p] \in -MaxBehind..MaxSkew /\ off[p] > -MaxBehind /\ off' = [off EXCEPT ![p] = off[p] - 1]
    BY <1>1, <1>19 DEF ProcTypes, ClockSteps
  <2>2. off[p] - 1 \in -MaxBehind..MaxSkew
    BY <2>1, Constants
  <2>3. off' \in [Procs -> -MaxBehind..MaxSkew]
    BY <1>1, <2>1, <2>2 DEF ProcTypes
  <2> QED BY <1>1, <1>3, <1>19, <2>3 DEF ProcTypes, ClockSteps, callVars
<1> QED BY <1>4, <1>5, <1>6, <1>7, <1>8, <1>9, <1>10, <1>11, <1>12, <1>13,
           <1>14, <1>15, <1>16, <1>17, <1>18, <1>19 DEF Step

\* All the variables keep their types.
LEMMA StepTypeOK ==
    ASSUME TypeOK, NotAhead, NEW p \in Procs, Step(p)
    PROVE  TypeOK'
<1>1. now' = now /\ now \in Nat /\ tokens \in 0..MaxTokens
  BY OthersKeep DEF TypeOK
<1>2. rows' \in [Workers -> Row] /\ tokens' \in 0..MaxTokens
  <2>1. CASE Allocates(p)
    BY <2>1, AllocateIs DEF Allocates
  <2>2. CASE Keeps(p)
    BY <1>1, <2>2 DEF Keeps
  <2> QED BY <2>1, <2>2, RowsStep
<1>3. ProcTypes'
  BY StepTypes
<1> QED BY <1>1, <1>2, <1>3 DEF TypeOK, ProcTypes, Row, States, Loops, Gots, Nodes, IDs, Ages

\* An id is handed out: later than the last one of the node.
Hands(p, seq) ==
    /\ HandOut(p, Clock(p), seq) /\ seq \in 0..MaxSequence /\ calls[p] \cup spin[p] # {}
    /\ ~node[p].retired
    /\ Clock(p) > node[p].ts \/ (Clock(p) = node[p].ts /\ seq > node[p].seq)
    /\ UNCHANGED <<now, off, rows, state, loop, got, beat, wait, tokens>>

\* The second half of Generate hands out an id past the node's time, or none.
LEMMA GenerateHands ==
    ASSUME TypeOK, Modes, NEW p \in Procs, NodeGenerates(p) \/ SpinEnds(p)
    PROVE  \/ node' = node /\ issued' = issued
              /\ (spin'[p] = {} => node[p].retired \/ Backwards(p))
              /\ UNCHANGED <<now, off, rows, state, loop, got, beat, wait, tokens>>
           \/ \E seq \in 0..MaxSequence : Hands(p, seq)
<1>1. /\ Clock(p) \in Nat /\ node[p].ts \in Nat /\ node[p].seq \in 0..MaxSequence
      /\ MaxSequence \in Nat /\ spin \in [Procs -> Ages]
  BY ClockIs, Constants DEF TypeOK, Ages
<1>2. CASE NodeGenerates(p)
  <2>1. calls[p] # {} /\ UNCHANGED <<now, off, rows, state, loop, got, beat, wait, tokens>>
    BY <1>2 DEF NodeGenerates
  <2>2. CASE (node[p].retired \/ Backwards(p)) /\ UNCHANGED <<node, issued>>
    BY <2>1, <2>2
  <2>3. CASE (\E k \in calls[p] : spin' = [spin EXCEPT ![p] = {k}]) /\ UNCHANGED <<node, issued>>
    BY <1>1, <2>1, <2>3
  <2>4. CASE /\ ~node[p].retired /\ ~Backwards(p) /\ ~Full(node[p], Clock(p))
             /\ HandOut(p, Clock(p), IF Clock(p) = node[p].ts THEN node[p].seq + 1 ELSE 0)
    <3> DEFINE seq == IF Clock(p) = node[p].ts THEN node[p].seq + 1 ELSE 0
    <3>1. Clock(p) = node[p].ts => node[p].seq # MaxSequence
      BY <2>4 DEF Full
    <3>2. seq \in 0..MaxSequence
      BY <1>1, <3>1
    <3>3. Clock(p) > node[p].ts \/ (Clock(p) = node[p].ts /\ seq > node[p].seq)
      BY <1>1, <2>4 DEF Backwards
    <3>4. HandOut(p, Clock(p), seq)
      BY <2>4
    <3> HIDE DEF seq
    <3>5. Hands(p, seq)
      BY <2>1, <2>4, <3>2, <3>3, <3>4 DEF Hands
    <3> QED BY <3>2, <3>5
  <2> QED BY <1>2, <2>2, <2>3, <2>4 DEF NodeGenerates
<1>3. CASE SpinEnds(p)
  <2>1. /\ spin[p] # {} /\ ~node[p].retired
        /\ UNCHANGED <<now, off, rows, state, loop, got, beat, wait, tokens>>
    BY <1>3 DEF SpinEnds, Modes
  <2>2. CASE Backwards(p) /\ UNCHANGED <<node, issued>>
    BY <2>1, <2>2
  <2>3. CASE Clock(p) > node[p].ts /\ HandOut(p, Clock(p), 0)
    <3>1. Hands(p, 0) /\ 0 \in 0..MaxSequence
      BY <1>1, <2>1, <2>3 DEF Hands
    <3> QED BY <3>1
  <2> QED BY <1>3, <2>2, <2>3 DEF SpinEnds
<1> QED BY <1>2, <1>3

\* What becomes of the node and of what p holds.
Quiet(p) == node'[p] = node[p] /\ issued' = issued
Drops(p) == issued' = issued /\ got'[p] = Nothing /\ beat'[p] = 0 /\ node'[p] = NoNode
            /\ loop'[p] = "none" /\ spin'[p] = {}

\* An id handed out retires no node.
LEMMA HandsRetired ==
    ASSUME TypeOK, NEW p \in Procs, NEW seq \in 0..MaxSequence, Hands(p, seq)
    PROVE  node'[p].retired = node[p].retired
BY ClockIs, HandOutIs, Types DEF Hands

\* What becomes of the lease of p in a step.
LEMMA NodeStep ==
    ASSUME TypeOK, Modes, NEW p \in Procs, Step(p)
    PROVE  Quiet(p) \/ Retire(p) \/ Drops(p) \/ Activate(p) \/ \E seq \in 0..MaxSequence : Hands(p, seq)
<1>1. Functions
  BY FunctionsOK
<1>2. CASE \/ New(p) \/ AllocateWorker(p) \/ AllocateFails(p) \/ ClockFails(p) \/ Beat(p)
           \/ BeatEnds(p) \/ BeatFails(p) \/ Close(p) \/ GenerateChecks(p) \/ ClockSteps(p)
  BY <1>2 DEF Quiet, New, AllocateWorker, AllocateFails, ClockFails, Beat, BeatEnds, BeatFails,
              Close, GenerateChecks, ClockSteps, callVars
<1>3. CASE Release(p)
  <2>1. CASE loop[p] = "release"
    BY <1>3, <2>1 DEF Release, Quiet, callVars
  <2>2. CASE loop[p] = "closing"
    <3>1. node[p].retired /\ spin[p] = {}
      BY <2>2 DEF Modes
    <3>2. /\ issued' = issued /\ got'[p] = Nothing /\ beat'[p] = 0 /\ node'[p] = NoNode
          /\ loop'[p] = "none" /\ spin' = spin
      BY <1>1, <1>3, <2>2 DEF Functions, Release, callVars
    <3> QED BY <3>1, <3>2 DEF Drops
  <2> QED BY <1>3, <2>1, <2>2 DEF Release
<1>4. CASE Crash(p)
  BY <1>1, <1>4 DEF Functions, Crash, Drops
<1>5. CASE NodeGenerates(p) \/ SpinEnds(p)
  BY <1>5, GenerateHands DEF Quiet
<1> QED BY <1>2, <1>3, <1>4, <1>5 DEF Step

\* What becomes of what p holds between two steps of the loop.
SameGot(p) == /\ got'[p].token = got[p].token /\ got'[p].time = got[p].time
              /\ got'[p].worker = got[p].worker
Puts(p) == /\ loop'[p] \notin {"clock", "release", "closing"}
           /\ got'[p] = Nothing \/ SameGot(p)

\* What becomes of what the loop of p holds in a step.
LEMMA GotStep ==
    ASSUME TypeOK, NEW p \in Procs, Step(p)
    PROVE  \/ AllocateWorker(p) \/ Retire(p) \/ Puts(p)
           \/ loop'[p] = loop[p] /\ got'[p] = got[p]
<1>1. Functions /\ got[p] \in Gots /\ got \in [Procs -> Gots]
  BY FunctionsOK, Types
<1>2. CASE New(p) \/ AllocateFails(p)
  BY <1>1, <1>2 DEF Functions, New, AllocateFails, Abort, Puts, SameGot
<1>3. CASE Beat(p)
  <2>1. got'[p] = [got[p] EXCEPT !.ok = (rows[node[p].worker].token = node[p].token)]
    BY <1>1, <1>3 DEF Beat
  <2>2. SameGot(p)
    BY <1>1, <2>1 DEF SameGot, Gots
  <2>3. loop'[p] = "beaten"
    BY <1>1, <1>3 DEF Functions, Beat
  <2> QED BY <2>2, <2>3 DEF Puts
<1>4. CASE Activate(p) \/ BeatEnds(p) \/ BeatFails(p)
  BY <1>1, <1>4 DEF Functions, Activate, BeatEnds, BeatFails, Puts
<1>5. CASE ClockFails(p)
  BY <1>1, <1>5 DEF Functions, ClockFails, Abort, Puts
<1>6. CASE Release(p)
  BY <1>1, <1>6 DEF Functions, Release, Puts
<1>7. CASE Crash(p)
  BY <1>1, <1>7 DEF Functions, Crash, Puts
<1>8. CASE \/ Close(p) \/ GenerateChecks(p) \/ NodeGenerates(p) \/ SpinEnds(p) \/ ClockSteps(p)
  BY <1>8 DEF Close, GenerateChecks, NodeGenerates, SpinEnds, ClockSteps
<1> QED BY <1>2, <1>3, <1>4, <1>5, <1>6, <1>7, <1>8 DEF Step

\* What an allocation and a retirement put there.
LEMMA AllocateWorkerIs ==
    ASSUME TypeOK, NotAhead, NEW p \in Procs, AllocateWorker(p)
    PROVE  \E w \in Candidates :
             /\ Allocate(w) /\ loop'[p] = "clock" /\ wait'[p] = wait[p]
             /\ got'[p].worker = w /\ got'[p].token = tokens + 1 /\ got'[p].time = Barrier
             /\ UNCHANGED <<now, off, state, node, beat, calls, spin, issued>>
BY FunctionsOK DEF Functions, AllocateWorker, callVars

\* retire takes the lease and its last time with it.
LEMMA RetireIs ==
    ASSUME TypeOK, NEW p \in Procs, Retire(p)
    PROVE  /\ node'[p].retired /\ node'[p].ts = node[p].ts /\ node'[p].seq = node[p].seq
           /\ node'[p].token = node[p].token /\ node'[p].worker = node[p].worker
           /\ got'[p].token = node[p].token /\ got'[p].time = node[p].ts
           /\ got'[p].worker = node[p].worker
           /\ loop[p] = "select" /\ loop'[p] \in {"release", "closing"}
           /\ UNCHANGED <<now, off, rows, state, beat, calls, spin, issued, tokens>>
           /\ spin[p] = {} /\ state[p] # "active"
<1>1. Functions /\ node[p] \in Nodes /\ node \in [Procs -> Nodes]
  BY FunctionsOK, Types
<1>2. node'[p] = [node[p] EXCEPT !.retired = TRUE]
  BY <1>1 DEF Retire, Retired
<1>3. /\ got'[p].token = node[p].token /\ got'[p].time = node[p].ts
      /\ got'[p].worker = node[p].worker /\ loop'[p] \in {"release", "closing"}
  BY <1>1 DEF Functions, Retire
<1>4. /\ node'[p].retired /\ node'[p].ts = node[p].ts /\ node'[p].seq = node[p].seq
      /\ node'[p].token = node[p].token /\ node'[p].worker = node[p].worker
  BY <1>1, <1>2 DEF Nodes
<1> QED BY <1>3, <1>4 DEF Retire, callVars

\* A new lease is the allocation, from the clock that passed its barrier.
LEMMA ActivateIs ==
    ASSUME TypeOK, NEW p \in Procs, Activate(p)
    PROVE  /\ node'[p].worker = got[p].worker /\ node'[p].token = got[p].token
           /\ node'[p].ts = 0 /\ node'[p].start = Clock(p) /\ node'[p].retired = FALSE
           /\ beat'[p] = now /\ got'[p] = Nothing /\ loop[p] = "clock" /\ loop'[p] = "select"
           /\ Clock(p) > got[p].time
           /\ UNCHANGED <<now, off, rows, calls, spin, issued, tokens>>
<1> DEFINE n == [worker |-> got[p].worker, token |-> got[p].token, ts |-> 0, seq |-> 0,
                 retired |-> FALSE, start |-> Clock(p)]
<1>1. Functions
  BY FunctionsOK
<1>2. node'[p] = n
  BY <1>1 DEF Functions, Activate
<1>3. /\ n.worker = got[p].worker /\ n.token = got[p].token /\ n.ts = 0
      /\ n.start = Clock(p) /\ n.retired = FALSE
  OBVIOUS
<1> HIDE DEF n
<1>4. /\ beat'[p] = now /\ got'[p] = Nothing /\ loop[p] = "clock" /\ loop'[p] = "select"
      /\ Clock(p) > got[p].time
      /\ UNCHANGED <<now, off, rows, calls, spin, issued, tokens>>
  BY <1>1 DEF Functions, Activate, Passed, callVars
<1> QED BY <1>2, <1>3, <1>4

\* No step puts a time ahead of every clock.
LEMMA StepNotAhead ==
    ASSUME TypeOK, NotAhead, Modes, NEW p \in Procs, Step(p)
    PROVE  NotAhead'
<1>1. now' = now /\ now \in Nat /\ Others(p) /\ MaxSkew \in Nat
  BY OthersKeep, Constants DEF TypeOK
<1>2. \A w \in Workers : rows'[w].last <= now + MaxSkew
  <2>1. CASE Allocates(p)
    <3>1. PICK w \in Candidates : Allocate(w)
      BY <2>1 DEF Allocates
    <3>2. /\ rows'[w].last = Barrier /\ Barrier <= now + MaxSkew
          /\ \A v \in Workers : v # w => rows'[v] = rows[v]
      BY <3>1, AllocateIs, BarrierIs
    <3> QED BY <3>2 DEF NotAhead
  <2>2. CASE Keeps(p)
    BY <2>2 DEF Keeps, RowsKeep
  <2> QED BY <2>1, <2>2, RowsStep
<1>3. node'[p].ts <= now + MaxSkew
  <2>1. node[p].ts <= now + MaxSkew /\ 0 <= now + MaxSkew
    BY <1>1 DEF NotAhead
  <2>2. CASE \E seq \in 0..MaxSequence : Hands(p, seq)
    <3>1. PICK seq \in 0..MaxSequence : Hands(p, seq)
      BY <2>2
    <3>2. node'[p].ts = Clock(p)
      BY <3>1, ClockIs, HandOutIs, Types DEF Hands
    <3> QED BY <3>2, ClockIs
  <2>3. CASE Quiet(p) \/ Retire(p) \/ Drops(p) \/ Activate(p)
    <3>1. NoNode.ts = 0
      BY DEF NoNode
    <3>2. CASE Quiet(p) \/ Drops(p)
      BY <2>1, <3>1, <3>2 DEF Quiet, Drops
    <3>3. CASE Retire(p)
      BY <2>1, <3>3, RetireIs
    <3>4. CASE Activate(p)
      BY <2>1, <3>4, ActivateIs
    <3> QED BY <2>3, <3>2, <3>3, <3>4
  <2> QED BY <2>2, <2>3, NodeStep
<1>4. got'[p].time <= now + MaxSkew
  <2>1. node[p].ts <= now + MaxSkew /\ got[p].time <= now + MaxSkew /\ 0 <= now + MaxSkew
    BY <1>1 DEF NotAhead
  <2>2. CASE AllocateWorker(p)
    BY <2>2, AllocateWorkerIs, BarrierIs
  <2>3. CASE Retire(p) \/ Puts(p) \/ (loop'[p] = loop[p] /\ got'[p] = got[p])
    BY <2>1, <2>3, RetireIs DEF Puts, SameGot, Nothing
  <2> QED BY <2>2, <2>3, GotStep
<1> QED BY <1>1, <1>2, <1>3, <1>4 DEF NotAhead, Others

\* The leases that are live: only a generator that selects or waits for a
\* heartbeat's answer has one.
LEMMA StepModes ==
    ASSUME TypeOK, Modes, NEW p \in Procs, Step(p)
    PROVE  Modes'
<1>1. Others(p) /\ Functions
  BY OthersKeep, FunctionsOK
<1> DEFINE ModesOf(l, s, g, retired) ==
             /\ l \notin {"select", "beaten"} => retired
             /\ l = "beaten" \/ s = "active" \/ g # {} => ~retired
<1>2. ModesOf(loop[p], state[p], spin[p], node[p].retired)
  BY DEF Modes
<1>3. ModesOf(loop'[p], state'[p], spin'[p], node'[p].retired)
  <2>1. CASE New(p) \/ AllocateWorker(p) \/ Close(p)
    BY <1>1, <1>2, <2>1 DEF Functions, New, AllocateWorker, Close, callVars
  <2>2. CASE AllocateFails(p) \/ ClockFails(p)
    BY <1>1, <1>2, <2>2 DEF Functions, AllocateFails, ClockFails, Abort, callVars
  <2>3. CASE Activate(p)
    <3>1. ~node'[p].retired /\ loop'[p] = "select"
      BY <2>3, ActivateIs
    <3> QED BY <3>1
  <2>4. CASE Beat(p) \/ BeatEnds(p) \/ BeatFails(p)
    BY <1>1, <1>2, <2>4 DEF Functions, Beat, BeatEnds, BeatFails, LoseLease, callVars
  <2>5. CASE Retire(p)
    BY <1>2, <2>5, RetireIs
  <2>6. CASE Release(p)
    BY <1>1, <1>2, <2>6 DEF Functions, Release, NoNode, callVars
  <2>7. CASE Crash(p)
    BY <1>1, <1>2, <2>7 DEF Functions, Crash, NoNode
  <2>8. CASE GenerateChecks(p) \/ ClockSteps(p)
    BY <1>1, <1>2, <2>8 DEF Functions, GenerateChecks, ClockSteps, LoseLease, callVars
  <2>9. CASE NodeGenerates(p) \/ SpinEnds(p)
    <3>1. loop'[p] = loop[p] /\ state'[p] = state[p]
      BY <2>9 DEF NodeGenerates, SpinEnds
    <3>2. node'[p].retired = node[p].retired
      BY <2>9, GenerateHands, HandsRetired
    <3>3. spin'[p] # {} => ~node[p].retired
      BY <1>1, <1>2, <2>9 DEF Functions, NodeGenerates, SpinEnds
    <3> QED BY <1>2, <3>1, <3>2, <3>3
  <2> QED BY <2>1, <2>2, <2>3, <2>4, <2>5, <2>6, <2>7, <2>8, <2>9 DEF Step
<1> QED BY <1>1, <1>2, <1>3 DEF Modes, Others

\* What the times of Generate amount to.
LEMMA TimesAre ==
    ASSUME TypeOK, NEW p \in Procs
    PROVE  /\ now \in Nat /\ beat[p] \in Nat /\ beat[p] <= now /\ node[p].ts \in Nat
           /\ off[p] \in Int /\ -MaxBehind <= off[p] /\ off[p] <= MaxSkew /\ Clock(p) = now + off[p]
           /\ \A k \in calls[p] \cup spin[p] : k \in Nat /\ k <= MaxPause
<1>1. /\ now \in Nat /\ beat[p] \in 0..now /\ node[p].ts \in Nat /\ off[p] \in -MaxBehind..MaxSkew
      /\ calls[p] \in SUBSET (0..MaxPause) /\ spin[p] \in SUBSET (0..MaxPause)
  BY DEF TypeOK
<1> QED BY <1>1, Constants DEF Clock

\* While Generate may still hand out an id its lease's hold covers the clock.
LEMMA HoldCovers ==
    ASSUME TypeOK, Timely, NEW p \in Procs, ~node[p].retired, calls[p] \cup spin[p] # {}
    PROVE  Clock(p) <= beat[p] + Hold(off[p])
<1>1. PICK k \in calls[p] \cup spin[p] : now <= beat[p] + SafetyThreshold + k
  BY DEF Timely, Live
<1> QED BY <1>1, TimesAre, Constants DEF Hold

TimelyOf(n, ages, b) == \A k \in ages : ~n.retired => now <= b + SafetyThreshold + k

\* Generate stays near its heartbeat, through checks, pauses and waits.
LEMMA StepTimely ==
    ASSUME TypeOK, Timely, Modes, NEW p \in Procs, Step(p)
    PROVE  Timely'
<1>1. now' = now /\ Others(p) /\ Functions
  BY OthersKeep, FunctionsOK
<1>2. \A q \in Procs : TimelyOf(node[q], calls[q] \cup spin[q], beat[q])
  BY DEF Timely, TimelyOf, Live
<1>3. TimelyOf(node'[p], calls'[p] \cup spin'[p], beat'[p])
  <2>1. CASE New(p) \/ AllocateWorker(p) \/ AllocateFails(p) \/ ClockFails(p) \/ Beat(p)
             \/ BeatFails(p) \/ Close(p) \/ ClockSteps(p)
    <3>1. node' = node /\ calls' = calls /\ spin' = spin /\ beat' = beat
      BY <2>1 DEF New, AllocateWorker, AllocateFails, ClockFails, Beat, BeatFails, Close,
                  ClockSteps, callVars
    <3> QED BY <1>2, <3>1
  <2>2. CASE Retire(p)
    BY <2>2, RetireIs DEF TimelyOf
  <2>3. CASE Activate(p)
    <3>1. \A k \in calls[p] \cup spin[p] : now <= now + SafetyThreshold + k
      BY TimesAre, Constants
    <3> QED BY <2>3, <3>1, ActivateIs DEF TimelyOf
  <2>4. CASE BeatEnds(p)
    <3>1. node' = node /\ calls' = calls /\ spin' = spin /\ beat'[p] \in {beat[p], now}
      BY <1>1, <2>4 DEF Functions, BeatEnds, callVars
    <3>2. \A k \in calls[p] \cup spin[p] : now <= now + SafetyThreshold + k
      BY TimesAre, Constants
    <3> QED BY <1>2, <3>1, <3>2 DEF TimelyOf
  <2>5. CASE Release(p)
    <3>1. node[p].retired
      BY <2>5 DEF Release, Modes
    <3>2. node'[p].retired
      BY <1>1, <2>5, <3>1 DEF Functions, Release, NoNode
    <3> QED BY <3>2 DEF TimelyOf
  <2>6. CASE Crash(p)
    <3>1. calls'[p] = {} /\ spin'[p] = {}
      BY <1>1, <2>6 DEF Functions, Crash
    <3> QED BY <3>1 DEF TimelyOf
  <2>7. CASE GenerateChecks(p)
    <3>1. /\ calls'[p] \subseteq calls[p] \cup {0} /\ (calls'[p] = calls[p] \/ ~HeartbeatExpired(p))
          /\ node' = node /\ beat' = beat /\ spin' = spin
      BY <1>1, <2>7 DEF Functions, GenerateChecks
    <3>2. ~HeartbeatExpired(p) => now <= beat[p] + SafetyThreshold + 0
      BY TimesAre, Constants DEF HeartbeatExpired
    <3> QED BY <1>2, <3>1, <3>2 DEF TimelyOf
  <2>8. CASE NodeGenerates(p) \/ SpinEnds(p)
    <3>1. calls'[p] \cup spin'[p] \subseteq calls[p] \cup spin[p] /\ beat' = beat
      BY <1>1, <2>8, NodeCalls DEF Functions, NodeGenerates, SpinEnds
    <3>2. node'[p].retired = node[p].retired
      BY <2>8, GenerateHands, HandsRetired
    <3> QED BY <1>2, <3>1, <3>2 DEF TimelyOf
  <2> QED BY <2>1, <2>2, <2>3, <2>4, <2>5, <2>6, <2>7, <2>8 DEF Step
<1>4. \A q \in Procs : TimelyOf(node'[q], calls'[q] \cup spin'[q], beat'[q])
  BY <1>1, <1>2, <1>3 DEF Others
<1> QED BY <1>1, <1>4 DEF Timely, TimelyOf, Live

\* A process' tokens: those it had, 0, or the next one.
LEMMA TokensStep ==
    ASSUME TypeOK, NotAhead, Modes, NEW p \in Procs, Step(p)
    PROVE  \/ /\ {node'[p].token, got'[p].token} \subseteq TokensOf(p) \cup {0}
              /\ tokens' \in {tokens, tokens + 1}
           \/ /\ node'[p].token = node[p].token /\ got'[p].token = tokens + 1
              /\ tokens' = tokens + 1
<1>1. NoNode.token = 0 /\ Nothing.token = 0
  BY DEF NoNode, Nothing
<1>2. tokens' \in {tokens, tokens + 1}
  BY RowsStep DEF Allocates, Allocate, Keeps
<1>3. CASE AllocateWorker(p)
  BY <1>3, AllocateWorkerIs, AllocateIs
<1>4. ASSUME ~AllocateWorker(p)
      PROVE  got'[p].token \in TokensOf(p) \cup {0}
  BY <1>1, <1>4, GotStep, RetireIs DEF TokensOf, Puts, SameGot
<1>5. node'[p].token \in TokensOf(p) \cup {0}
  <2>1. CASE \E seq \in 0..MaxSequence : Hands(p, seq)
    BY <2>1, ClockIs, HandOutIs, Types DEF Hands, TokensOf
  <2>2. CASE Quiet(p) \/ Retire(p) \/ Drops(p) \/ Activate(p)
    BY <1>1, <2>2, RetireIs, ActivateIs DEF TokensOf, Quiet, Drops
  <2> QED BY <2>1, <2>2, NodeStep
<1> QED BY <1>2, <1>3, <1>4, <1>5

\* Only an allocation brings a token, which is new.
LEMMA StepTokens ==
    ASSUME TypeOK, NotAhead, Modes, Known, Disjoint, NEW p \in Procs, Step(p)
    PROVE  Known' /\ Disjoint'
<1>1. Others(p) /\ tokens \in Nat
  BY OthersKeep DEF TypeOK
<1>2. \A q \in Procs : node[q].token \in Nat /\ got[q].token \in Nat
  BY DEF TypeOK
<1>3. \A q \in Procs : node[q].token <= tokens /\ got[q].token <= tokens
  BY DEF Known, TokensOf
<1>4. \A q \in Procs : q # p => node'[q] = node[q] /\ got'[q] = got[q]
  BY <1>1 DEF Others
<1>5. tokens' \in Nat /\ tokens <= tokens'
  BY <1>1, TokensStep
<1>6. \A a \in {node'[p].token, got'[p].token} :
        a \in TokensOf(p) \/ a = 0 \/ (a = tokens + 1 /\ tokens' = tokens + 1)
  BY TokensStep DEF TokensOf
<1>7. ASSUME NEW q \in Procs, q # p, NEW a \in {node'[p].token, got'[p].token},
             NEW b \in {node'[q].token, got'[q].token}, a = b
      PROVE  a = 0
  <2>1. b \in TokensOf(q) /\ b \in Nat /\ b <= tokens
    BY <1>2, <1>3, <1>4, <1>7 DEF TokensOf
  <2>2. CASE a \in TokensOf(p)
    BY <1>7, <2>1, <2>2 DEF Disjoint
  <2>3. a # tokens + 1
    BY <1>1, <1>7, <2>1
  <2> QED BY <1>6, <1>7, <2>2, <2>3
<1>8. Known'
  <2>1. \A a \in {node'[p].token, got'[p].token} : a <= tokens'
    BY <1>1, <1>2, <1>3, <1>5, <1>6 DEF TokensOf
  <2>2. \A q \in Procs : q # p => \A a \in {node'[q].token, got'[q].token} : a <= tokens'
    BY <1>1, <1>2, <1>3, <1>4, <1>5
  <2> QED BY <2>1, <2>2 DEF Known, TokensOf
<1>9. Disjoint'
  <2> SUFFICES ASSUME NEW q \in Procs, NEW r \in Procs, q # r,
                      NEW a \in {node'[q].token, got'[q].token},
                      NEW b \in {node'[r].token, got'[r].token}, a = b
               PROVE  a = 0
    BY DEF Disjoint, TokensOf
  <2>1. CASE q = p
    BY <1>7, <2>1
  <2>2. CASE r = p
    BY <1>7, <2>2
  <2>3. CASE q # p /\ r # p
    BY <1>4, <2>3 DEF Disjoint, TokensOf
  <2> QED BY <2>1, <2>2, <2>3
<1> QED BY <1>8, <1>9

-------------------------------------------------------------------------------
(* Claims and floors *)

\* The parts of claims and floors are typed.
LEMMA StampTypes ==
    ASSUME TypeOK
    PROVE  /\ \A c \in Claims : c.worker \in Workers /\ c.token \in Nat /\ c.time \in Int
           /\ \A f \in Floors : f.worker \in Workers /\ f.token \in Nat /\ f.time \in Int
<1>1. \A q \in Procs : Hold(off[q]) \in Int
  BY TimesAre, Constants DEF Hold
<1>2. \A x \in issued : x.worker \in Workers /\ x.token \in Nat /\ x.ts \in Nat
  BY DEF TypeOK
<1>3. \A q \in Procs : /\ node[q].worker \in Workers /\ node[q].token \in Nat /\ node[q].start \in Nat
                       /\ got[q].worker \in Workers /\ got[q].token \in Nat /\ got[q].time \in Nat
                       /\ beat[q] \in Nat
  BY DEF TypeOK
<1>4. \A w \in Workers : rows[w].token \in Nat /\ rows[w].last \in Nat
  BY DEF TypeOK
<1>5. ASSUME NEW c \in Claims
      PROVE  c.worker \in Workers /\ c.token \in Nat /\ c.time \in Int
  BY <1>1, <1>2, <1>3 DEF Claims, IdClaim, LeaseClaim
<1>6. ASSUME NEW f \in Floors
      PROVE  f.worker \in Workers /\ f.token \in Nat /\ f.time \in Int
  <2>1. CASE \E w \in Workers : f = RowFloor(w, rows[w])
    BY <1>4, <2>1 DEF RowFloor
  <2>2. CASE \E q \in Procs : f = GotFloor(got[q])
    BY <1>3, <2>2 DEF GotFloor
  <2>3. CASE \E q \in Procs : f = LeaseFloor(node[q])
    BY <1>3, <2>3 DEF LeaseFloor
  <2>4. CASE \E x \in issued : f = IdFloor(x)
    BY <1>2, <2>4 DEF IdFloor
  <2> QED BY <2>1, <2>2, <2>3, <2>4 DEF Floors
<1> QED BY <1>5, <1>6

Stamped == /\ \A c \in Claims : c.worker \in Workers /\ c.token \in Nat /\ c.time \in Int
           /\ \A f \in Floors : f.worker \in Workers /\ f.token \in Nat /\ f.time \in Int

\* The same as one formula ...
LEMMA StampedNow == TypeOK => Stamped
BY StampTypes DEF Stamped

\* ... for the next state.
LEMMA StampedNext == TypeOK' => Stamped'
BY StampedNow, PTL

\* The claims and floors there are.
LEMMA IdClaimIn == ASSUME NEW x \in issued PROVE IdClaim(x) \in Claims
BY DEF Claims

\* A live lease has a claim and a floor,
LEMMA LeaseClaimIn ==
    ASSUME NEW p \in Procs, ~node[p].retired
    PROVE  LeaseClaim(node[p], beat[p], off[p]) \in Claims /\ LeaseFloor(node[p]) \in Floors
BY DEF Claims, Floors, Live

\* a row a floor,
LEMMA RowFloorIn == ASSUME NEW w \in Workers PROVE RowFloor(w, rows[w]) \in Floors
BY DEF Floors

\* an allocation that waits a floor,
LEMMA GotFloorIn ==
    ASSUME NEW p \in Procs, loop[p] = "clock"
    PROVE  GotFloor(got[p]) \in Floors
BY DEF Floors

\* and so has an id that is no replay.
LEMMA IdFloorIn == ASSUME NEW x \in issued, ~x.replay PROVE IdFloor(x) \in Floors
BY DEF Floors

\* A live lease has a token, at most that of the row.
LEMMA LiveToken ==
    ASSUME Newest, NEW p \in Procs, ~node[p].retired
    PROVE  node[p].token # 0 /\ node[p].token <= rows[node[p].worker].token
<1>1. LeaseClaim(node[p], beat[p], off[p]) \in Claims
  BY LeaseClaimIn
<1>2. /\ LeaseClaim(node[p], beat[p], off[p]).token = node[p].token
      /\ LeaseClaim(node[p], beat[p], off[p]).worker = node[p].worker
  BY DEF LeaseClaim
<1> QED BY <1>1, <1>2 DEF Newest

\* A step of p changes no claim and no floor but those of p's lease, of the
\* rows, and of an id handed out.
LEMMA ClaimsStep ==
    ASSUME TypeOK, NEW p \in Procs, Step(p), NEW c \in Claims'
    PROVE  \/ c \in Claims
           \/ \E x \in issued' \ issued : c = IdClaim(x)
           \/ ~node'[p].retired /\ c = LeaseClaim(node'[p], beat'[p], off'[p])
<1>1. \A q \in Procs : q # p => node'[q] = node[q] /\ beat'[q] = beat[q] /\ off'[q] = off[q]
  BY OthersKeep DEF Others
<1>2. CASE \E x \in issued' : c = IdClaim(x)
  BY <1>2, IdClaimIn
<1>3. CASE \E q \in Procs : ~node'[q].retired /\ c = LeaseClaim(node'[q], beat'[q], off'[q])
  BY <1>1, <1>3, LeaseClaimIn
<1> QED BY <1>2, <1>3 DEF Claims, Live

\* The floors after a step of p: old ones, those of the rows, of p, of a new id.
LEMMA FloorsStep ==
    ASSUME TypeOK, NEW p \in Procs, Step(p), NEW f \in Floors'
    PROVE  \/ f \in Floors
           \/ \E w \in Workers : f = RowFloor(w, rows'[w])
           \/ loop'[p] = "clock" /\ f = GotFloor(got'[p])
           \/ ~node'[p].retired /\ f = LeaseFloor(node'[p])
           \/ \E x \in issued' \ issued : ~x.replay /\ f = IdFloor(x)
<1>1. \A q \in Procs : q # p => node'[q] = node[q] /\ loop'[q] = loop[q] /\ got'[q] = got[q]
  BY OthersKeep DEF Others
<1>2. CASE \E w \in Workers : f = RowFloor(w, rows'[w])
  BY <1>2
<1>3. CASE \E q \in Procs : loop'[q] = "clock" /\ f = GotFloor(got'[q])
  BY <1>1, <1>3, GotFloorIn
<1>4. CASE \E q \in Procs : ~node'[q].retired /\ f = LeaseFloor(node'[q])
  BY <1>1, <1>4, LeaseClaimIn
<1>5. CASE \E x \in issued' : ~x.replay /\ f = IdFloor(x)
  BY <1>5, IdFloorIn
<1> QED BY <1>2, <1>3, <1>4, <1>5 DEF Floors, Live

\* One stamp stands for another of the same lease.
SameLease(c, d) == c.worker = d.worker /\ c.token = d.token

\* What the constants have to do with it.
LEMMA Margin ==
    ASSUME WideMargin
    PROVE  /\ MaxAnswer \in Nat /\ SafetyThreshold \in Nat /\ MaxPause \in Nat
           /\ MaxSkew \in Nat /\ WorkerTimeout \in Nat
           /\ SafetyThreshold + MaxPause + MaxAnswer + MaxSkew <= WorkerTimeout
           /\ MaxBehind \in Nat /\ MaxAnswer + MaxSkew + MaxBehind + 1 <= WorkerTimeout
BY Constants DEF WideMargin

\* A new claim of a lease that the row confirms.
Confirmed(c, r) == /\ c.worker \in Workers /\ c.token # 0 /\ r.token = c.token
                   /\ c.time <= r.updated + WorkerTimeout + 1

\* A wall clock is only set back against the database's.
LEMMA OffStep ==
    ASSUME TypeOK, NEW p \in Procs, Step(p)
    PROVE  off'[p] \in Int /\ off'[p] <= off[p] /\ -MaxBehind <= off'[p]
<1>1. Functions /\ off[p] \in Int /\ -MaxBehind <= off[p] /\ MaxBehind \in Nat
  BY FunctionsOK, TimesAre, Constants
<1>2. off' = off \/ (off[p] > -MaxBehind /\ off' = [off EXCEPT ![p] = off[p] - 1])
  BY DEF Step, New, AllocateWorker, AllocateFails, Activate, ClockFails, Beat, BeatEnds, BeatFails,
         Retire, Release, Close, Crash, GenerateChecks, NodeGenerates, SpinEnds, ClockSteps
<1> QED BY <1>1, <1>2 DEF Functions

\* lastHeartbeat changes with a lease or with a confirmed heartbeat.
LEMMA BeatStep ==
    ASSUME TypeOK, NEW p \in Procs, Step(p)
    PROVE  \/ beat'[p] = beat[p] \/ Activate(p) \/ Crash(p) \/ Release(p)
           \/ BeatEnds(p) /\ got[p].ok /\ beat'[p] = now
BY FunctionsOK DEF Functions, Step, New, AllocateWorker, AllocateFails, ClockFails, Beat, BeatEnds,
                   BeatFails, Retire, Close, GenerateChecks, NodeGenerates, SpinEnds, ClockSteps, callVars

\* An id handed out: the node takes its time, the rest of the lease stays.
LEMMA HandsIs ==
    ASSUME TypeOK, NEW p \in Procs, NEW seq \in 0..MaxSequence, Hands(p, seq)
    PROVE  /\ issued' = issued \cup {Id(p, Clock(p), seq)}
           /\ node'[p].ts = Clock(p) /\ node'[p].seq = seq /\ node'[p].worker = node[p].worker
           /\ node'[p].token = node[p].token /\ node'[p].start = node[p].start
           /\ ~node'[p].retired /\ ~node[p].retired /\ beat' = beat /\ loop' = loop /\ got' = got
           /\ \A x \in issued' \ issued :
                /\ x.ts = Clock(p) /\ x.seq = seq /\ x.worker = node[p].worker
                /\ x.token = node[p].token /\ (~x.replay => x.ts >= node[p].start)
<1>1. node \in [Procs -> Nodes] /\ Clock(p) \in Nat /\ HandOut(p, Clock(p), seq)
  BY Types, ClockIs DEF Hands
<1>2. /\ issued' = issued \cup {Id(p, Clock(p), seq)}
      /\ node'[p].ts = Clock(p) /\ node'[p].seq = seq /\ node'[p].worker = node[p].worker
      /\ node'[p].token = node[p].token /\ node'[p].retired = node[p].retired
      /\ node'[p].start = node[p].start
  BY <1>1, HandOutIs
<1>3. node[p].start \in Nat
  BY <1>1 DEF Nodes
<1>4. ASSUME NEW x, x = Id(p, Clock(p), seq)
      PROVE  /\ x.ts = Clock(p) /\ x.seq = seq /\ x.worker = node[p].worker
             /\ x.token = node[p].token /\ (~x.replay => x.ts >= node[p].start)
  <2>1. /\ x.ts = Clock(p) /\ x.seq = seq /\ x.worker = node[p].worker
        /\ x.token = node[p].token
    BY <1>4 DEF Id
  <2>2. x.replay = (Clock(p) < node[p].start)
    BY <1>4 DEF Id
  <2>3. ~x.replay => ~(Clock(p) < node[p].start)
    BY <2>2, Zenon
  <2> QED BY <1>1, <1>3, <2>1, <2>3
<1>5. \A x \in issued' \ issued : x = Id(p, Clock(p), seq)
  BY <1>2
<1> QED BY <1>2, <1>4, <1>5 DEF Hands

\* After a step of p every claim is one from before, or no later than one, or
\* one that the row confirms.
LEMMA ClaimsFrom ==
    ASSUME TypeOK, TypeOK', WideMargin, Modes, Timely, Newest, Rows, NEW p \in Procs, Step(p),
           NEW c \in Claims'
    PROVE  \/ \E d \in Claims : SameLease(d, c) /\ c.time <= d.time
           \/ Confirmed(c, rows'[c.worker])
<1> DEFINE old == \E d \in Claims : SameLease(d, c) /\ c.time <= d.time
<1>1. /\ now \in Nat /\ off[p] \in Int /\ off[p] <= MaxSkew /\ beat[p] \in Nat
      /\ Hold(off[p]) = SafetyThreshold + MaxPause + off[p] /\ Hold(off[p]) \in Int
  BY TimesAre, Constants DEF Hold
<1>2. ASSUME c \in Claims PROVE old
  BY <1>2, StampTypes DEF SameLease
<1>3. ASSUME ~node[p].retired, SameLease(LeaseClaim(node[p], beat[p], off[p]), c),
             c.time <= beat[p] + Hold(off[p])
      PROVE  old
  BY <1>3, LeaseClaimIn DEF LeaseClaim
<1> HIDE DEF old
<1>4. CASE \E seq \in 0..MaxSequence : Hands(p, seq)
  <2>1. PICK seq \in 0..MaxSequence : Hands(p, seq)
    BY <1>4
  <2>2. CASE \E x \in issued' \ issued : c = IdClaim(x)
    <3>1. c.worker = node[p].worker /\ c.token = node[p].token /\ c.time = Clock(p)
      BY <2>1, <2>2, HandsIs DEF IdClaim
    <3>2. Clock(p) <= beat[p] + Hold(off[p])
      BY <2>1, HoldCovers DEF Hands
    <3>3. old
      BY <1>3, <2>1, <3>1, <3>2, HandsIs DEF SameLease, LeaseClaim
    <3> QED BY <3>3 DEF old
  <2>3. CASE c = LeaseClaim(node'[p], beat'[p], off'[p])
    <3>1. off' = off /\ beat' = beat /\ ~node[p].retired
      BY <2>1 DEF Hands
    <3>2. node'[p].worker = node[p].worker /\ node'[p].token = node[p].token
      BY <2>1, HandsIs
    <3>3. c = LeaseClaim(node[p], beat[p], off[p])
      BY <2>3, <3>1, <3>2 DEF LeaseClaim
    <3> QED BY <1>2, <3>1, <3>3, LeaseClaimIn DEF old
  <2> QED BY <1>2, <2>2, <2>3, ClaimsStep DEF old
<1>5. CASE Activate(p)
  <2>1. issued' = issued
    BY <1>5, ActivateIs
  <2>2. CASE c = LeaseClaim(node'[p], beat'[p], off'[p])
    <3> DEFINE r == rows[got[p].worker]
    <3>1. c.worker = got[p].worker /\ c.token = got[p].token /\ rows' = rows
          /\ c.time = now + Hold(off[p])
      BY <1>5, <2>2, ActivateIs DEF LeaseClaim
    <3>2. /\ got[p].token # 0 /\ r.token = got[p].token
          /\ now + off[p] <= r.updated + MaxSkew + 1 + wait[p]
      BY <1>5, ActivateIs DEF Rows, Waiting
    <3>3. got[p].worker \in Workers /\ wait[p] \in Nat /\ wait[p] <= MaxAnswer /\ r.updated \in Nat
      BY Constants DEF TypeOK
    <3> HIDE DEF r
    <3>4. now + Hold(off[p]) <= r.updated + WorkerTimeout + 1
      BY <1>1, <3>2, <3>3, Margin
    <3> QED BY <3>1, <3>2, <3>3, <3>4 DEF Confirmed, r
  <2> QED BY <1>2, <2>1, <2>2, ClaimsStep DEF old
<1>6. CASE Retire(p) \/ Drops(p)
  <2>1. issued' = issued /\ node'[p].retired
    BY <1>6, RetireIs DEF Drops, NoNode
  <2> QED BY <1>2, <2>1, ClaimsStep DEF old
<1>7. CASE Quiet(p) /\ ~Activate(p) /\ ~Drops(p)
  <2>1. issued' = issued /\ node'[p] = node[p]
    BY <1>7 DEF Quiet
  <2>2. CASE ~node[p].retired /\ c = LeaseClaim(node[p], beat'[p], off'[p])
    <3>0. off'[p] \in Int /\ off'[p] <= off[p]
      BY OffStep
    <3>1. CASE beat'[p] = beat[p]
      <4>1. /\ SameLease(LeaseClaim(node[p], beat[p], off[p]), c)
            /\ c.time = beat[p] + Hold(off'[p])
        BY <2>2, <3>1 DEF SameLease, LeaseClaim
      <4>2. beat[p] + Hold(off'[p]) <= beat[p] + Hold(off[p])
        BY <1>1, <3>0, Constants DEF Hold
      <4> QED BY <1>3, <2>2, <4>1, <4>2 DEF old
    <3>2. CASE BeatEnds(p) /\ got[p].ok /\ beat'[p] = now
      <4> DEFINE r == rows[node[p].worker]
      <4>1. /\ c.worker = node[p].worker /\ c.token = node[p].token /\ rows' = rows
            /\ c.time = now + Hold(off[p])
        BY <2>2, <3>2 DEF LeaseClaim, BeatEnds
      <4>2. loop[p] = "beaten"
        BY <3>2 DEF BeatEnds
      <4>3. r.token = node[p].token /\ now <= r.updated + wait[p]
        BY <3>2, <4>2 DEF Rows, Renewed
      <4>4. node[p].worker \in Workers /\ wait[p] \in Nat /\ wait[p] <= MaxAnswer /\ r.updated \in Nat
        BY Constants DEF TypeOK
      <4>5. node[p].token # 0
        BY <2>2, LiveToken
      <4> HIDE DEF r
      <4>6. now + Hold(off[p]) <= r.updated + WorkerTimeout + 1
        BY <1>1, <4>3, <4>4, Margin
      <4> QED BY <4>1, <4>3, <4>4, <4>5, <4>6 DEF Confirmed, r
    <3>3. CASE Release(p)
      BY <2>2, <3>3 DEF Release, Modes
    <3>4. CASE Crash(p)
      <4>1. node'[p].retired
        BY <3>4, FunctionsOK DEF Crash, Functions, NoNode
      <4> QED BY <2>1, <2>2, <4>1
    <3> QED BY <1>7, <3>1, <3>2, <3>3, <3>4, BeatStep
  <2> QED BY <1>2, <2>1, <2>2, ClaimsStep DEF old
<1> QED BY <1>4, <1>5, <1>6, <1>7, NodeStep

\* After a step of p every floor is no earlier than one from before, or it is
\* the barrier of the worker just allocated.
NewBarrier(f) == \E w \in Candidates :
    Allocate(w) /\ f.worker = w /\ f.token = tokens + 1 /\ f.time = Barrier

\* That is: where the floors of a step come from.
LEMMA FloorsFrom ==
    ASSUME TypeOK, NotAhead, Modes, NEW p \in Procs, Step(p), NEW f \in Floors'
    PROVE  (\E g \in Floors : SameLease(g, f) /\ g.time <= f.time) \/ NewBarrier(f)
<1> DEFINE old == \E g \in Floors : SameLease(g, f) /\ g.time <= f.time
<1>1. ASSUME f \in Floors PROVE old
  BY <1>1, StampTypes DEF SameLease
<1>2. CASE \E w \in Workers : f = RowFloor(w, rows'[w])
  <2>1. PICK w \in Workers : f = RowFloor(w, rows'[w])
    BY <1>2
  <2>2. f.worker = w /\ f.token = rows'[w].token /\ f.time = rows'[w].last
    BY <2>1 DEF RowFloor
  <2>3. /\ RowFloor(w, rows[w]) \in Floors /\ RowFloor(w, rows[w]).worker = w
        /\ RowFloor(w, rows[w]).token = rows[w].token /\ RowFloor(w, rows[w]).time = rows[w].last
    BY RowFloorIn DEF RowFloor
  <2>4. rows[w].last \in Nat
    BY DEF TypeOK
  <2>5. ASSUME rows'[w].token = rows[w].token, rows[w].last <= rows'[w].last
        PROVE  old
    BY <2>2, <2>3, <2>5 DEF SameLease
  <2> HIDE DEF old
  <2>6. CASE Keeps(p)
    BY <2>5, <2>6 DEF Keeps, RowsKeep, old
  <2>7. CASE Allocates(p)
    <3>1. PICK v \in Candidates : Allocate(v)
      BY <2>7 DEF Allocates
    <3>2. CASE v = w
      <4>1. f.token = tokens + 1 /\ f.time = Barrier
        BY <2>2, <3>1, <3>2, AllocateIs
      <4> QED BY <2>2, <3>1, <3>2, <4>1 DEF NewBarrier
    <3>3. CASE v # w
      <4>1. rows'[w] = rows[w]
        BY <3>1, <3>3, AllocateIs
      <4> QED BY <2>4, <2>5, <4>1 DEF old
    <3> QED BY <3>2, <3>3
  <2> QED BY <2>6, <2>7, RowsStep
<1>3. CASE loop'[p] = "clock" /\ f = GotFloor(got'[p])
  <2>1. CASE AllocateWorker(p)
    <3>1. PICK w \in Candidates :
            Allocate(w) /\ got'[p].worker = w /\ got'[p].token = tokens + 1 /\ got'[p].time = Barrier
      BY <2>1, AllocateWorkerIs
    <3> QED BY <1>3, <3>1 DEF GotFloor, NewBarrier
  <2>2. CASE loop'[p] = loop[p] /\ got'[p] = got[p]
    BY <1>1, <1>3, <2>2, GotFloorIn
  <2>3. CASE Retire(p) \/ Puts(p)
    BY <1>3, <2>3, RetireIs DEF Puts
  <2> QED BY <2>1, <2>2, <2>3, GotStep
<1>4. CASE ~node'[p].retired /\ f = LeaseFloor(node'[p])
  <2>1. CASE Quiet(p)
    BY <1>1, <1>4, <2>1, LeaseClaimIn DEF Quiet
  <2>2. CASE Retire(p) \/ Drops(p)
    BY <1>4, <2>2, RetireIs DEF Drops, NoNode
  <2>3. CASE Activate(p)
    <3>1. f.worker = got[p].worker /\ f.token = got[p].token /\ f.time = Clock(p) - 1
      BY <1>4, <2>3, ActivateIs DEF LeaseFloor
    <3>2. GotFloor(got[p]) \in Floors /\ Clock(p) > got[p].time
      BY <2>3, ActivateIs, GotFloorIn
    <3>3. Clock(p) \in Nat /\ got[p].time \in Nat
      BY ClockIs DEF TypeOK
    <3>4. /\ GotFloor(got[p]).worker = got[p].worker /\ GotFloor(got[p]).token = got[p].token
          /\ GotFloor(got[p]).time = got[p].time
      BY DEF GotFloor
    <3>5. got[p].time <= Clock(p) - 1
      BY <3>2, <3>3
    <3> QED BY <3>1, <3>2, <3>4, <3>5 DEF SameLease
  <2>4. CASE \E seq \in 0..MaxSequence : Hands(p, seq)
    <3>1. f = LeaseFloor(node[p]) /\ ~node[p].retired
      BY <1>4, <2>4, HandsIs DEF LeaseFloor
    <3> QED BY <1>1, <3>1, LeaseClaimIn
  <2> QED BY <2>1, <2>2, <2>3, <2>4, NodeStep
<1>5. CASE \E x \in issued' \ issued : ~x.replay /\ f = IdFloor(x)
  <2>1. PICK x \in issued' \ issued : ~x.replay /\ f = IdFloor(x)
    BY <1>5
  <2>2. PICK seq \in 0..MaxSequence : Hands(p, seq)
    BY <2>1, NodeStep, RetireIs, ActivateIs DEF Quiet, Drops
  <2>3. /\ x.ts = Clock(p) /\ x.worker = node[p].worker /\ x.token = node[p].token
        /\ x.ts >= node[p].start /\ ~node[p].retired
    BY <2>1, <2>2, HandsIs
  <2>4. f.worker = node[p].worker /\ f.token = node[p].token /\ f.time = x.ts - 1
    BY <2>1, <2>3 DEF IdFloor
  <2>5. /\ LeaseFloor(node[p]) \in Floors /\ LeaseFloor(node[p]).worker = node[p].worker
        /\ LeaseFloor(node[p]).token = node[p].token /\ LeaseFloor(node[p]).time = node[p].start - 1
    BY <2>3, LeaseClaimIn DEF LeaseFloor
  <2>6. node[p].start \in Nat /\ x.ts \in Nat
    BY <2>3, ClockIs DEF TypeOK
  <2>7. node[p].start - 1 <= x.ts - 1
    BY <2>3, <2>6
  <2> QED BY <2>4, <2>5, <2>7 DEF SameLease
<1> QED BY <1>1, <1>2, <1>3, <1>4, <1>5, FloorsStep

\* A worker that can be allocated: the claims of its former leases lie at or
\* below the barrier, because the last lease has expired.
LEMMA BarrierCovers ==
    ASSUME TypeOK, NotAhead, Newest, Ordered, Covered, NEW w \in Candidates, NEW d \in Claims,
           d.worker = w
    PROVE  d.time <= Barrier
<1>1. /\ w \in Workers /\ (rows[w].updated < now - WorkerTimeout \/ rows[w].token = 0)
      /\ d.token \in Nat /\ d.time \in Int
  BY CandidateIs, StampTypes
<1>2. /\ now \in Nat /\ rows[w].updated \in Nat /\ rows[w].last \in Nat /\ rows[w].token \in Nat
      /\ WorkerTimeout \in Nat /\ Barrier \in Nat /\ now <= Barrier /\ rows[w].last <= Barrier
  BY <1>1, Constants, BarrierIs DEF TypeOK
<1>3. d.token # 0 /\ d.token <= rows[w].token
  BY DEF Newest
<1>4. rows[w].updated + WorkerTimeout + 1 <= now
  BY <1>1, <1>2, <1>3
<1>5. CASE d.token = rows[w].token
  <2>1. d.time <= rows[w].last \/ d.time <= rows[w].updated + WorkerTimeout + 1
    BY <1>5 DEF Covered, CoveredBy
  <2> QED BY <1>1, <1>2, <1>4, <2>1
<1>6. CASE d.token < rows[w].token
  <2>1. /\ RowFloor(w, rows[w]) \in Floors /\ RowFloor(w, rows[w]).worker = w
        /\ RowFloor(w, rows[w]).token = rows[w].token /\ RowFloor(w, rows[w]).time = rows[w].last
    BY <1>1, RowFloorIn DEF RowFloor
  <2>2. Behind(d, RowFloor(w, rows[w]))
    BY <2>1 DEF Ordered
  <2>3. d.time <= rows[w].last
    BY <1>6, <2>1, <2>2 DEF Behind
  <2> QED BY <1>1, <1>2, <2>3
<1> QED BY <1>1, <1>2, <1>3, <1>5, <1>6

\* Tokens of rows grow, up to the newest.
LEMMA RowTokens ==
    ASSUME TypeOK, NotAhead, Newest, NEW p \in Procs, Step(p)
    PROVE  \A w \in Workers : rows[w].token <= rows'[w].token /\ rows'[w].token <= tokens'
<1>1. tokens \in Nat /\ \A w \in Workers : rows[w].token \in Nat /\ rows[w].token <= tokens
  BY DEF TypeOK, Newest
<1>2. CASE Keeps(p)
  BY <1>1, <1>2 DEF Keeps, RowsKeep
<1>3. CASE Allocates(p)
  <2>1. PICK w \in Candidates : Allocate(w)
    BY <1>3 DEF Allocates
  <2>2. /\ w \in Workers /\ rows'[w].token = tokens + 1 /\ tokens' = tokens + 1
        /\ \A v \in Workers : v # w => rows'[v] = rows[v]
    BY <2>1, AllocateIs
  <2> QED BY <1>1, <2>2
<1> QED BY <1>2, <1>3, RowsStep

\* An allocation's token is the newest of its worker, and stays in the row
\* until the next allocation.
LEMMA StepNewest ==
    ASSUME TypeOK, TypeOK', NotAhead, WideMargin, Modes, Timely, Newest, Rows,
           NEW p \in Procs, Step(p)
    PROVE  Newest'
<1>1. \A w \in Workers : /\ rows[w].token <= rows'[w].token /\ rows'[w].token <= tokens'
                         /\ rows[w].token \in Nat /\ rows'[w].token \in Nat
  BY RowTokens DEF TypeOK
<1>2. ASSUME NEW c \in Claims'
      PROVE  c.token # 0 /\ c.token <= rows'[c.worker].token
  <2>1. CASE \E d \in Claims : SameLease(d, c) /\ c.time <= d.time
    <3>1. PICK d \in Claims : SameLease(d, c)
      BY <2>1
    <3>2. d.token # 0 /\ d.token <= rows[d.worker].token /\ d.worker \in Workers /\ d.token \in Nat
      BY StampTypes DEF Newest
    <3> QED BY <1>1, <3>1, <3>2 DEF SameLease
  <2>2. CASE Confirmed(c, rows'[c.worker])
    BY <1>1, <2>2 DEF Confirmed
  <2> QED BY <2>1, <2>2, ClaimsFrom
<1>3. ASSUME NEW f \in Floors'
      PROVE  f.token <= rows'[f.worker].token
  <2>1. CASE \E g \in Floors : SameLease(g, f) /\ g.time <= f.time
    <3>1. PICK g \in Floors : SameLease(g, f)
      BY <2>1
    <3>2. g.token <= rows[g.worker].token /\ g.worker \in Workers /\ g.token \in Nat
      BY StampTypes DEF Newest
    <3> QED BY <1>1, <3>1, <3>2 DEF SameLease
  <2>2. CASE NewBarrier(f)
    <3>1. PICK w \in Candidates : Allocate(w) /\ f.worker = w /\ f.token = tokens + 1
      BY <2>2 DEF NewBarrier
    <3>2. w \in Workers /\ rows'[w].token = tokens + 1
      BY <3>1, AllocateIs
    <3> QED BY <1>1, <3>1, <3>2
  <2> QED BY <2>1, <2>2, FloorsFrom
<1> QED BY <1>1, <1>2, <1>3 DEF Newest

\* Claims of earlier leases stay at or below the floors of later ones: a new
\* floor is a barrier, which covers every claim there is.
LEMMA StepOrdered ==
    ASSUME TypeOK, TypeOK', NotAhead, WideMargin, Modes, Timely, Newest, Rows, Ordered, Covered,
           NEW p \in Procs, Step(p)
    PROVE  Ordered'
<1>1. Newest'
  BY StepNewest
<1> SUFFICES ASSUME NEW c \in Claims', NEW f \in Floors', c.worker = f.worker, c.token < f.token
             PROVE  c.time <= f.time
  BY DEF Ordered, Behind
<1>2. /\ c.worker \in Workers /\ c.token \in Nat /\ c.time \in Int
      /\ f.token \in Nat /\ f.time \in Int
  BY StampedNext DEF Stamped
<1>3. CASE Confirmed(c, rows'[c.worker])
  <2>1. f.token <= rows'[f.worker].token /\ rows'[c.worker].token = c.token
    BY <1>1, <1>3 DEF Newest, Confirmed
  <2> QED BY <1>2, <2>1
<1>4. CASE \E d \in Claims : SameLease(d, c) /\ c.time <= d.time
  <2>1. PICK d \in Claims : SameLease(d, c) /\ c.time <= d.time
    BY <1>4
  <2>2. d.time \in Int
    BY StampTypes
  <2>3. CASE \E g \in Floors : SameLease(g, f) /\ g.time <= f.time
    <3>1. PICK g \in Floors : SameLease(g, f) /\ g.time <= f.time
      BY <2>3
    <3>2. g.time \in Int /\ Behind(d, g)
      BY StampTypes DEF Ordered
    <3>3. d.time <= g.time
      BY <2>1, <3>1, <3>2 DEF Behind, SameLease
    <3> QED BY <1>2, <2>1, <2>2, <3>1, <3>2, <3>3
  <2>4. CASE NewBarrier(f)
    <3>1. PICK w \in Candidates : f.worker = w /\ f.time = Barrier
      BY <2>4 DEF NewBarrier
    <3>2. d.worker = w
      BY <2>1, <3>1 DEF SameLease
    <3>3. d.time <= Barrier
      BY <3>2, BarrierCovers
    <3> QED BY <1>2, <2>1, <2>2, <3>1, <3>3
  <2> QED BY <2>3, <2>4, FloorsFrom
<1> QED BY <1>3, <1>4, ClaimsFrom

\* Only a release forgets an update: of its own lease, whose ids lie in the
\* barrier then, and which is not live.
LEMMA Forgets ==
    ASSUME TypeOK, NotAhead, Modes, NEW p \in Procs, Step(p), NEW w \in Workers,
           ~(rows[w].updated <= rows'[w].updated), ~Allocates(p)
    PROVE  /\ loop[p] \in {"clock", "release", "closing"} /\ node'[p].retired /\ issued' = issued
           /\ rows[w].token = got[p].token /\ got[p].time <= rows'[w].last
<1>1. /\ rows[w].updated \in Nat /\ got[p].worker \in Workers /\ got[p].time \in Nat
      /\ got[p].time <= now + MaxSkew /\ Functions
      /\ node[p].worker \in Workers /\ node[p].ts \in Nat /\ node[p].ts <= now + MaxSkew
  BY FunctionsOK DEF TypeOK, NotAhead
<1>2. rows' # rows
  BY <1>1
<1>3. ~HeartbeatRow(node[p].worker, node[p].token, node[p].ts)
  BY <1>1, HeartbeatRowIs
<1>4. ClockFails(p) \/ Release(p)
  <2>1. ~AllocateWorker(p) /\ ~AllocateFails(p)
    BY <1>2 DEF Allocates, AllocateWorker, AllocateFails
  <2>2. ~Beat(p)
    BY <1>3 DEF Beat
  <2>3. ~(\/ New(p) \/ Activate(p) \/ BeatEnds(p) \/ BeatFails(p) \/ Retire(p) \/ Close(p)
          \/ Crash(p) \/ GenerateChecks(p) \/ NodeGenerates(p) \/ SpinEnds(p) \/ ClockSteps(p))
    BY <1>2 DEF New, Activate, BeatEnds, BeatFails, Retire, Close, Crash, GenerateChecks,
                NodeGenerates, SpinEnds, ClockSteps
  <2> QED BY <2>1, <2>2, <2>3 DEF Step
<1>5. ReleaseRow(got[p].worker, got[p].token, got[p].time) /\ issued' = issued
      /\ loop[p] \in {"clock", "release", "closing"}
  BY <1>2, <1>4 DEF ClockFails, Release, callVars
<1>6. node[p].retired
  BY <1>5 DEF Modes
<1>7. node'[p].retired
  <2>1. NoNode.retired
    BY DEF NoNode
  <2>2. node'[p] = node[p] \/ node'[p] = NoNode
    BY <1>1, <1>4 DEF Functions, ClockFails, Release
  <2> QED BY <1>6, <2>1, <2>2
<1>8. /\ rows[w].token # got[p].token => rows[w].updated <= rows'[w].updated
      /\ rows[got[p].worker].token = got[p].token => got[p].time <= rows'[got[p].worker].last
      /\ w # got[p].worker => rows'[w] = rows[w]
  BY <1>1, <1>5, ReleaseRowIs
<1>9. w = got[p].worker
  BY <1>1, <1>8
<1> QED BY <1>5, <1>7, <1>8, <1>9

\* What the lease of a row claims stays in its barrier or ends with its expiry.
LEMMA StepCovered ==
    ASSUME TypeOK, TypeOK', NotAhead, WideMargin, Modes, Timely, Disjoint, Newest, LeaseIDs,
           Rows, Covered, NEW p \in Procs, Step(p)
    PROVE  Covered'
<1> SUFFICES ASSUME NEW c \in Claims', c.token = rows'[c.worker].token
             PROVE  \/ c.time <= rows'[c.worker].last
                    \/ c.time <= rows'[c.worker].updated + WorkerTimeout + 1
  BY DEF Covered, CoveredBy
<1>1. c.worker \in Workers /\ c.token \in Nat /\ c.time \in Int
  BY StampedNext DEF Stamped
<1> DEFINE w == c.worker
<1>2. /\ rows[w].last \in Nat /\ rows'[w].last \in Nat /\ rows[w].updated \in Nat
      /\ rows'[w].updated \in Nat /\ WorkerTimeout \in Nat /\ rows[w].token \in Nat /\ tokens \in Nat
  BY <1>1, Constants DEF TypeOK
<1>3. CASE Confirmed(c, rows'[c.worker])
  BY <1>3 DEF Confirmed
<1>4. CASE /\ \E d \in Claims : SameLease(d, c) /\ c.time <= d.time
           /\ rows'[w].token = rows[w].token /\ rows[w].last <= rows'[w].last
           /\ rows[w].updated <= rows'[w].updated
  <2>1. PICK d \in Claims : SameLease(d, c) /\ c.time <= d.time
    BY <1>4
  <2>2. d.time \in Int /\ CoveredBy(d, rows[d.worker])
    BY StampTypes DEF Covered
  <2>3. d.time <= rows[w].last \/ d.time <= rows[w].updated + WorkerTimeout + 1
    BY <1>4, <2>1, <2>2 DEF CoveredBy, SameLease
  <2> HIDE DEF w
  <2>4. c.time <= rows'[w].last \/ c.time <= rows'[w].updated + WorkerTimeout + 1
    BY <1>1, <1>2, <1>4, <2>1, <2>2, <2>3
  <2> QED BY <2>4 DEF w
<1>5. CASE Allocates(p) /\ \E d \in Claims : SameLease(d, c) /\ c.time <= d.time
  <2>1. PICK d \in Claims : SameLease(d, c) /\ c.time <= d.time
    BY <1>5
  <2>2. d.token <= rows[w].token /\ rows[w].token <= tokens
    BY <1>1, <2>1 DEF Newest, SameLease
  <2>3. PICK v \in Candidates : Allocate(v)
    BY <1>5 DEF Allocates
  <2>4. v \in Workers /\ rows'[v].token = tokens + 1 /\ \A u \in Workers : u # v => rows'[u] = rows[u]
    BY <2>3, AllocateIs
  <2>5. w # v
    BY <1>1, <1>2, <2>1, <2>2, <2>4 DEF SameLease
  <2>6. rows'[w] = rows[w]
    BY <1>1, <2>4, <2>5
  <2> QED BY <1>2, <1>4, <1>5, <2>6
<1>6. CASE ~Allocates(p) /\ ~(rows[w].updated <= rows'[w].updated)
  <2>1. /\ loop[p] \in {"clock", "release", "closing"} /\ node'[p].retired /\ issued' = issued
        /\ rows[w].token = got[p].token /\ got[p].time <= rows'[w].last
    BY <1>1, <1>6, Forgets
  <2>2. Keeps(p)
    BY <1>6, RowsStep
  <2>3. c.token = got[p].token
    BY <1>1, <2>1, <2>2 DEF Keeps, RowsKeep
  <2>4. CASE \E x \in issued : c = IdClaim(x)
    <3>1. PICK x \in issued : c = IdClaim(x)
      BY <2>4
    <3>2. c.token = x.token /\ c.time = x.ts
      BY <3>1 DEF IdClaim
    <3>3. x.ts <= got[p].time
      BY <2>1, <2>3, <3>1, <3>2 DEF LeaseIDs
    <3>4. x.ts \in Nat /\ got[p].time \in Nat
      BY <3>1 DEF TypeOK
    <3> QED BY <1>2, <2>1, <3>2, <3>3, <3>4
  <2>5. CASE \E q \in Procs : ~node'[q].retired /\ c = LeaseClaim(node'[q], beat'[q], off'[q])
    <3>1. PICK q \in Procs : ~node'[q].retired /\ c = LeaseClaim(node'[q], beat'[q], off'[q])
      BY <2>5
    <3>2. q # p /\ node'[q] = node[q]
      BY <2>1, <3>1, OthersKeep DEF Others
    <3>3. node[q].token = got[p].token /\ node[q].token # 0
      BY <2>3, <3>1, <3>2, LiveToken DEF LeaseClaim
    <3> QED BY <3>2, <3>3 DEF Disjoint, TokensOf
  <2> QED BY <2>1, <2>4, <2>5 DEF Claims, Live
<1>7. CASE Keeps(p) /\ rows[w].updated <= rows'[w].updated
           /\ \E d \in Claims : SameLease(d, c) /\ c.time <= d.time
  BY <1>1, <1>4, <1>7 DEF Keeps, RowsKeep
<1> HIDE DEF w
<1> QED BY <1>3, <1>5, <1>6, <1>7, ClaimsFrom, RowsStep

\* Leases and ids have tokens.
LEMMA StepHeld ==
    ASSUME TypeOK, NotAhead, Modes, Known, Held, NEW p \in Procs, Step(p)
    PROVE  Held'
<1>1. /\ \A q \in Procs : q # p => node'[q] = node[q] /\ got'[q] = got[q] /\ loop'[q] = loop[q]
      /\ tokens \in Nat
  BY OthersKeep DEF Others, TypeOK
<1>2. tokens' \in Nat /\ tokens <= tokens'
  BY <1>1, TokensStep
<1>3. ASSUME NEW x \in issued'
      PROVE  x.token # 0 /\ x.token <= tokens'
  <2>1. CASE x \in issued
    <3>1. x.token \in Nat
      BY <2>1, Constants DEF TypeOK
    <3>2. x.token # 0 /\ x.token <= tokens
      BY <2>1 DEF Held
    <3> QED BY <1>1, <1>2, <3>1, <3>2
  <2>2. CASE x \notin issued
    <3>1. PICK seq \in 0..MaxSequence : Hands(p, seq)
      BY <1>3, <2>2, NodeStep, RetireIs, ActivateIs DEF Quiet, Drops
    <3>2. x.token = node[p].token /\ ~node[p].retired
      BY <1>3, <2>2, <3>1, HandsIs
    <3>3. node[p].token \in Nat
      BY Constants DEF TypeOK
    <3>4. node[p].token # 0
      BY <3>2 DEF Held, Live
    <3>5. node[p].token <= tokens
      BY DEF Known, TokensOf
    <3> QED BY <1>1, <1>2, <3>2, <3>3, <3>4, <3>5
  <2> QED BY <2>1, <2>2
<1>4. ~node'[p].retired => node'[p].token # 0
  <2>1. CASE Quiet(p)
    BY <2>1 DEF Quiet, Held, Live
  <2>2. CASE Retire(p)
    BY <2>2, RetireIs
  <2>3. CASE Drops(p)
    <3>1. NoNode.retired
      BY DEF NoNode
    <3> QED BY <2>3, <3>1 DEF Drops
  <2>4. CASE Activate(p)
    <3>1. loop[p] = "clock" /\ node'[p].token = got[p].token
      BY <2>4, ActivateIs
    <3> QED BY <3>1 DEF Held
  <2>5. CASE \E seq \in 0..MaxSequence : Hands(p, seq)
    <3>1. node'[p].token = node[p].token /\ ~node[p].retired
      BY <2>5, HandsIs
    <3> QED BY <3>1 DEF Held, Live
  <2> QED BY <2>1, <2>2, <2>3, <2>4, <2>5, NodeStep
<1>5. loop'[p] = "clock" => got'[p].token # 0
  <2>1. CASE AllocateWorker(p)
    <3>1. got'[p].token = tokens + 1
      BY <2>1, AllocateWorkerIs
    <3> QED BY <1>1, <3>1
  <2>2. CASE Retire(p) \/ Puts(p)
    BY <2>2, RetireIs DEF Puts
  <2>3. CASE loop'[p] = loop[p] /\ got'[p] = got[p]
    BY <2>3 DEF Held
  <2> QED BY <2>1, <2>2, <2>3, GotStep
<1> QED BY <1>1, <1>3, <1>4, <1>5 DEF Held, Live

\* A node stays at or past every id of its lease, and a release brings the
\* last of them to the row.
LEMMA StepLeaseIDs ==
    ASSUME TypeOK, NotAhead, Modes, Disjoint, Held, LeaseIDs, NEW p \in Procs, Step(p)
    PROVE  LeaseIDs'
<1> DEFINE Of(x, n, l, g) ==
             /\ x.token = n.token => UpTo(x, n)
             /\ l \in {"release", "closing"} /\ x.token = g.token => x.ts <= g.time
             /\ l = "clock" => x.token # g.token
<1>1. \A q \in Procs, x \in issued : Of(x, node[q], loop[q], got[q])
  BY DEF LeaseIDs
<1>2. \A q \in Procs : q # p => node'[q] = node[q] /\ got'[q] = got[q] /\ loop'[q] = loop[q]
  BY OthersKeep DEF Others
<1>3. NoNode.token = 0 /\ Nothing.token = 0
  BY DEF NoNode, Nothing
<1>4. ASSUME NEW x \in issued
      PROVE  Of(x, node'[p], loop'[p], got'[p])
  <2>1. x.token \in Nat /\ x.token # 0 /\ x.token <= tokens /\ tokens \in Nat /\ x.ts \in Nat
    <3>1. x.token \in Nat /\ tokens \in Nat /\ x.ts \in Nat
      BY Constants DEF TypeOK
    <3> QED BY <3>1 DEF Held
  <2>2. x.token = node'[p].token => UpTo(x, node'[p])
    <3>1. CASE Quiet(p)
      BY <1>1, <3>1 DEF Quiet
    <3>2. CASE Retire(p)
      BY <1>1, <3>2, RetireIs DEF UpTo
    <3>3. CASE Drops(p)
      BY <1>3, <2>1, <3>3 DEF Drops
    <3>4. CASE Activate(p)
      BY <1>1, <3>4, ActivateIs
    <3>5. CASE \E seq \in 0..MaxSequence : Hands(p, seq)
      <4>1. PICK seq \in 0..MaxSequence : Hands(p, seq)
        BY <3>5
      <4>2. /\ node'[p].ts = Clock(p) /\ node'[p].seq = seq /\ node'[p].token = node[p].token
        BY <4>1, HandsIs
      <4>3. Clock(p) > node[p].ts \/ (Clock(p) = node[p].ts /\ seq > node[p].seq)
        BY <4>1 DEF Hands
      <4>4. x.token = node[p].token => UpTo(x, node[p])
        BY <1>1
      <4>5. /\ x.seq \in Int /\ node[p].ts \in Nat /\ node[p].seq \in Int /\ seq \in Int
            /\ Clock(p) \in Nat
        BY ClockIs, Constants DEF TypeOK
      <4> QED BY <2>1, <4>2, <4>3, <4>4, <4>5 DEF UpTo
    <3> QED BY <3>1, <3>2, <3>3, <3>4, <3>5, NodeStep
  <2>3. /\ loop'[p] \in {"release", "closing"} /\ x.token = got'[p].token => x.ts <= got'[p].time
        /\ loop'[p] = "clock" => x.token # got'[p].token
    <3>1. CASE AllocateWorker(p)
      <4>1. loop'[p] = "clock" /\ got'[p].token = tokens + 1
        BY <3>1, AllocateWorkerIs
      <4> QED BY <2>1, <4>1
    <3>2. CASE Retire(p)
      <4>1. /\ got'[p].token = node[p].token /\ got'[p].time = node[p].ts
            /\ loop'[p] \in {"release", "closing"}
        BY <3>2, RetireIs
      <4>2. x.token = node[p].token => UpTo(x, node[p])
        BY <1>1
      <4>3. node[p].ts \in Nat
        BY DEF TypeOK
      <4> QED BY <2>1, <4>1, <4>2, <4>3 DEF UpTo
    <3>3. CASE Puts(p)
      BY <3>3 DEF Puts
    <3>4. CASE loop'[p] = loop[p] /\ got'[p] = got[p]
      BY <1>1, <3>4
    <3> QED BY <3>1, <3>2, <3>3, <3>4, GotStep
  <2> QED BY <2>2, <2>3
<1>5. ASSUME NEW q \in Procs, NEW x \in issued' \ issued
      PROVE  Of(x, node'[q], loop'[q], got'[q])
  <2>1. PICK seq \in 0..MaxSequence : Hands(p, seq)
    BY <1>5, NodeStep, RetireIs, ActivateIs DEF Quiet, Drops
  <2>2. /\ x.ts = Clock(p) /\ x.seq = seq /\ x.token = node[p].token /\ ~node[p].retired
        /\ node'[p].ts = Clock(p) /\ node'[p].seq = seq /\ loop' = loop
    BY <1>5, <2>1, HandsIs
  <2>3. x.token # 0
    BY <2>2 DEF Held, Live
  <2>4. CASE q = p
    <3>1. loop'[p] \notin {"clock", "release", "closing"}
      BY <2>2 DEF Modes
    <3>2. seq \in Int
      OBVIOUS
    <3> QED BY <2>2, <2>4, <3>1, <3>2 DEF UpTo
  <2>5. CASE q # p
    <3>1. x.token \notin {node[q].token, got[q].token}
      BY <2>2, <2>3, <2>5 DEF Disjoint, TokensOf
    <3> QED BY <1>2, <2>5, <3>1
  <2> QED BY <2>4, <2>5
<1>6. \A q \in Procs, x \in issued' : Of(x, node'[q], loop'[q], got'[q])
  BY <1>1, <1>2, <1>4, <1>5
<1> QED BY <1>6 DEF LeaseIDs

\* A row that a process counts on is not reallocated, forgotten or given away.
LEMMA RowStays ==
    ASSUME TypeOK, NotAhead, NEW p \in Procs, Step(p), NEW w \in Workers, NEW t \in Nat \ {0},
           rows[w].token = t, now <= rows[w].updated + WorkerTimeout, t # got[p].token \/ rows' = rows
    PROVE  rows'[w].token = t /\ rows[w].updated <= rows'[w].updated
<1>1. now \in Nat /\ rows[w].updated \in Nat /\ WorkerTimeout \in Nat
  BY Constants DEF TypeOK
<1>2. CASE rows' = rows
  BY <1>1, <1>2
<1>3. CASE Keeps(p) /\ t # got[p].token
  BY <1>3 DEF Keeps, RowsKeep
<1>4. CASE Allocates(p)
  <2>1. PICK v \in Candidates : Allocate(v)
    BY <1>4 DEF Allocates
  <2>2. v # w
    BY <1>1, <2>1, CandidateIs
  <2>3. rows'[w] = rows[w]
    BY <2>1, <2>2, AllocateIs
  <2> QED BY <1>1, <2>3
<1> QED BY <1>2, <1>3, <1>4, RowsStep

\* Who waits for its clock or for an answer began to, or has waited since.
LEMMA WaitsStep ==
    ASSUME TypeOK, Modes, NEW p \in Procs, Step(p), loop'[p] \in {"clock", "beaten"}
    PROVE  \/ AllocateWorker(p) \/ Beat(p)
           \/ /\ loop'[p] = loop[p] /\ got' = got /\ rows' = rows /\ wait' = wait
              /\ node'[p].worker = node[p].worker /\ node'[p].token = node[p].token
<1>1. Functions
  BY FunctionsOK
<1>2. CASE Close(p) \/ GenerateChecks(p) \/ ClockSteps(p)
  BY <1>2 DEF Close, GenerateChecks, ClockSteps, callVars
<1>3. CASE NodeGenerates(p) \/ SpinEnds(p)
  <2>1. loop' = loop /\ got' = got /\ rows' = rows /\ wait' = wait
    BY <1>3 DEF NodeGenerates, SpinEnds
  <2>2. node'[p].worker = node[p].worker /\ node'[p].token = node[p].token
    BY <1>3, GenerateHands, HandsIs
  <2> QED BY <2>1, <2>2
<1>4. ~New(p) /\ ~AllocateFails(p) /\ ~ClockFails(p)
  BY <1>1 DEF Functions, New, AllocateFails, ClockFails, Abort
<1>5. ~Activate(p) /\ ~BeatEnds(p) /\ ~BeatFails(p)
  BY <1>1 DEF Functions, Activate, BeatEnds, BeatFails
<1>6. ~Retire(p) /\ ~Release(p) /\ ~Crash(p)
  BY <1>1 DEF Functions, Retire, Release, Crash
<1> QED BY <1>2, <1>3, <1>4, <1>5, <1>6 DEF Step

\* The row of who waits for a clock or an answer stays theirs: it does not
\* expire in so short a time.
LEMMA StepRows ==
    ASSUME TypeOK, NotAhead, WideMargin, Modes, Disjoint, Newest, Rows, NEW p \in Procs, Step(p)
    PROVE  Rows'
<1>1. now' = now /\ now \in Nat /\ Others(p)
  BY OthersKeep DEF TypeOK
<1>2. \A q \in Procs : /\ wait[q] \in Nat /\ wait[q] <= MaxAnswer /\ got[q].worker \in Workers
                       /\ node[q].worker \in Workers /\ got[q].token \in Nat /\ node[q].token \in Nat
                       /\ got[q].time \in Nat
  BY Constants DEF TypeOK
<1>3. \A w \in Workers : rows[w].updated \in Nat /\ rows'[w].updated \in Nat
  BY StepTypeOK DEF TypeOK
<1>4. /\ MaxSkew \in Nat /\ MaxAnswer \in Nat /\ WorkerTimeout \in Nat
      /\ MaxBehind \in Nat /\ MaxSkew + 1 + MaxAnswer + MaxBehind <= WorkerTimeout
  BY Margin
<1>9. \A q \in Procs : /\ off[q] \in Int /\ off'[q] \in Int /\ off'[q] <= off[q]
                       /\ -MaxBehind <= off[q] /\ off[q] <= MaxSkew
  <2>1. /\ off'[p] \in Int /\ off'[p] <= off[p]
        /\ \A q \in Procs : off[q] \in Int /\ -MaxBehind <= off[q] /\ off[q] <= MaxSkew
    BY OffStep, TimesAre
  <2>2. \A q \in Procs : q # p => off'[q] = off[q]
    BY <1>1 DEF Others
  <2> QED BY <2>1, <2>2
<1>5. ASSUME NEW q \in Procs, loop[q] = "clock", got[q].token # got[p].token \/ rows' = rows
      PROVE  Waiting(got[q], rows'[got[q].worker], wait[q], off'[q])
  <2> DEFINE w == got[q].worker
  <2>1. Waiting(got[q], rows[w], wait[q], off[q])
    BY <1>5 DEF Rows
  <2>2. now <= rows[w].updated + WorkerTimeout
    BY <1>1, <1>2, <1>3, <1>4, <1>9, <2>1 DEF Waiting
  <2>3. got[q].token \in Nat \ {0} /\ rows[w].token = got[q].token /\ w \in Workers
    BY <1>2, <2>1 DEF Waiting
  <2> HIDE DEF w
  <2>4. rows'[w].token = got[q].token /\ rows[w].updated <= rows'[w].updated
    BY <1>5, <2>2, <2>3, RowStays
  <2>5. Waiting(got[q], rows'[w], wait[q], off'[q])
    BY <1>1, <1>2, <1>3, <1>4, <1>9, <2>1, <2>3, <2>4 DEF Waiting
  <2> QED BY <2>5 DEF w
<1>6. ASSUME NEW q \in Procs, loop[q] = "beaten", got[q].ok, node[q].token # got[p].token \/ rows' = rows
      PROVE  Renewed(node[q], rows'[node[q].worker], wait[q])
  <2> DEFINE w == node[q].worker
  <2>1. Renewed(node[q], rows[w], wait[q])
    BY <1>6 DEF Rows
  <2>2. now <= rows[w].updated + WorkerTimeout
    BY <1>1, <1>2, <1>3, <1>4, <2>1 DEF Renewed
  <2>3. ~node[q].retired
    BY <1>6 DEF Modes
  <2>4. node[q].token \in Nat \ {0} /\ rows[w].token = node[q].token /\ w \in Workers
    BY <1>2, <2>1, <2>3, LiveToken DEF Renewed
  <2> HIDE DEF w
  <2>5. rows'[w].token = node[q].token /\ rows[w].updated <= rows'[w].updated
    BY <1>6, <2>2, <2>4, RowStays
  <2>6. Renewed(node[q], rows'[w], wait[q])
    BY <1>1, <1>2, <1>3, <1>4, <2>1, <2>4, <2>5 DEF Renewed
  <2> QED BY <2>6 DEF w
<1>7. ASSUME NEW q \in Procs, q # p
      PROVE  /\ loop'[q] = "clock" => Waiting(got'[q], rows'[got'[q].worker], wait'[q], off'[q])
             /\ loop'[q] = "beaten" /\ got'[q].ok
                  => Renewed(node'[q], rows'[node'[q].worker], wait'[q])
  <2>1. loop'[q] = loop[q] /\ got'[q] = got[q] /\ wait'[q] = wait[q] /\ node'[q] = node[q]
    BY <1>1, <1>7 DEF Others
  <2>2. loop[q] = "clock" => got[q].token # 0
    BY DEF Rows, Waiting
  <2>3. loop[q] = "beaten" => node[q].token # 0
    BY LiveToken DEF Modes
  <2>4. /\ got[q].token # 0 => got[q].token # got[p].token
        /\ node[q].token # 0 => node[q].token # got[p].token
    BY <1>7 DEF Disjoint, TokensOf
  <2> QED BY <1>5, <1>6, <2>1, <2>2, <2>3, <2>4
<1>8. /\ loop'[p] = "clock" => Waiting(got'[p], rows'[got'[p].worker], wait'[p], off'[p])
      /\ loop'[p] = "beaten" /\ got'[p].ok
           => Renewed(node'[p], rows'[node'[p].worker], wait'[p])
  <2>1. CASE AllocateWorker(p)
    <3>1. PICK w \in Candidates :
             /\ Allocate(w) /\ loop'[p] = "clock" /\ wait'[p] = wait[p]
             /\ got'[p].worker = w /\ got'[p].token = tokens + 1 /\ got'[p].time = Barrier
      BY <2>1, AllocateWorkerIs
    <3>2. rows'[w] = [last |-> Barrier, updated |-> now, token |-> tokens + 1]
      BY <3>1, AllocateIs
    <3>3. rows'[w].updated = now /\ rows'[w].token = tokens + 1
      BY <3>2
    <3>4. Barrier <= now + MaxSkew /\ tokens \in Nat
      BY BarrierIs DEF TypeOK
    <3>5. now + off'[p] <= now + MaxSkew + 1 + wait[p] /\ tokens + 1 # 0
      BY <1>1, <1>2, <1>4, <1>9, <3>4
    <3>6. Waiting(got'[p], rows'[got'[p].worker], wait'[p], off'[p])
      BY <3>1, <3>3, <3>4, <3>5 DEF Waiting
    <3> QED BY <3>1, <3>6
  <2>2. CASE Beat(p)
    <3>1. loop'[p] = "beaten" /\ node' = node /\ wait' = wait
          /\ HeartbeatRow(node[p].worker, node[p].token, node[p].ts)
      BY <2>2, FunctionsOK DEF Functions, Beat
    <3>2. got'[p].ok => rows[node[p].worker].token = node[p].token
      <4> DEFINE ok == rows[node[p].worker].token = node[p].token
      <4>1. got' = [got EXCEPT ![p].ok = ok] /\ got[p] \in Gots
        BY <2>2, Types DEF Beat
      <4> HIDE DEF ok
      <4>2. got'[p] = [got[p] EXCEPT !.ok = ok]
        BY <4>1, Types
      <4>3. got'[p].ok = ok
        BY <4>1, <4>2 DEF Gots
      <4> QED BY <4>3 DEF ok
    <3>3. node[p].ts \in Nat /\ node[p].ts <= now + MaxSkew
      BY DEF TypeOK, NotAhead
    <3>4. ASSUME rows[node[p].worker].token = node[p].token
          PROVE  rows'[node[p].worker].token = node[p].token /\ rows'[node[p].worker].updated = now
      BY <1>2, <3>1, <3>3, <3>4, HeartbeatRowIs
    <3>5. now <= now + wait[p]
      BY <1>1, <1>2
    <3> QED BY <3>1, <3>2, <3>4, <3>5 DEF Renewed
  <2>3. CASE /\ loop'[p] = loop[p] /\ got' = got /\ rows' = rows /\ wait' = wait
             /\ node'[p].worker = node[p].worker /\ node'[p].token = node[p].token
    BY <1>5, <1>6, <2>3 DEF Renewed
  <2> QED BY <2>1, <2>2, <2>3, WaitsStep
<1> QED BY <1>1, <1>7, <1>8 DEF Rows, Waiting, Renewed

-------------------------------------------------------------------------------
(* Time passes *)

\* Time keeps the types,
LEMMA TickTypes ==
    ASSUME TypeOK, Tick
    PROVE  TypeOK' /\ now' = now + 1 /\ now \in Nat
           /\ UNCHANGED <<off, rows, state, loop, got, node, beat, issued, tokens, fails, steps>>
<1>1. /\ now \in Nat /\ now' = now + 1 /\ MaxAnswer \in Nat /\ MaxPause \in Nat
      /\ UNCHANGED <<off, rows, state, loop, got, node, beat, issued, tokens, fails, steps>>
  BY Constants DEF TypeOK, Tick
<1>2. ASSUME NEW p \in Procs
      PROVE  /\ (IF HasAnswer(p) THEN wait[p] + 1 ELSE 0) \in 0..MaxAnswer
             /\ Older(calls[p]) \in Ages /\ Older(spin[p]) \in Ages
  <2>1. wait[p] \in 0..MaxAnswer
    BY DEF TypeOK
  <2>2. /\ HasAnswer(p) => wait[p] < MaxAnswer
        /\ \A k \in calls[p] \cup spin[p] : k < MaxPause
    BY DEF Tick
  <2>3. \A k \in calls[p] \cup spin[p] : k + 1 \in 0..MaxPause
    BY <1>1, <2>2, TimesAre
  <2> QED BY <1>1, <2>1, <2>2, <2>3 DEF Older, Ages
<1>3. /\ wait' \in [Procs -> 0..MaxAnswer]
      /\ calls' \in [Procs -> Ages] /\ spin' \in [Procs -> Ages]
  BY <1>2 DEF Tick
<1>4. rows' \in [Workers -> [last : Nat, updated : 0..now', token : 0..MaxTokens]]
  <2>1. \A w \in Workers : rows[w] \in [last : Nat, updated : 0..now', token : 0..MaxTokens]
    BY <1>1 DEF TypeOK
  <2>2. rows = [w \in Workers |-> rows[w]]
    BY DEF TypeOK
  <2> QED BY <1>1, <2>1, <2>2
<1>5. beat' \in [Procs -> 0..now']
  BY <1>1 DEF TypeOK
<1>6. now' \in Nat /\ now' >= MaxBehind
  BY <1>1, Constants DEF TypeOK
<1> QED BY <1>1, <1>3, <1>4, <1>5, <1>6 DEF TypeOK, Ages

\* and whatever does not speak of the time,
LEMMA TickKeeps ==
    ASSUME TypeOK, Tick
    PROVE  /\ NotAhead => NotAhead'
           /\ (Modes => Modes') /\ (Known => Known') /\ (Disjoint => Disjoint')
           /\ (Held => Held') /\ (LeaseIDs => LeaseIDs')
           /\ (Newest => Newest') /\ (Ordered => Ordered') /\ (Covered => Covered')
<1>1. /\ now' = now + 1 /\ now \in Nat /\ MaxSkew \in Nat
      /\ UNCHANGED <<off, rows, state, loop, got, node, beat, issued, tokens>>
  BY TickTypes, Constants
<1>0. \A p \in Procs : spin'[p] # {} => spin[p] # {}
  BY DEF Tick, Older
<1>2. /\ (Modes => Modes') /\ (Known => Known') /\ (Disjoint => Disjoint')
      /\ (Held => Held') /\ (LeaseIDs => LeaseIDs')
  BY <1>0, <1>1 DEF Modes, Known, Disjoint, Held, LeaseIDs, TokensOf, Live
<1>3. Claims' = Claims /\ Floors' = Floors
  BY <1>1 DEF Claims, Floors, Live
<1>4. (Newest => Newest') /\ (Ordered => Ordered') /\ (Covered => Covered')
  BY <1>1, <1>3 DEF Newest, Ordered, Covered, CoveredBy, Behind
<1>5. NotAhead => NotAhead'
  <2>1. \A w \in Workers : rows[w].last \in Nat
    BY DEF TypeOK
  <2>2. \A p \in Procs : node[p].ts \in Nat /\ got[p].time \in Nat
    BY DEF TypeOK
  <2> QED BY <1>1, <2>1, <2>2 DEF NotAhead
<1> QED BY <1>2, <1>4, <1>5

\* and Generate's distance from its heartbeat, which its age measures,
LEMMA TickTimely ==
    ASSUME TypeOK, Timely, Tick
    PROVE  Timely'
<1>1. now' = now + 1 /\ now \in Nat /\ UNCHANGED <<node, beat>>
  BY TickTypes
<1>2. ASSUME NEW p \in Procs, NEW k \in calls'[p] \cup spin'[p], ~node[p].retired
      PROVE  now + 1 <= beat[p] + SafetyThreshold + k
  <2>1. PICK j \in calls[p] \cup spin[p] : k = j + 1
    BY DEF Tick, Older
  <2>2. now <= beat[p] + SafetyThreshold + j
    BY <1>2 DEF Timely, Live
  <2> QED BY <2>1, <2>2, TimesAre, Constants
<1> QED BY <1>1, <1>2 DEF Timely, Live

\* and the age of a row, which the wait for the clock or the answer measures.
LEMMA TickRows ==
    ASSUME TypeOK, NotAhead, Rows, Tick
    PROVE  Rows'
<1>1. now' = now + 1 /\ now \in Nat /\ UNCHANGED <<off, rows, loop, got, node>>
  BY TickTypes
<1>2. ASSUME NEW p \in Procs, loop[p] = "clock"
      PROVE  /\ got[p].token # 0 /\ rows[got[p].worker].token = got[p].token
             /\ now' + off'[p] <= rows[got[p].worker].updated + MaxSkew + 1 + wait'[p]
             /\ got[p].time <= rows[got[p].worker].updated + MaxSkew
  <2> DEFINE r == rows[got[p].worker]
  <2>1. /\ got[p].token # 0 /\ r.token = got[p].token
        /\ now + off[p] <= r.updated + MaxSkew + 1 + wait[p] /\ got[p].time <= r.updated + MaxSkew
    BY <1>2 DEF Rows, Waiting
  <2>2. r.updated \in Nat /\ wait[p] \in Nat /\ got[p].time \in Nat /\ MaxSkew \in Nat
        /\ off[p] \in Int /\ Clock(p) = now + off[p]
    BY Constants, TimesAre DEF TypeOK
  <2>3. wait'[p] = IF HasAnswer(p) THEN wait[p] + 1 ELSE 0
    BY DEF Tick
  <2>4. CASE Clock(p) > got[p].time
    <3>1. HasAnswer(p)
      BY <1>2, <2>4 DEF HasAnswer, Passed
    <3> HIDE DEF r
    <3>2. now + 1 + off[p] <= r.updated + MaxSkew + 1 + wait'[p]
      BY <1>1, <2>1, <2>2, <2>3, <3>1
    <3> QED BY <1>1, <2>1, <3>2 DEF r
  <2>5. CASE ~(Clock(p) > got[p].time)
    <3>1. wait'[p] \in Nat
      BY <2>2, <2>3
    <3> HIDE DEF r
    <3>2. now + 1 + off[p] <= r.updated + MaxSkew + 1 + wait'[p]
      BY <1>1, <2>1, <2>2, <2>5, <3>1, ClockIs
    <3> QED BY <1>1, <2>1, <3>2 DEF r
  <2> QED BY <2>4, <2>5
<1>3. ASSUME NEW p \in Procs, loop[p] = "beaten", got[p].ok
      PROVE  /\ rows[node[p].worker].token = node[p].token
             /\ now' <= rows[node[p].worker].updated + wait'[p]
  <2> DEFINE r == rows[node[p].worker]
  <2>1. r.token = node[p].token /\ now <= r.updated + wait[p]
    BY <1>3 DEF Rows, Renewed
  <2>2. r.updated \in Nat /\ wait[p] \in Nat
    BY DEF TypeOK
  <2>3. wait'[p] = wait[p] + 1
    BY <1>3 DEF Tick, HasAnswer
  <2> HIDE DEF r
  <2>4. now + 1 <= r.updated + wait'[p]
    BY <1>1, <2>1, <2>2, <2>3
  <2> QED BY <1>1, <2>1, <2>4 DEF r
<1> QED BY <1>1, <1>2, <1>3 DEF Rows, Waiting, Renewed

-------------------------------------------------------------------------------
(* The invariants *)

\* The variables start with their types,
LEMMA InitTypes ==
    ASSUME Init
    PROVE  TypeOK
<1>1. now \in Nat /\ now >= MaxBehind /\ off \in [Procs -> -MaxBehind..MaxSkew]
  <2>1. now = WorkerTimeout + MaxBehind + 1 /\ off \in [Procs -> Skews]
    BY DEF Init
  <2>2. WorkerTimeout \in Nat /\ MaxBehind \in Nat /\ Skews \subseteq -MaxBehind..MaxSkew
    BY Constants
  <2>3. off \in [Procs -> -MaxBehind..MaxSkew]
    BY <2>1, <2>2, Zenon
  <2> QED BY <2>1, <2>2, <2>3
<1>2. NoRow \in Row /\ Nothing \in Gots /\ NoNode \in Nodes /\ 0 \in 0..now
  <2>1. 0 \in 0..now /\ 0 \in 0..MaxTokens
    BY <1>1, Constants
  <2>2. NoRow \in Row
    BY <2>1 DEF Row, NoRow
  <2> QED BY <2>1, <2>2, ZeroTyped
<1>3. /\ 0 \in 0..MaxAnswer /\ 0 \in 0..MaxPause /\ 0 \in 0..MaxTokens
      /\ 0 \in 0..MaxFails /\ 0 \in 0..MaxSteps
  BY Constants
<1>4. /\ rows \in [Workers -> Row] /\ got \in [Procs -> Gots] /\ node \in [Procs -> Nodes]
      /\ beat \in [Procs -> 0..now]
  BY <1>2 DEF Init
<1>5. /\ state \in [Procs -> States] /\ loop \in [Procs -> Loops]
      /\ wait \in [Procs -> 0..MaxAnswer]
      /\ calls \in [Procs -> Ages] /\ spin \in [Procs -> Ages]
      /\ issued = {} /\ tokens = 0 /\ fails = 0 /\ steps = 0
  BY <1>3, ZeroTyped DEF Init, States, Loops
<1> QED BY <1>1, <1>3, <1>4, <1>5 DEF TypeOK, Row, Gots, Nodes, States, Loops, Ages

\* no lease,
LEMMA InitLease ==
    ASSUME Init
    PROVE  LeaseInv
<1>1. TypeOK
  BY InitTypes
<1>2. /\ now \in Nat /\ MaxSkew \in Nat /\ issued = {} /\ tokens = 0
      /\ \A w \in Workers : rows[w] = NoRow
      /\ \A p \in Procs : /\ node[p] = NoNode /\ got[p] = Nothing /\ loop[p] = "none"
                          /\ calls[p] = {} /\ spin[p] = {} /\ state[p] = "none"
  BY <1>1, Constants DEF Init, TypeOK
<1>3. NoRow.last = 0 /\ NoNode.ts = 0 /\ NoNode.token = 0 /\ Nothing.time = 0 /\ Nothing.token = 0
  BY DEF NoRow, NoNode, Nothing
<1>4. NoNode.retired
  BY DEF NoNode
<1>5. NotAhead
  BY <1>2, <1>3 DEF NotAhead
<1>6. Modes /\ Timely
  BY <1>2, <1>4 DEF Modes, Timely
<1>7. Known /\ Disjoint
  BY <1>2, <1>3 DEF Known, Disjoint, TokensOf
<1>8. Held /\ LeaseIDs
  BY <1>2, <1>4 DEF Held, LeaseIDs, Live
<1> QED BY <1>1, <1>5, <1>6, <1>7, <1>8 DEF LeaseInv

\* and no claim.
LEMMA InitAll ==
    ASSUME Init
    PROVE  IInv
<1>1. LeaseInv
  BY InitLease
<1>2. /\ issued = {} /\ tokens = 0 /\ \A w \in Workers : rows[w] = NoRow
      /\ \A p \in Procs : node[p] = NoNode /\ loop[p] = "none"
  BY DEF Init
<1>3. NoNode.retired
  BY DEF NoNode
<1>4. NoRow.token = 0
  BY DEF NoRow
<1>5. Claims = {}
  BY <1>2, <1>3 DEF Claims, Live
<1>6. \A f \in Floors : f.worker \in Workers /\ f.token = 0
  <2>1. \A f \in Floors : \E w \in Workers : f = RowFloor(w, rows[w])
    BY <1>2, <1>3 DEF Floors, Live
  <2> QED BY <1>2, <1>4, <2>1 DEF RowFloor
<1>7. Newest
  BY <1>2, <1>4, <1>5, <1>6 DEF Newest
<1>8. Rows /\ Ordered /\ Covered
  BY <1>2, <1>5 DEF Rows, Ordered, Covered
<1> QED BY <1>1, <1>7, <1>8 DEF IInv

\* Every step keeps what does not need the margin ...
LEMMA NextLease ==
    ASSUME LeaseInv, [Next]_vars
    PROVE  LeaseInv'
<1>1. CASE Tick
  BY <1>1, TickTypes, TickKeeps, TickTimely DEF LeaseInv
<1>2. ASSUME NEW p \in Procs, Step(p)
      PROVE  LeaseInv'
  BY <1>2, StepTypeOK, StepNotAhead, StepModes, StepTimely, StepTokens, StepHeld, StepLeaseIDs
     DEF LeaseInv
<1>3. CASE UNCHANGED vars
  BY <1>3 DEF vars, LeaseInv, TypeOK, NotAhead, Modes, Timely, Known, Disjoint, Held, LeaseIDs,
              TokensOf, Live, Clock
<1> QED BY <1>1, <1>2, <1>3 DEF Next

\* ... and, with the margin, the rest.
LEMMA NextAll ==
    ASSUME WideMargin, IInv, [Next]_vars
    PROVE  IInv'
<1>1. LeaseInv'
  BY NextLease DEF IInv
<1>2. CASE Tick
  BY <1>1, <1>2, TickKeeps, TickRows DEF IInv, LeaseInv
<1>3. ASSUME NEW p \in Procs, Step(p)
      PROVE  IInv'
  BY <1>1, <1>3, StepNewest, StepRows, StepOrdered, StepCovered DEF IInv, LeaseInv
<1>4. CASE UNCHANGED vars
  <2>1. Claims' = Claims /\ Floors' = Floors
    BY <1>4 DEF vars, Claims, Floors, Live
  <2>2. Newest' /\ Ordered' /\ Covered' /\ Rows'
    BY <1>4, <2>1 DEF vars, IInv, Newest, Ordered, Covered, Rows, Waiting, Renewed
  <2> QED BY <1>1, <2>2 DEF IInv
<1> QED BY <1>2, <1>3, <1>4 DEF Next

\* Whatever the timeouts are, the state machine of a lease is right: tokens are
\* not shared, and the node of a lease is at or past every id of its own
\* (allocateWorkerOnce, recoverLease, generate).
THEOREM LeasesHold == Spec => []LeaseInv
<1>1. Init => LeaseInv
  BY InitLease
<1>2. LeaseInv /\ [Next]_vars => LeaseInv'
  BY NextLease
<1> QED BY <1>1, <1>2, PTL DEF Spec

\* The variables keep their types; so no clock or timestamp of the model is
\* ever negative and no sequence leaves its bits.
THEOREM TypeCorrect == Spec => []TypeOK
<1>1. LeaseInv => TypeOK
  BY DEF LeaseInv
<1> QED BY <1>1, LeasesHold, PTL

\* What earlier leases of a worker hand out, or may still hand out, lies at or
\* below what its later leases start from (storage.go's barrier, waitForClock).
THEOREM LeasesInOrder ==
    ASSUME WideMargin
    PROVE  Spec => []IInv
<1>1. Init => IInv
  BY InitAll
<1>2. IInv /\ [Next]_vars => IInv'
  BY NextAll
<1> QED BY <1>1, <1>2, PTL DEF Spec

\* Two ids that are the same, neither of a clock set back, were handed out by
\* the same lease.
LEMMA SameIDSameLease ==
    ASSUME IInv
    PROVE  UniqueIDs
<1> SUFFICES ASSUME NEW x \in issued, NEW y \in issued, SameID(x, y), ~x.replay, ~y.replay
             PROVE  x = y
  BY DEF UniqueIDs
<1>1. x \in IDs /\ y \in IDs
  BY DEF IInv, LeaseInv, TypeOK, IDs
<1>2. x.ts \in Nat /\ x.token \in Nat /\ y.token \in Nat
  BY <1>1, Constants DEF IDs
<1>3. x.ts = y.ts /\ x.worker = y.worker /\ x.seq = y.seq
  BY DEF SameID
<1>4. ASSUME NEW a \in issued, NEW b \in issued, SameID(a, b), ~b.replay, a.ts \in Nat
      PROVE  ~(a.token < b.token)
  <2>1. IdClaim(a) \in Claims /\ IdFloor(b) \in Floors
    BY <1>4, IdClaimIn, IdFloorIn
  <2>2. Behind(IdClaim(a), IdFloor(b))
    BY <2>1 DEF IInv, Ordered
  <2>3. a.worker = b.worker /\ a.token < b.token => a.ts <= b.ts - 1
    BY <2>2 DEF Behind, IdClaim, IdFloor
  <2> QED BY <1>4, <2>3 DEF SameID
<1>5. ~(x.token < y.token) /\ ~(y.token < x.token)
  BY <1>2, <1>3, <1>4 DEF SameID
<1>6. x.token = y.token
  BY <1>2, <1>5
<1>7. x.replay = FALSE /\ y.replay = FALSE
  BY <1>1, Zenon DEF IDs
<1> QED BY <1>1, <1>3, <1>6, <1>7 DEF IDs

\* The row of a worker is past every id of its former holders.
LEMMA RowPastFormerIDs ==
    ASSUME IInv
    PROVE  BarrierCoversFormerIDs
<1> SUFFICES ASSUME NEW x \in issued, x.token # rows[x.worker].token
             PROVE  x.ts <= rows[x.worker].last
  BY DEF BarrierCoversFormerIDs
<1>1. x.worker \in Workers /\ x.token \in Nat /\ rows[x.worker].token \in Nat
  <2>1. x.worker \in Workers /\ x.token \in Nat
    BY Constants DEF IInv, LeaseInv, TypeOK
  <2> QED BY <2>1 DEF IInv, LeaseInv, TypeOK
<1>2. IdClaim(x) \in Claims /\ RowFloor(x.worker, rows[x.worker]) \in Floors
  BY <1>1, IdClaimIn, RowFloorIn
<1>3. x.token <= rows[x.worker].token
  BY <1>2 DEF IInv, Newest, IdClaim
<1>4. Behind(IdClaim(x), RowFloor(x.worker, rows[x.worker]))
  BY <1>2 DEF IInv, Ordered
<1> QED BY <1>1, <1>3, <1>4 DEF Behind, IdClaim, RowFloor

\* The next id of a lease lies past the node's time and sequence.
LEMMA GeneratesIs ==
    ASSUME TypeOK, Modes, NEW p \in Procs, NEW seq \in 0..MaxSequence, Generates(p, Clock(p), seq)
    PROVE  /\ Clock(p) > node[p].ts \/ (Clock(p) = node[p].ts /\ seq > node[p].seq)
           /\ issued' = issued \cup {Id(p, Clock(p), seq)}
<1>1. Clock(p) \in Nat /\ node[p].ts \in Nat
  BY ClockIs DEF TypeOK
<1>2. /\ spin'[p] = {} /\ ~node[p].retired /\ node'[p].ts = Clock(p) /\ node'[p].seq = seq
      /\ issued' = issued \cup {Id(p, Clock(p), seq)}
  <2>1. HandOut(p, Clock(p), seq) /\ spin'[p] = {} /\ ~node[p].retired /\ node \in [Procs -> Nodes]
    BY Types DEF Generates
  <2> QED BY <1>1, <2>1, HandOutIs
<1>3. CASE \E s \in 0..MaxSequence : Hands(p, s)
  <2>1. PICK s \in 0..MaxSequence : Hands(p, s)
    BY <1>3
  <2>2. s = seq
    BY <1>2, <2>1, HandsIs
  <2> QED BY <1>2, <2>1, <2>2 DEF Hands
<1>4. CASE node' = node /\ (spin'[p] = {} => node[p].retired \/ Backwards(p))
  BY <1>1, <1>2, <1>4 DEF Generates, Backwards
<1> QED BY <1>3, <1>4, GenerateHands DEF Generates

\* So it is none of the ids of the lease.
LEMMA StepFresh ==
    ASSUME LeaseInv, NEW p \in Procs, NEW seq \in 0..MaxSequence, Generates(p, Clock(p), seq),
           NEW x \in issued, x.token = node[p].token
    PROVE  ~(x.ts = Clock(p) /\ x.seq = seq)
<1>1. Clock(p) > node[p].ts \/ (Clock(p) = node[p].ts /\ seq > node[p].seq)
  BY GeneratesIs DEF LeaseInv
<1>2. UpTo(x, node[p])
  BY DEF LeaseInv, LeaseIDs
<1>3. x.ts \in Nat /\ x.seq \in Int /\ node[p].ts \in Nat /\ node[p].seq \in Int /\ seq \in Int
      /\ Clock(p) \in Nat
  BY ClockIs, Constants DEF LeaseInv, TypeOK
<1> QED BY <1>1, <1>2, <1>3 DEF UpTo

\* And none of another lease, since the new id is unique like the others.
LEMMA StepNeverTwice ==
    ASSUME LeaseInv, UniqueIDs', NEW p \in Procs, NEW seq \in 0..MaxSequence,
           Generates(p, Clock(p), seq), Clock(p) >= node[p].start, NEW x \in issued, ~x.replay
    PROVE  ~(x.ts = Clock(p) /\ x.worker = node[p].worker /\ x.seq = seq)
<1> DEFINE y == Id(p, Clock(p), seq)
<1>1. issued' = issued \cup {y}
  BY GeneratesIs DEF LeaseInv
<1>2. Clock(p) \in Nat /\ node[p].start \in Nat
  BY ClockIs DEF LeaseInv, TypeOK
<1>3. y.ts = Clock(p) /\ y.worker = node[p].worker /\ y.seq = seq /\ y.token = node[p].token
  BY DEF Id
<1>4. y.replay = (Clock(p) < node[p].start)
  BY DEF Id
<1>5. ~(Clock(p) < node[p].start)
  BY <1>2
<1>6. ~y.replay
  BY <1>4, <1>5
<1> HIDE DEF y
<1>7. x.ts = y.ts /\ x.worker = y.worker /\ x.seq = y.seq => x = y
  BY <1>1, <1>6 DEF UniqueIDs, SameID
<1>8. x.token = node[p].token => ~(x.ts = Clock(p) /\ x.seq = seq)
  BY StepFresh
<1> QED BY <1>3, <1>7, <1>8

\* No two leases hand out the same id (the package's promise), if the worker
\* timeout leaves the margin that WideMargin names.
THEOREM IDsAreUnique ==
    ASSUME WideMargin
    PROVE  Spec => []UniqueIDs
<1>1. IInv => UniqueIDs
  BY SameIDSameLease
<1> QED BY <1>1, LeasesInOrder, PTL

\* Every id of a former holder of a worker lies at or below the worker's
\* last_timestamp, so a barrier taken from the row is past it.
THEOREM BarrierCovered ==
    ASSUME WideMargin
    PROVE  Spec => []BarrierCoversFormerIDs
<1>1. IInv => BarrierCoversFormerIDs
  BY RowPastFormerIDs
<1> QED BY <1>1, LeasesInOrder, PTL

\* A lease never hands out an id a second time: generate under the node's mu,
\* whatever the clock does and whatever the timeouts are.
THEOREM IDsAreFresh == Spec => FreshIDs
<1>1. LeaseInv /\ [Next]_vars => [\A p \in Procs, seq \in 0..MaxSequence :
        Generates(p, Clock(p), seq) =>
          \A x \in issued : ~(x.token = node[p].token /\ x.ts = Clock(p) /\ x.seq = seq)]_vars
  BY StepFresh
<1> QED BY <1>1, LeasesHold, PTL DEF Spec, FreshIDs

\* An id is never handed out again by any lease, unless a clock was set back
\* below where its lease started.
THEOREM IDsAreNeverReused ==
    ASSUME WideMargin
    PROVE  Spec => NeverTwice
<1>1. IInv /\ UniqueIDs' /\ [Next]_vars => [\A p \in Procs, seq \in 0..MaxSequence :
        Generates(p, Clock(p), seq) /\ Clock(p) >= node[p].start =>
          \A x \in issued :
            ~(x.ts = Clock(p) /\ x.worker = node[p].worker /\ x.seq = seq /\ ~x.replay)]_vars
  BY StepNeverTwice DEF IInv
<1> QED BY <1>1, LeasesInOrder, IDsAreUnique, PTL DEF Spec, NeverTwice

===============================================================================
