-------------------------- MODULE OutboxRuntimeProofs --------------------------
(***************************************************************************)
(* Proofs about OutboxRuntime for any number of workers and callers, any   *)
(* batch size and any bounds on ids, shards and calls.                     *)
(***************************************************************************)
EXTENDS OutboxRuntime, FiniteSetTheorems, TLAPS

(***************************************************************************)
(* The parts of the inductive invariant.                                   *)
(***************************************************************************)

\* Where a reserver may be.
PCs(p) == IF p = Scanner THEN {"select", "query", "reserve", "claim", "push", "exited"}
          ELSE IF p \in ScanCallers THEN {"query", "reserve", "claim", "run", "out"}
          ELSE {"reserve", "claim", "run", "notify", "call", "callback", "commit", "committed", "out"}

\* Slots are reserved at the claim only, for no more than what is left to claim
\* (and of a ready shard); tasks are held where they are queued or run.
Local(p, at, h, m, l, r) ==
    /\ at \in PCs(p)
    /\ at = "claim" => h \in 1..l /\ (p \notin Dispatchers => r > 0)
    /\ at # "claim" => h = 0
    /\ at \notin {"push", "run"} => m = 0
ReserversOK == \A p \in Reservers : Local(p, pc[p], held[p], mine[p], left[p], ready[p])

\* A Tx past its callback is closed and not doomed; one that is not doomed has
\* returned an id for each row; outside a transaction there is none.
TxLocal(at, t) ==
    /\ t.refused => t.err
    /\ ~t.err => t.rows = t.ids
    /\ at \in {"commit", "committed"} => t.closed /\ ~t.err
    /\ at \notin {"callback", "commit", "committed"} => t = NoTx
TxConsistent == \A d \in Dispatchers : TxLocal(pc[d], tx[d])

\* The loop closes the jobs channel when it ends, and workers end once it is
\* closed and empty; after the release nobody is left.
EndsInOrder ==
    /\ ~jobsOpen => pc[Scanner] = "exited"
    /\ \A w \in Workers : worker[w] = "exited" => ~jobsOpen /\ jobs = 0
    /\ released => /\ closed /\ pc[Scanner] = "exited"
                   /\ \A w \in Workers : worker[w] = "exited"
                   /\ \A c \in Callers : pc[c] = "out"

\* While the loop sleeps after a scan that found no slot, somebody who will wake
\* it is at work, or has; the next scan forgets how that one ended.
WakerAtWork ==
    /\ pc[Scanner] = "select" /\ starved = "yes" => wake \/ Waker
    /\ pc[Scanner] \notin {"select", "exited"} => starved = "no"

IInv == /\ TypeOK /\ ReserversOK /\ TxConsistent /\ SlotsAccounted /\ EndsInOrder /\ WakerAtWork

-------------------------------------------------------------------------------
(* Facts about slots. *)

\* Workers and reservers are finitely many.
LEMMA Finite ==
    /\ WorkerCount \in Nat /\ WorkerCount > 0 /\ IsFiniteSet(Reservers)
    /\ Callers \subseteq Reservers /\ Scanner \in Reservers /\ Dispatchers \subseteq Callers
    /\ ScanCallers \subseteq Callers /\ Scanner \notin Callers
    /\ IsFiniteSet(Executing) /\ Cardinality(Executing) \in Nat
<1>1. WorkerCount \in Nat /\ WorkerCount > 0
  BY RuntimeAssumption, FS_CardinalityType, FS_EmptySet DEF WorkerCount
<1>2. IsFiniteSet(Dispatchers \cup ScanCallers)
  BY RuntimeAssumption, FS_Union
<1>3. IsFiniteSet({Scanner})
  BY FS_Singleton
<1>4. IsFiniteSet(Reservers)
  BY <1>2, <1>3, FS_Union DEF Reservers, Callers
<1>5. IsFiniteSet(Executing) /\ Cardinality(Executing) \in Nat
  BY RuntimeAssumption, FS_Subset, FS_CardinalityType DEF Executing
<1> QED BY <1>1, <1>4, <1>5, RuntimeAssumption DEF Reservers, Callers, Scanner

\* The pairs that stand for the slots in f.
Pairs(f) == {s \in Reservers \X (1..WorkerCount) : s[2] <= f[s[1]]}

\* One reserver's slots, apart from those of the others.
LEMMA PairsSplit ==
    ASSUME NEW f \in [Reservers -> 0..WorkerCount], NEW p \in Reservers
    PROVE  /\ IsFiniteSet(Pairs(f)) /\ Cardinality({s \in Pairs(f) : s[1] # p}) \in Nat
           /\ Cardinality(Pairs(f)) = Cardinality({s \in Pairs(f) : s[1] # p}) + f[p]
<1> DEFINE others == {s \in Pairs(f) : s[1] # p}
           own == {p} \X (1..f[p])
<1>1. f[p] \in 0..WorkerCount /\ WorkerCount \in Nat
  BY Finite
<1>2. IsFiniteSet(Reservers \X (1..WorkerCount))
  <2>1. IsFiniteSet(1..WorkerCount)
    BY <1>1, FS_Interval
  <2> QED BY <2>1, Finite, FS_Product
<1>3. IsFiniteSet(Pairs(f)) /\ IsFiniteSet(others)
  <2>1. Pairs(f) \subseteq Reservers \X (1..WorkerCount)
    BY DEF Pairs
  <2>2. IsFiniteSet(Pairs(f))
    BY <1>2, <2>1, FS_Subset
  <2> QED BY <2>2, FS_Subset
<1>4. IsFiniteSet(own) /\ Cardinality(own) = f[p]
  <2>1. IsFiniteSet(1..f[p]) /\ Cardinality(1..f[p]) = f[p]
    BY <1>1, FS_Interval
  <2>2. IsFiniteSet({p}) /\ Cardinality({p}) = 1
    BY FS_Singleton
  <2>3. IsFiniteSet(own) /\ Cardinality(own) = Cardinality({p}) * Cardinality(1..f[p])
    BY <2>1, <2>2, FS_Product
  <2> QED BY <1>1, <2>1, <2>2, <2>3
<1>5. Pairs(f) = others \cup own /\ others \cap own = {}
  BY <1>1 DEF Pairs
<1>6. Cardinality(others) \in Nat /\ Cardinality({}) = 0
  BY <1>3, FS_CardinalityType, FS_EmptySet
<1>7. Cardinality(others \cup own) = Cardinality(others) + Cardinality(own) - Cardinality(others \cap own)
  BY <1>3, <1>4, FS_Union
<1> HIDE DEF others, own
<1>8. Cardinality(Pairs(f)) = Cardinality(others) + f[p]
  <2>1. Cardinality(others \cup own) = Cardinality(Pairs(f)) /\ Cardinality(others \cap own) = 0
    BY <1>5, <1>6
  <2>2. f[p] \in Nat /\ Cardinality(own) = f[p]
    BY <1>1, <1>4
  <2> QED BY <1>6, <1>7, <2>1, <2>2
<1> QED BY <1>3, <1>6, <1>8 DEF others

\* Slots that one reserver takes or gives back are the difference.
LEMMA PairsChange ==
    ASSUME NEW f \in [Reservers -> 0..WorkerCount], NEW g \in [Reservers -> 0..WorkerCount],
           NEW p \in Reservers, \A q \in Reservers : q # p => g[q] = f[q]
    PROVE  /\ Cardinality(Pairs(f)) \in Nat /\ Cardinality(Pairs(g)) \in Nat
           /\ f[p] <= Cardinality(Pairs(f))
           /\ Cardinality(Pairs(g)) = Cardinality(Pairs(f)) - f[p] + g[p]
<1>1. {s \in Pairs(f) : s[1] # p} = {s \in Pairs(g) : s[1] # p}
  BY DEF Pairs
<1>2. f[p] \in Nat /\ g[p] \in Nat
  BY Finite
<1> DEFINE others == {s \in Pairs(f) : s[1] # p}
<1>3. /\ Cardinality(others) \in Nat /\ Cardinality(Pairs(f)) = Cardinality(others) + f[p]
      /\ Cardinality(Pairs(g)) = Cardinality(others) + g[p]
  BY <1>1, PairsSplit
<1> HIDE DEF others
<1> QED BY <1>2, <1>3

\* The slots of claims are such pairs.
LEMMA ClaimsType ==
    ASSUME TypeOK, ReserversOK
    PROVE  /\ Claims \in [Reservers -> 0..WorkerCount] /\ ClaimSlots = Pairs(Claims)
           /\ \A p \in Reservers : Claims[p] = held[p] + mine[p]
<1>1. \A p \in Reservers : /\ held[p] \in 0..WorkerCount /\ mine[p] \in 0..WorkerCount
                           /\ held[p] = 0 \/ mine[p] = 0
  <2>1. \A p \in Reservers : held[p] \in 0..WorkerCount /\ mine[p] \in 0..WorkerCount
    BY DEF TypeOK
  <2>2. \A p \in Reservers : held[p] = 0 \/ mine[p] = 0
    BY DEF ReserversOK, Local
  <2> QED BY <2>1, <2>2
<1>2. \A p \in Reservers : held[p] + mine[p] \in 0..WorkerCount
  BY <1>1, Finite
<1> QED BY <1>2 DEF Claims, ClaimSlots, Pairs

\* What a Tx may be.
Txs == [rows : 0..MaxIDs, ids : 0..MaxIDs, err : BOOLEAN, closed : BOOLEAN, refused : BOOLEAN]

\* A fresh one.
LEMMA NoTxOK ==
    /\ NoTx \in Txs /\ NoTx.rows = NoTx.ids /\ ~NoTx.refused /\ ~NoTx.err
    /\ \A at \in {"select", "query", "reserve", "claim", "push", "run", "notify", "call",
                  "callback", "out", "exited"} : TxLocal(at, NoTx)
<1>1. 0 \in 0..MaxIDs
  BY RuntimeAssumption
<1> QED BY <1>1 DEF NoTx, Txs, TxLocal

\* The pcs of all reservers.
LEMMA PCsType ==
    ASSUME NEW p, NEW at \in PCs(p)
    PROVE  at \in {"select", "query", "reserve", "claim", "push", "run",
                  "notify", "call", "callback", "commit", "committed", "out", "exited"}
BY DEF PCs

\* The invariant holds initially.
LEMMA InitInv == Init => IInv
<1> SUFFICES ASSUME Init PROVE IInv
  OBVIOUS
<1>1. TypeOK
  <2>1. 0 \in 0..WorkerCount /\ 0 \in 0..MaxReady /\ 0 \in 0..MaxCalls
    BY Finite, RuntimeAssumption
  <2>2. tx \in [Dispatchers -> Txs]
    BY NoTxOK DEF Init
  <2> QED BY <2>1, <2>2 DEF Init, TypeOK, Txs
<1>2. ReserversOK
  BY RuntimeAssumption, Finite DEF Init, ReserversOK, Local, PCs, Reservers, Callers
<1>3. TxConsistent
  BY Finite, NoTxOK DEF Init, TxConsistent
<1>4. SlotsAccounted
  <2>1. ClaimSlots = {} /\ Executing = {}
    BY Finite DEF Init, ClaimSlots, Claims, Executing
  <2> QED BY <2>1, FS_EmptySet DEF Init, SlotsAccounted
<1>5. EndsInOrder /\ WakerAtWork
  BY Finite DEF Init, EndsInOrder, WakerAtWork
<1> QED BY <1>1, <1>2, <1>3, <1>4, <1>5 DEF IInv

-------------------------------------------------------------------------------
(* The shapes of the steps. *)

(***************************************************************************)
(* A step of one reserver that is not out: its place, its slots and its    *)
(* counters change, the slots channel by what it took or gave back.        *)
(***************************************************************************)
LEMMA ReserverInv ==
    ASSUME IInv, NEW p \in Reservers, NEW at, NEW h \in 0..WorkerCount, NEW m \in 0..WorkerCount,
           NEW l \in Nat, NEW r \in 0..MaxReady, Local(p, at, h, m, l, r),
           pc' = [pc EXCEPT ![p] = at], held' = [held EXCEPT ![p] = h],
           mine' = [mine EXCEPT ![p] = m], left' = [left EXCEPT ![p] = l],
           ready' = [ready EXCEPT ![p] = r],
           pc[p] # "exited", pc[p] # "out" \/ ~closed,
           slots' = slots - (held[p] + mine[p]) + (h + m), slots' <= WorkerCount,
           wake' \in BOOLEAN, called' \in 0..MaxCalls, starved' \in {"no", "yes", "manual"},
           UNCHANGED <<jobs, jobsOpen, worker, scn, coord, done, closed, released>>,
           tx' \in [Dispatchers -> Txs], TxConsistent', WakerAtWork'
    PROVE  IInv'
<1>0. /\ TypeOK /\ ReserversOK /\ SlotsAccounted /\ EndsInOrder
      /\ pc \in [Reservers -> {"select", "query", "reserve", "claim", "push", "run",
                 "notify", "call", "callback", "commit", "committed", "out", "exited"}]
      /\ held \in [Reservers -> 0..WorkerCount] /\ mine \in [Reservers -> 0..WorkerCount]
      /\ left \in [Reservers -> Nat] /\ ready \in [Reservers -> 0..MaxReady]
      /\ slots \in 0..WorkerCount /\ jobs \in 0..WorkerCount
  BY DEF IInv, TypeOK
<1>1. ReserversOK'
  BY <1>0 DEF ReserversOK
<1>2. Claims' \in [Reservers -> 0..WorkerCount] /\ ClaimSlots' = Pairs(Claims')
      /\ Claims'[p] = h + m /\ \A q \in Reservers : q # p => Claims'[q] = Claims[q]
  <2>1. \A q \in Reservers : Claims'[q] = IF q = p THEN h + m ELSE Claims[q]
    BY <1>0 DEF Claims
  <2>2. h + m \in 0..WorkerCount
    BY Finite DEF Local
  <2>3. Claims' = [q \in Reservers |-> held'[q] + mine'[q]] /\ ClaimSlots' = Pairs(Claims')
    BY DEF Claims, ClaimSlots, Pairs
  <2> QED BY <1>0, <2>1, <2>2, <2>3, ClaimsType
<1>3. /\ Cardinality(Pairs(Claims)) \in Nat /\ Cardinality(Pairs(Claims')) \in Nat
      /\ Claims[p] <= Cardinality(Pairs(Claims))
      /\ Cardinality(Pairs(Claims')) = Cardinality(Pairs(Claims)) - Claims[p] + (h + m)
  BY <1>0, <1>2, ClaimsType, PairsChange
<1>4. Claims[p] = held[p] + mine[p] /\ ClaimSlots = Pairs(Claims) /\ Executing' = Executing
      /\ held[p] \in Nat /\ mine[p] \in Nat
  BY <1>0, ClaimsType, Finite DEF Executing
<1>5. SlotsAccounted'
  BY <1>0, <1>2, <1>3, <1>4, Finite DEF SlotsAccounted
<1>6. slots' \in 0..WorkerCount
  BY <1>0, <1>3, <1>4, Finite DEF SlotsAccounted
<1>7. at \in {"select", "query", "reserve", "claim", "push", "run",
             "notify", "call", "callback", "commit", "committed", "out", "exited"}
  BY PCsType DEF Local
<1>8. TypeOK'
  BY <1>0, <1>6, <1>7 DEF TypeOK, Txs
<1>9. EndsInOrder'
  <2>1. ~released
    BY <1>0 DEF EndsInOrder, Reservers
  <2> QED BY <1>0, <2>1, Finite DEF EndsInOrder
<1> QED BY <1>1, <1>5, <1>8, <1>9 DEF IInv

\* Who was to wake the loop still is, if a caller that was has not left unless it
\* woke it.
LEMMA WakerKept ==
    ASSUME IInv, NEW p \in Callers, NEW at, pc' = [pc EXCEPT ![p] = at],
           UNCHANGED <<jobs, worker, starved>>, wake => wake',
           p \in Dispatchers /\ pc[p] \in {"reserve", "claim", "run", "notify"} =>
             at \in {"reserve", "claim", "run", "notify"} \/ wake'
    PROVE  WakerAtWork'
<1>1. pc \in [Reservers -> {"select", "query", "reserve", "claim", "push", "run",
                 "notify", "call", "callback", "commit", "committed", "out", "exited"}]
      /\ WakerAtWork
  BY DEF IInv, TypeOK
<1>2. p \in Reservers /\ Scanner \in Reservers /\ p # Scanner /\ Dispatchers \subseteq Reservers
  BY Finite
<1>3. pc'[Scanner] = pc[Scanner] /\ pc'[p] = at /\ \A q \in Reservers : q # p => pc'[q] = pc[q]
  BY <1>1, <1>2
<1>4. Waker => Waker' \/ wake'
  BY <1>2, <1>3 DEF Waker
<1> QED BY <1>1, <1>3, <1>4 DEF WakerAtWork

\* A reserver that keeps its Tx and is in no transaction before or after.
LEMMA TxKept ==
    ASSUME IInv, NEW p \in Reservers, NEW at, pc' = [pc EXCEPT ![p] = at], tx' = tx,
           at \notin {"commit", "committed"},
           p \in Dispatchers => pc[p] \notin {"callback", "commit", "committed"}
    PROVE  tx' \in [Dispatchers -> Txs] /\ TxConsistent'
<1>1. /\ pc \in [Reservers -> {"select", "query", "reserve", "claim", "push", "run",
                 "notify", "call", "callback", "commit", "committed", "out", "exited"}]
      /\ tx \in [Dispatchers -> Txs] /\ TxConsistent /\ Dispatchers \subseteq Reservers
  BY Finite DEF IInv, TypeOK, Txs
<1>2. \A d \in Dispatchers : TxLocal(pc'[d], tx[d])
  BY <1>1 DEF TxConsistent, TxLocal
<1> QED BY <1>1, <1>2 DEF TxConsistent

\* What is known of one reserver, and that leaving a variable alone is setting
\* its own entry to what it is.
LEMMA Here ==
    ASSUME IInv, NEW p \in Reservers
    PROVE  /\ held[p] \in 0..WorkerCount /\ mine[p] \in 0..WorkerCount /\ left[p] \in Nat
           /\ ready[p] \in 0..MaxReady /\ slots \in 0..WorkerCount /\ wake \in BOOLEAN
           /\ called \in 0..MaxCalls /\ starved \in {"no", "yes", "manual"}
           /\ Local(p, pc[p], held[p], mine[p], left[p], ready[p])
           /\ held = [held EXCEPT ![p] = held[p]] /\ mine = [mine EXCEPT ![p] = mine[p]]
           /\ left = [left EXCEPT ![p] = left[p]] /\ ready = [ready EXCEPT ![p] = ready[p]]
           /\ pc = [pc EXCEPT ![p] = pc[p]]
           /\ MaxReady \in Nat /\ 0 \in 0..MaxReady /\ WorkerCount \in Nat
           /\ 0 \in 0..WorkerCount
<1>1. MaxReady \in Nat /\ 0 \in 0..MaxReady /\ WorkerCount \in Nat /\ 0 \in 0..WorkerCount
  BY RuntimeAssumption, Finite
<1>2. Local(p, pc[p], held[p], mine[p], left[p], ready[p])
  BY DEF IInv, ReserversOK
<1> QED BY <1>1, <1>2 DEF IInv, TypeOK

\* Nothing changes for those who wait to be woken, or to wake.
LEMMA WakerSame ==
    ASSUME IInv, NEW p \in Reservers, NEW at, pc' = [pc EXCEPT ![p] = at],
           UNCHANGED <<jobs, worker, starved, wake>>,
           p = Scanner => pc[p] \notin {"select", "exited"},
           p \in Dispatchers /\ pc[p] \in {"reserve", "claim", "run", "notify"} =>
             at \in {"reserve", "claim", "run", "notify"}
    PROVE  WakerAtWork'
<1>1. CASE p = Scanner
  <2>1. starved = "no"
    BY <1>1 DEF IInv, WakerAtWork
  <2> QED BY <2>1 DEF WakerAtWork
<1>2. CASE p \in Callers
  BY <1>2, WakerKept
<1> QED BY <1>1, <1>2 DEF Reservers

-------------------------------------------------------------------------------
(* The steps of a scan. *)

\* A scan ends without slots of its own.
LEMMA ScanEndsInv ==
    ASSUME IInv, NEW p \in Reservers, p \notin Dispatchers, pc[p] \in {"query", "reserve"},
           ScanEnds(p), starved' \in {"no", "yes", "manual"}, WakerAtWork',
           UNCHANGED <<slots, jobs, jobsOpen, wake, worker, held, mine, tx, life>>
    PROVE  IInv'
<1> DEFINE at == IF p = Scanner THEN "select" ELSE "out"
<1>1. /\ held[p] = 0 /\ mine[p] = 0
  BY Here DEF Local
<1>2. Local(p, at, 0, 0, 0, 0)
  BY Finite DEF Local, PCs, Reservers, Callers
<1>3. pc' = [pc EXCEPT ![p] = at] /\ left' = [left EXCEPT ![p] = 0] /\ ready' = [ready EXCEPT ![p] = 0]
  BY DEF ScanEnds
<1>4. at \notin {"commit", "committed"}
  OBVIOUS
<1> HIDE DEF at
<1>5. tx' \in [Dispatchers -> Txs] /\ TxConsistent'
  BY <1>3, <1>4, TxKept
<1>6. held' = [held EXCEPT ![p] = 0] /\ mine' = [mine EXCEPT ![p] = 0]
  BY <1>1, Here
<1>7. slots' = slots - (held[p] + mine[p]) + (0 + 0) /\ slots' <= WorkerCount
  BY <1>1, Here
<1>8. /\ wake' \in BOOLEAN /\ called' \in 0..MaxCalls /\ 0 \in 0..WorkerCount /\ 0 \in 0..MaxReady
      /\ UNCHANGED <<jobs, jobsOpen, worker, scn, coord, done, closed, released>>
      /\ pc[p] # "exited" /\ pc[p] # "out"
  BY Here DEF life
<1> QED BY <1>2, <1>3, <1>5, <1>6, <1>7, <1>8, ReserverInv

\* The query of ready shards.
LEMMA QueryInv == ASSUME IInv, NEW p \in Reservers, Query(p) PROVE IInv'
<1>0. /\ pc[p] = "query" /\ p \notin Dispatchers /\ held[p] = 0 /\ mine[p] = 0
      /\ UNCHANGED <<slots, jobs, jobsOpen, wake, worker, held, mine, tx, starved, life>>
  BY Here, RuntimeAssumption DEF Query, Local, PCs, chans, Scanner
<1>1. CASE ScanEnds(p)
  <2>1. WakerAtWork'
    BY <1>0, <1>1, WakerSame DEF ScanEnds
  <2> QED BY <1>0, <1>1, <2>1, Here, ScanEndsInv
<1>2. ASSUME NEW n \in 1..MaxReady, ready' = [ready EXCEPT ![p] = n],
             left' = [left EXCEPT ![p] = BatchSize], pc' = [pc EXCEPT ![p] = "reserve"]
      PROVE  IInv'
  <2>1. WakerAtWork' /\ tx' \in [Dispatchers -> Txs] /\ TxConsistent'
    BY <1>0, <1>2, WakerSame, TxKept
  <2>2. Local(p, "reserve", 0, 0, BatchSize, n)
    BY DEF Local, PCs
  <2>3. held' = [held EXCEPT ![p] = 0] /\ mine' = [mine EXCEPT ![p] = 0]
    BY <1>0, Here
  <2>4. slots' = slots - (held[p] + mine[p]) + (0 + 0) /\ slots' <= WorkerCount
    BY <1>0, Here
  <2>5. BatchSize \in Nat /\ n \in 0..MaxReady
    BY RuntimeAssumption
  <2>6. /\ wake' \in BOOLEAN /\ called' \in 0..MaxCalls /\ 0 \in 0..WorkerCount
        /\ UNCHANGED <<jobs, jobsOpen, worker, scn, coord, done, closed, released>>
        /\ starved' \in {"no", "yes", "manual"}
    BY <1>0, Here DEF life
  <2> QED BY <1>0, <1>2, <2>1, <2>2, <2>3, <2>4, <2>5, <2>6, ReserverInv
<1> QED BY <1>1, <1>2 DEF Query

\* Slots are taken for a claim.
LEMMA TakeInv ==
    ASSUME IInv, NEW p \in Reservers, pc[p] = "reserve",
           NEW limit \in Nat, limit <= left[p], p \notin Dispatchers => ready[p] > 0,
           TakeSlots(p, limit),
           UNCHANGED <<jobs, jobsOpen, wake, worker, mine, left, ready, tx, starved, life>>
    PROVE  IInv'
<1>1. PICK n \in 1..Smaller(limit, FreeSlots) :
         slots' = slots + n /\ held' = [held EXCEPT ![p] = n] /\ pc' = [pc EXCEPT ![p] = "claim"]
  BY DEF TakeSlots
<1>2. held[p] = 0 /\ mine[p] = 0
  BY Here DEF Local
<1>3. n \in 1..left[p] /\ slots + n <= WorkerCount /\ n \in 0..WorkerCount
  BY Here DEF Smaller, FreeSlots
<1>4. Local(p, "claim", n, 0, left[p], ready[p])
  BY <1>3 DEF Local, PCs
<1>5. WakerAtWork' /\ tx' \in [Dispatchers -> Txs] /\ TxConsistent'
  BY <1>1, WakerSame, TxKept
<1>6. mine' = [mine EXCEPT ![p] = 0] /\ slots' = slots - (held[p] + mine[p]) + (n + 0)
      /\ left' = [left EXCEPT ![p] = left[p]] /\ ready' = [ready EXCEPT ![p] = ready[p]]
  BY <1>1, <1>2, Here
<1>7. /\ wake' \in BOOLEAN /\ called' \in 0..MaxCalls /\ 0 \in 0..WorkerCount
      /\ UNCHANGED <<jobs, jobsOpen, worker, scn, coord, done, closed, released>>
      /\ starved' \in {"no", "yes", "manual"} /\ left[p] \in Nat /\ ready[p] \in 0..MaxReady
      /\ slots' <= WorkerCount /\ pc[p] # "exited" /\ pc[p] # "out"
  BY <1>1, <1>3, Here DEF life
<1> QED BY <1>1, <1>3, <1>4, <1>5, <1>6, <1>7, ReserverInv

\* When all slots are taken, and none by a ScanOnce, somebody at work will wake
\* the loop.
LEMMA BusyIsWaker ==
    ASSUME IInv, FreeSlots = 0, pc[Scanner] = "reserve",
           \A c \in ScanCallers : held[c] + mine[c] = 0
    PROVE  Waker
<1>1. slots = WorkerCount /\ WorkerCount > 0 /\ Cardinality(Executing) \in Nat /\ jobs \in Nat
      /\ TypeOK /\ ReserversOK
  BY Finite DEF IInv, TypeOK, FreeSlots
<1>2. CASE Executing # {} \/ jobs > 0
  BY <1>2 DEF Waker, Executing
<1>3. CASE Executing = {} /\ jobs = 0
  <2>1. Cardinality(ClaimSlots) = slots
    <3>1. Cardinality(Executing) = 0 /\ Scanner \in Reservers
      BY <1>3, FS_EmptySet, Finite
    <3>2. Cardinality(ClaimSlots) \in Nat
      BY <1>1, <3>1, ClaimsType, PairsChange
    <3> QED BY <1>1, <1>3, <3>1, <3>2 DEF IInv, SlotsAccounted
  <2>2. ClaimSlots # {}
    <3>1. Cardinality({}) = 0
      BY FS_EmptySet
    <3> QED BY <1>1, <2>1, <3>1, Finite
  <2>3. PICK s \in Reservers \X (1..WorkerCount) : s[2] <= Claims[s[1]]
    BY <2>2 DEF ClaimSlots
  <2>4. s[1] \in Reservers /\ held[s[1]] + mine[s[1]] > 0
    BY <1>1, <2>3, ClaimsType, Finite
  <2>5. pc[s[1]] \in {"claim", "push", "run"} /\ pc[s[1]] \in PCs(s[1])
    BY <2>4, Here DEF Local
  <2>6. s[1] \in Dispatchers
    BY <2>4, <2>5 DEF Reservers, Callers
  <2>7. pc[s[1]] \in {"claim", "run"}
    BY <2>5, <2>6, RuntimeAssumption DEF PCs, Scanner
  <2> QED BY <2>6, <2>7 DEF Waker
<1> QED BY <1>1, <1>2, <1>3

\* A scan's reserve: it is over, finds no slot, or takes some.
LEMMA ScanReserveInv == ASSUME IInv, NEW p \in Reservers, ScanReserve(p) PROVE IInv'
<1> DEFINE over == ready[p] = 0 \/ left[p] = 0
<1>0. /\ p \notin Dispatchers /\ pc[p] = "reserve"
      /\ UNCHANGED <<jobs, jobsOpen, wake, worker, mine, tx, life>>
  BY DEF ScanReserve
<1>1. CASE ScanEnds(p) /\ UNCHANGED <<slots, held, starved>>
  <2>1. WakerAtWork'
    BY <1>0, <1>1, WakerSame DEF ScanEnds
  <2> QED BY <1>0, <1>1, <2>1, Here, ScanEndsInv
<1>2. CASE /\ ~over /\ FreeSlots = 0
           /\ ScanEnds(p)
           /\ starved' = IF p # Scanner THEN starved ELSE
                         IF \E c \in ScanCallers : held[c] + mine[c] > 0 THEN "manual" ELSE "yes"
           /\ UNCHANGED <<slots, held>>
  <2>1. starved' \in {"no", "yes", "manual"}
    BY <1>2, Here
  <2>2. CASE p # Scanner
    <3>1. WakerAtWork'
      BY <1>0, <1>2, <2>2, WakerSame DEF ScanEnds
    <3> QED BY <1>0, <1>2, <2>1, <3>1, ScanEndsInv
  <2>3. CASE p = Scanner
    <3>1. starved' = "yes" => \A c \in ScanCallers : held[c] + mine[c] = 0
      <4>1. \A c \in ScanCallers : held[c] \in Nat /\ mine[c] \in Nat
        BY Finite, Here
      <4> QED BY <1>2, <2>3, <4>1
    <3>2. starved' = "yes" => Waker
      BY <1>0, <1>2, <2>3, <3>1, BusyIsWaker
    <3>3. Waker => Waker'
      <4>1. \A d \in Dispatchers : pc'[d] = pc[d]
        BY <1>2, <2>3, Finite DEF ScanEnds, IInv, TypeOK
      <4> QED BY <1>0, <4>1 DEF Waker
    <3>4. pc'[Scanner] = "select"
      BY <1>2, <2>3, Finite DEF ScanEnds, IInv, TypeOK
    <3>5. WakerAtWork'
      BY <3>2, <3>3, <3>4 DEF WakerAtWork
    <3> QED BY <1>0, <1>2, <2>1, <3>5, ScanEndsInv
  <2> QED BY <2>2, <2>3
<1>3. CASE ~over /\ TakeSlots(p, left[p]) /\ UNCHANGED <<left, ready, starved>>
  BY <1>0, <1>3, Here, TakeInv
<1> QED BY <1>1, <1>2, <1>3 DEF ScanReserve

\* A step within an operation or a scan that wakes nobody and goes on.
LEMMA QuietInv ==
    ASSUME IInv, NEW p \in Reservers, NEW at \in {"reserve", "run", "push", "notify"},
           NEW h \in 0..WorkerCount, NEW m \in 0..WorkerCount,
           NEW l \in Nat, NEW r \in 0..MaxReady, Local(p, at, h, m, l, r),
           pc' = [pc EXCEPT ![p] = at], held' = [held EXCEPT ![p] = h],
           mine' = [mine EXCEPT ![p] = m], left' = [left EXCEPT ![p] = l],
           ready' = [ready EXCEPT ![p] = r],
           pc[p] \in {"reserve", "claim", "run", "push"},
           slots' = slots - (held[p] + mine[p]) + (h + m), slots' <= WorkerCount,
           UNCHANGED <<jobs, jobsOpen, wake, worker, tx, starved, life>>
    PROVE  IInv'
<1>1. tx' \in [Dispatchers -> Txs] /\ TxConsistent'
  BY TxKept
<1>2. WakerAtWork'
  <2>1. p \in Dispatchers => at \in {"reserve", "claim", "run", "notify"}
    BY Finite DEF Local, PCs
  <2> QED BY <2>1, WakerSame
<1>3. /\ wake' \in BOOLEAN /\ called' \in 0..MaxCalls /\ starved' \in {"no", "yes", "manual"}
      /\ UNCHANGED <<jobs, jobsOpen, worker, scn, coord, done, closed, released>>
      /\ pc[p] # "exited" /\ pc[p] # "out"
  BY Here DEF life
<1> QED BY <1>1, <1>2, <1>3, ReserverInv

\* A scan's claim gives back the slots it has no task for.
LEMMA ScanClaimInv == ASSUME IInv, NEW p \in Reservers, ScanClaim(p) PROVE IInv'
<1>0. /\ pc[p] = "claim" /\ p \notin Dispatchers /\ held[p] \in 1..left[p] /\ ready[p] > 0
      /\ mine[p] = 0 /\ UNCHANGED <<jobs, jobsOpen, wake, worker, tx, starved, life>>
  BY Here DEF ScanClaim, Local
<1>1. PICK k \in 0..held[p], ok \in BOOLEAN :
         /\ ~ok => k = 0
         /\ slots' = slots - (held[p] - k)
         /\ mine' = [mine EXCEPT ![p] = k]
         /\ left' = [left EXCEPT ![p] = left[p] - k]
         /\ pc' = [pc EXCEPT ![p] = IF ~ok THEN "reserve" ELSE IF p = Scanner THEN "push" ELSE "run"]
  BY DEF ScanClaim
<1> DEFINE at == IF ~ok THEN "reserve" ELSE IF p = Scanner THEN "push" ELSE "run"
           l == left[p] - k
           r == ready[p] - 1
<1>2. /\ k \in 0..WorkerCount /\ l \in Nat /\ r \in 0..MaxReady
      /\ slots' = slots - (held[p] + mine[p]) + (0 + k) /\ slots' <= WorkerCount
      /\ 0 \in 0..WorkerCount
  BY <1>0, <1>1, Here
<1>3. Local(p, at, 0, k, l, r) /\ at \in {"reserve", "run", "push", "notify"}
  BY <1>0, <1>1, Finite DEF Local, PCs, Reservers, Callers
<1>4. /\ pc' = [pc EXCEPT ![p] = at] /\ left' = [left EXCEPT ![p] = l]
      /\ ready' = [ready EXCEPT ![p] = r] /\ held' = [held EXCEPT ![p] = 0]
      /\ mine' = [mine EXCEPT ![p] = k]
  BY <1>1 DEF ScanClaim
<1>5. pc[p] \in {"reserve", "claim", "run", "push"}
  BY <1>0
<1> HIDE DEF at, l, r
<1> QED BY <1>0, <1>2, <1>3, <1>4, <1>5, QuietInv

\* A callback run by its caller ends.
LEMMA TaskEndsInv == ASSUME IInv, NEW p \in Reservers, TaskEnds(p) PROVE IInv'
<1>0. /\ pc[p] = "run" /\ held[p] = 0 /\ mine[p] > 0 /\ p \in Callers
      /\ pc' = [pc EXCEPT ![p] = "run"] /\ mine' = [mine EXCEPT ![p] = mine[p] - 1]
      /\ held' = [held EXCEPT ![p] = 0] /\ slots' = slots - 1
      /\ left' = [left EXCEPT ![p] = left[p]] /\ ready' = [ready EXCEPT ![p] = ready[p]]
      /\ UNCHANGED <<jobs, jobsOpen, wake, worker, tx, starved, life>>
  BY Here DEF TaskEnds, Local
<1> DEFINE m == mine[p] - 1
<1>1. m \in 0..WorkerCount /\ slots' = slots - (held[p] + mine[p]) + (0 + m) /\ slots' <= WorkerCount
      /\ 0 \in 0..WorkerCount /\ mine' = [mine EXCEPT ![p] = m]
      /\ left[p] \in Nat /\ ready[p] \in 0..MaxReady
  BY <1>0, Here
<1>2. Local(p, "run", 0, m, left[p], ready[p])
  BY <1>0, Here DEF Local
<1> HIDE DEF m
<1> QED BY <1>0, <1>1, <1>2, QuietInv

\* The next round.
LEMMA NextRoundInv == ASSUME IInv, NEW p \in Reservers, NextRound(p) PROVE IInv'
<1>0. /\ pc[p] \in {"push", "run"} /\ held[p] = 0 /\ mine[p] = 0
      /\ pc' = [pc EXCEPT ![p] = "reserve"] /\ mine' = [mine EXCEPT ![p] = 0]
      /\ held' = [held EXCEPT ![p] = 0]
      /\ left' = [left EXCEPT ![p] = left[p]] /\ ready' = [ready EXCEPT ![p] = ready[p]]
      /\ UNCHANGED <<slots, jobs, jobsOpen, wake, worker, tx, starved, life>>
  BY Here DEF NextRound, Local, chans
<1>1. slots' = slots - (held[p] + mine[p]) + (0 + 0) /\ slots' <= WorkerCount
      /\ 0 \in 0..WorkerCount /\ left[p] \in Nat /\ ready[p] \in 0..MaxReady
  BY <1>0, Here
<1>2. Local(p, "reserve", 0, 0, left[p], ready[p])
  BY <1>0, Here DEF Local, PCs
<1> QED BY <1>0, <1>1, <1>2, QuietInv

-------------------------------------------------------------------------------
(* The steps of Dispatch. *)

\* dispatch has finished, gives up, or takes slots.
LEMMA DispatchReserveInv == ASSUME IInv, NEW p \in Reservers, DispatchReserve(p) PROVE IInv'
<1>0. /\ p \in Dispatchers /\ pc[p] = "reserve" /\ held[p] = 0 /\ mine[p] = 0 /\ p # Scanner
      /\ p \notin ScanCallers
      /\ mine' = [mine EXCEPT ![p] = 0]
      /\ left' = [left EXCEPT ![p] = left[p]] /\ ready' = [ready EXCEPT ![p] = ready[p]]
      /\ UNCHANGED <<jobs, jobsOpen, wake, worker, mine, left, ready, tx, starved, life>>
  BY Here, Finite, RuntimeAssumption DEF DispatchReserve, Local
<1>1. CASE pc' = [pc EXCEPT ![p] = "notify"] /\ UNCHANGED <<slots, held>>
  <2>1. slots' = slots - (held[p] + mine[p]) + (0 + 0) /\ slots' <= WorkerCount
        /\ 0 \in 0..WorkerCount /\ left[p] \in Nat /\ ready[p] \in 0..MaxReady
        /\ held' = [held EXCEPT ![p] = 0]
    BY <1>0, <1>1, Here
  <2>2. Local(p, "notify", 0, 0, left[p], ready[p])
    BY <1>0, Here DEF Local, PCs
  <2>3. UNCHANGED <<jobs, jobsOpen, wake, worker, tx, starved, life>>
        /\ pc[p] \in {"reserve", "claim", "run", "push"} /\ pc' = [pc EXCEPT ![p] = "notify"]
        /\ mine' = [mine EXCEPT ![p] = 0]
        /\ left' = [left EXCEPT ![p] = left[p]] /\ ready' = [ready EXCEPT ![p] = ready[p]]
    BY <1>0, <1>1
  <2> QED BY <2>1, <2>2, <2>3, QuietInv
<1>2. CASE left[p] > 0 /\ TakeSlots(p, Smaller(left[p], BatchSize))
  <2>1. Smaller(left[p], BatchSize) \in Nat /\ Smaller(left[p], BatchSize) <= left[p]
    BY Here, RuntimeAssumption DEF Smaller
  <2> QED BY <1>0, <1>2, <2>1, TakeInv
<1> QED BY <1>1, <1>2 DEF DispatchReserve

\* claimIDs gives back the slots it has no task for.
LEMMA DispatchClaimInv == ASSUME IInv, NEW p \in Reservers, DispatchClaim(p) PROVE IInv'
<1>0. /\ pc[p] = "claim" /\ p \in Dispatchers /\ held[p] \in 1..left[p]
      /\ mine[p] = 0 /\ UNCHANGED <<jobs, jobsOpen, wake, worker, tx, starved, life>>
      /\ ready' = [ready EXCEPT ![p] = ready[p]] /\ held' = [held EXCEPT ![p] = 0]
      /\ pc' = [pc EXCEPT ![p] = "run"]
      /\ left' = [left EXCEPT ![p] = left[p] - held[p]] /\ p # Scanner
  BY Here, Finite DEF DispatchClaim, Local
<1>1. PICK k \in 0..held[p] : slots' = slots - (held[p] - k) /\ mine' = [mine EXCEPT ![p] = k]
  BY DEF DispatchClaim
<1> DEFINE l == left[p] - held[p]
<1>2. /\ k \in 0..WorkerCount /\ l \in Nat /\ ready[p] \in 0..MaxReady
      /\ slots' = slots - (held[p] + mine[p]) + (0 + k) /\ slots' <= WorkerCount
      /\ 0 \in 0..WorkerCount /\ left' = [left EXCEPT ![p] = l]
  BY <1>0, <1>1, Here
<1>3. Local(p, "run", 0, k, l, ready[p])
  BY <1>0 DEF Local, PCs
<1> HIDE DEF l
<1> QED BY <1>0, <1>1, <1>2, <1>3, QuietInv

\* A step of a Dispatch caller outside the claims: its place, its batch, its Tx.
LEMMA CallerInv ==
    ASSUME IInv, NEW p \in Dispatchers, NEW at, NEW l \in Nat, NEW t,
           at \in PCs(p) \ {"claim", "run"}, t \in Txs, TxLocal(at, t),
           pc' = [pc EXCEPT ![p] = at], left' = [left EXCEPT ![p] = l],
           tx' = [tx EXCEPT ![p] = t], pc[p] \notin {"claim", "run"},
           pc[p] # "out" \/ ~closed, called' \in 0..MaxCalls, wake' \in BOOLEAN, wake => wake',
           pc[p] \in {"reserve", "notify"} => at \in {"reserve", "notify"} \/ wake',
           UNCHANGED <<slots, jobs, jobsOpen, worker, held, mine, ready, starved,
                       scn, coord, done, closed, released>>
    PROVE  IInv'
<1>0. p \in Reservers /\ p # Scanner /\ p \in Callers
  BY Finite
<1>1. held[p] = 0 /\ mine[p] = 0 /\ pc[p] \notin {"push", "exited"}
  BY <1>0, Here, RuntimeAssumption DEF Local, PCs, Scanner
<1>2. Local(p, at, 0, 0, l, ready[p])
  BY DEF Local
<1>3. tx' \in [Dispatchers -> Txs] /\ TxConsistent'
  <2>1. /\ tx \in [Dispatchers -> Txs] /\ \A d \in Dispatchers : TxLocal(pc[d], tx[d])
        /\ \A d \in Dispatchers : pc'[d] = IF d = p THEN at ELSE pc[d]
    BY Finite DEF IInv, TypeOK, Txs, TxConsistent
  <2>2. tx' \in [Dispatchers -> Txs] /\ \A d \in Dispatchers : tx'[d] = IF d = p THEN t ELSE tx[d]
    BY <2>1
  <2>3. \A d \in Dispatchers : TxLocal(pc'[d], tx'[d])
    BY <2>1, <2>2
  <2> QED BY <2>2, <2>3 DEF TxConsistent
<1>4. WakerAtWork'
  BY <1>0, WakerKept
<1>5. /\ held' = [held EXCEPT ![p] = 0] /\ mine' = [mine EXCEPT ![p] = 0]
      /\ ready' = [ready EXCEPT ![p] = ready[p]]
      /\ slots' = slots - (held[p] + mine[p]) + (0 + 0) /\ slots' <= WorkerCount
      /\ starved' \in {"no", "yes", "manual"} /\ ready[p] \in 0..MaxReady /\ 0 \in 0..WorkerCount
      /\ UNCHANGED <<jobs, jobsOpen, worker, scn, coord, done, closed, released>>
      /\ pc[p] # "exited"
  BY <1>0, <1>1, Here
<1> QED BY <1>0, <1>2, <1>3, <1>4, <1>5, ReserverInv

\* What is known of one caller's Tx.
LEMMA HereTx ==
    ASSUME IInv, NEW p \in Dispatchers
    PROVE  /\ tx[p] \in Txs /\ TxLocal(pc[p], tx[p]) /\ tx = [tx EXCEPT ![p] = tx[p]]
           /\ p \in Reservers /\ p # Scanner /\ p \notin ScanCallers /\ p \in Callers
BY Finite, RuntimeAssumption DEF IInv, TypeOK, Txs, TxConsistent

\* dispatch ends, and so does a call; both may wake the loop.
LEMMA EndInv ==
    ASSUME IInv, NEW p \in Reservers, DispatchEnds(p) \/ End(p) PROVE IInv'
<1>0. /\ p \in Dispatchers /\ pc[p] \in {"notify", "call"} /\ pc' = [pc EXCEPT ![p] = "out"]
      /\ UNCHANGED <<slots, jobs, jobsOpen, worker, held, mine, ready, tx, starved, life>>
      /\ wake' \in {wake, TRUE} /\ (pc[p] = "notify" => wake')
  BY DEF DispatchEnds, End
<1>1. PICK l \in {0, left[p]} : left' = [left EXCEPT ![p] = l]
  BY Here DEF DispatchEnds, End
<1>2. l \in Nat /\ wake' \in BOOLEAN /\ (wake => wake') /\ called' \in 0..MaxCalls
  <2>1. l \in Nat /\ called' \in 0..MaxCalls
    BY <1>0, <1>1, Here DEF life
  <2>2. wake' \in BOOLEAN /\ (wake => wake')
    <3>1. wake \in BOOLEAN
      BY Here
    <3>2. CASE wake' = wake
      BY <3>1, <3>2
    <3>3. CASE wake' = TRUE
      BY <3>3
    <3> QED BY <1>0, <3>2, <3>3
  <2> QED BY <2>1, <2>2
<1>3. /\ "out" \in PCs(p) \ {"claim", "run"} /\ tx[p] = NoTx /\ tx' = [tx EXCEPT ![p] = NoTx]
      /\ NoTx \in Txs /\ TxLocal("out", NoTx)
  BY <1>0, HereTx, NoTxOK DEF PCs, TxLocal
<1>4. /\ pc[p] \notin {"claim", "run"} /\ pc[p] # "out"
      /\ (pc[p] \in {"reserve", "notify"} => "out" \in {"reserve", "notify"} \/ wake')
      /\ UNCHANGED <<slots, jobs, jobsOpen, worker, held, mine, ready, starved,
                     scn, coord, done, closed, released>>
  BY <1>0 DEF life
<1> QED BY <1>0, <1>1, <1>2, <1>3, <1>4, CallerInv

-------------------------------------------------------------------------------
(* The steps of Transaction. *)

\* A step of a transaction that is given up or goes on.
LEMMA TransactInv ==
    ASSUME IInv, NEW p, NEW at, NEW t, Transact(p, at, t), at \in PCs(p) \ {"claim", "run"},
           t \in Txs, TxLocal(at, t), NEW l \in Nat, left' = [left EXCEPT ![p] = l],
           pc[p] \in {"callback", "commit", "committed"}
    PROVE  IInv'
<1>1. /\ p \in Dispatchers /\ pc' = [pc EXCEPT ![p] = at] /\ tx' = [tx EXCEPT ![p] = t]
      /\ UNCHANGED <<slots, jobs, jobsOpen, worker, held, mine, ready, starved,
                     scn, coord, done, closed, released>>
      /\ UNCHANGED <<wake, called>>
  BY DEF Transact, chans, life
<1>2. called' \in 0..MaxCalls /\ wake' \in BOOLEAN /\ (wake => wake')
  BY <1>1, Here, HereTx
<1>3. pc[p] \notin {"claim", "run"} /\ pc[p] # "out" /\ pc[p] \notin {"reserve", "notify"}
  OBVIOUS
<1> QED BY <1>1, <1>2, <1>3, CallerInv

\* The callback returns, the commit is tried, its answer arrives.
LEMMA TransactionInv ==
    ASSUME IInv, NEW p \in Reservers, CallbackReturns(p) \/ Commit(p) \/ Committed(p)
    PROVE  IInv'
<1>0. /\ pc[p] \in {"callback", "commit", "committed"} /\ p \in Dispatchers
  BY DEF CallbackReturns, Commit, Committed, Transact
<1>1. /\ tx[p] \in Txs /\ TxLocal(pc[p], tx[p]) /\ left[p] \in Nat
      /\ left = [left EXCEPT ![p] = left[p]] /\ p # Scanner /\ p \notin ScanCallers
  BY <1>0, Here, HereTx
<1>2. CASE Transact(p, "out", NoTx) /\ UNCHANGED left
  <2>1. "out" \in PCs(p) \ {"claim", "run"} /\ NoTx \in Txs /\ TxLocal("out", NoTx)
        /\ left' = [left EXCEPT ![p] = left[p]]
    BY <1>1, <1>2, NoTxOK DEF PCs
  <2> QED BY <1>0, <1>1, <1>2, <2>1, TransactInv
<1>3. CASE ~tx[p].err /\ Transact(p, "commit", [tx[p] EXCEPT !.closed = TRUE]) /\ UNCHANGED left
  <2> DEFINE t == [tx[p] EXCEPT !.closed = TRUE]
  <2>1. /\ t \in Txs /\ t.closed /\ t.err = tx[p].err /\ t.rows = tx[p].rows
        /\ t.ids = tx[p].ids /\ t.refused = tx[p].refused
    BY <1>1 DEF Txs
  <2>2. Transact(p, "commit", t)
    BY <1>3
  <2> HIDE DEF t
  <2>3. TxLocal("commit", t)
    BY <1>1, <1>3, <2>1 DEF TxLocal
  <2>4. "commit" \in PCs(p) \ {"claim", "run"} /\ left' = [left EXCEPT ![p] = left[p]]
    BY <1>1, <1>3 DEF PCs
  <2> QED BY <1>0, <1>1, <2>1, <2>2, <2>3, <2>4, TransactInv
<1>4. CASE pc[p] = "commit" /\ Transact(p, "committed", tx[p]) /\ UNCHANGED left
  <2>1. TxLocal("committed", tx[p])
    BY <1>1, <1>4 DEF TxLocal
  <2>2. "committed" \in PCs(p) \ {"claim", "run"} /\ left' = [left EXCEPT ![p] = left[p]]
    BY <1>1, <1>4 DEF PCs
  <2> QED BY <1>0, <1>1, <1>4, <2>1, <2>2, TransactInv
<1>5. CASE Transact(p, "reserve", NoTx) /\ left' = [left EXCEPT ![p] = tx[p].ids]
  <2>1. tx[p].ids \in Nat
    BY <1>1, RuntimeAssumption DEF Txs
  <2>2. "reserve" \in PCs(p) \ {"claim", "run"} /\ NoTx \in Txs /\ TxLocal("reserve", NoTx)
    BY <1>1, NoTxOK DEF PCs
  <2> QED BY <1>0, <1>5, <2>1, <2>2, TransactInv
<1> QED BY <1>2, <1>3, <1>4, <1>5 DEF CallbackReturns, Commit, Committed

\* Enqueue inserts a row and returns its id, or dooms the transaction.
LEMMA EnqueueInv == ASSUME IInv, NEW p \in Dispatchers, Enqueue(p) PROVE IInv'
<1>0. /\ tx[p] \in Txs /\ TxLocal(pc[p], tx[p]) /\ p \in Reservers /\ MaxIDs \in Nat
      /\ p # Scanner /\ p \notin ScanCallers
      /\ pc[p] = "callback" /\ ~tx[p].closed /\ ~tx[p].err /\ tx[p].rows = tx[p].ids
  BY HereTx, RuntimeAssumption DEF Enqueue, InTransaction, TxLocal
<1>1. /\ UNCHANGED <<slots, jobs, jobsOpen, worker, held, mine, ready, starved,
                     scn, coord, done, closed, released>>
      /\ wake' \in BOOLEAN /\ (wake => wake') /\ left[p] \in Nat
      /\ pc' = [pc EXCEPT ![p] = "callback"] /\ left' = [left EXCEPT ![p] = left[p]]
  BY <1>0, Here DEF Enqueue, chans
<1>2. called' \in 0..MaxCalls
  BY <1>0, Here, RuntimeAssumption DEF Enqueue, EnqueueTx
<1>3. ASSUME NEW t \in Txs, TxLocal("callback", t), tx' = [tx EXCEPT ![p] = t] PROVE IInv'
  <2>1. "callback" \in PCs(p) \ {"claim", "run"} /\ pc[p] \notin {"claim", "run"} /\ pc[p] # "out"
        /\ pc[p] \notin {"reserve", "notify"}
    BY <1>0 DEF PCs
  <2> QED BY <1>1, <1>2, <1>3, <2>1, CallerInv
<1>4. ASSUME NEW n \in 0..MaxIDs, tx' = [tx EXCEPT ![p] = EnqueueDooms(tx[p], n)] PROVE IInv'
  <2> DEFINE t == EnqueueDooms(tx[p], n)
  <2>1. t \in Txs /\ t.err /\ t.refused
    BY <1>0 DEF EnqueueDooms, Txs
  <2>2. tx' = [tx EXCEPT ![p] = t]
    BY <1>4
  <2> HIDE DEF t
  <2>3. TxLocal("callback", t)
    BY <2>1 DEF TxLocal
  <2> QED BY <1>3, <2>1, <2>2, <2>3
<1>5. CASE tx[p].rows < MaxIDs /\ tx' = [tx EXCEPT ![p] = [tx[p] EXCEPT !.rows = @ + 1, !.ids = @ + 1]]
  <2>0. tx[p].rows + 1 \in 0..MaxIDs /\ tx[p].ids + 1 \in 0..MaxIDs
    BY <1>0, <1>5 DEF Txs
  <2> DEFINE t == [tx[p] EXCEPT !.rows = tx[p].rows + 1, !.ids = tx[p].ids + 1]
  <2>1. /\ t \in Txs /\ t.err = tx[p].err /\ t.refused = tx[p].refused
        /\ t.rows = tx[p].rows + 1 /\ t.ids = tx[p].ids + 1
    BY <1>0, <2>0 DEF Txs
  <2>2. tx' = [tx EXCEPT ![p] = t]
    BY <1>5
  <2> HIDE DEF t
  <2>3. TxLocal("callback", t)
    BY <1>0, <2>1 DEF TxLocal
  <2> QED BY <1>3, <2>1, <2>2, <2>3
<1>6. tx[p].rows \in 0..MaxIDs /\ (tx[p].rows < MaxIDs => tx[p].rows + 1 \in 0..MaxIDs)
  BY <1>0 DEF Txs
<1> QED BY <1>4, <1>5, <1>6 DEF Enqueue, EnqueueTx, Becomes

-------------------------------------------------------------------------------
(* The rest. *)

\* An operation begins: who calls what is the scenario's.
LEMMA BeginInv == ASSUME IInv, NEW c \in Callers, Begin(c) PROVE IInv'
<1>0. /\ c \in Reservers /\ pc[c] = "out" /\ ~closed /\ called' \in 0..MaxCalls
      /\ UNCHANGED <<slots, jobs, jobsOpen, wake, worker, held, mine, ready, tx, starved,
                     scn, coord, done, closed, released>>
  BY Finite, Here, RuntimeAssumption DEF Begin, Accepts, chans
<1>1. /\ held[c] = 0 /\ mine[c] = 0 /\ wake' \in BOOLEAN /\ (wake => wake') /\ left[c] \in Nat
      /\ left = [left EXCEPT ![c] = left[c]] /\ ready[c] \in 0..MaxReady /\ c # Scanner
  BY <1>0, Here, Finite DEF Local
<1>2. scn \in Scenarios
  BY DEF IInv, TypeOK
<1>3. CASE <<c, "scan">> \in scn /\ pc' = [pc EXCEPT ![c] = "query"] /\ UNCHANGED left
  <2>1. c \in ScanCallers /\ c \notin Dispatchers
    BY <1>2, <1>3, RuntimeAssumption
  <2>2. Local(c, "query", 0, 0, left[c], ready[c])
    BY <1>1, <2>1 DEF Local, PCs
  <2>3. WakerAtWork' /\ tx' \in [Dispatchers -> Txs] /\ TxConsistent'
    <3>1. WakerAtWork'
      BY <1>0, <1>1, <1>3, <2>1, WakerSame
    <3>2. tx' \in [Dispatchers -> Txs] /\ TxConsistent'
      BY <1>0, <1>3, <2>1, TxKept
    <3> QED BY <3>1, <3>2
  <2>4. /\ held' = [held EXCEPT ![c] = 0] /\ mine' = [mine EXCEPT ![c] = 0]
        /\ left' = [left EXCEPT ![c] = left[c]] /\ ready' = [ready EXCEPT ![c] = ready[c]]
        /\ slots' = slots - (held[c] + mine[c]) + (0 + 0) /\ slots' <= WorkerCount
        /\ starved' \in {"no", "yes", "manual"} /\ 0 \in 0..WorkerCount
        /\ UNCHANGED <<jobs, jobsOpen, worker, scn, coord, done, closed, released>>
        /\ pc[c] # "exited"
    BY <1>0, <1>1, <1>3, Here
  <2> QED BY <1>0, <1>1, <1>3, <2>2, <2>3, <2>4, ReserverInv
<1>4. ASSUME NEW kind \in {"dispatch", "transaction", "call"}, <<c, kind>> \in scn,
             NEW at \in {"reserve", "callback", "call"}, pc' = [pc EXCEPT ![c] = at],
             NEW l \in Nat, left' = [left EXCEPT ![c] = l]
      PROVE  IInv'
  <2>1. c \in Dispatchers /\ c \notin ScanCallers
    <3>1. <<c, kind>> \in (ScanCallers \X {"scan"}) \cup
                          (Dispatchers \X {"dispatch", "transaction", "call"})
      BY <1>2, <1>4, RuntimeAssumption
    <3> QED BY <1>4, <3>1, RuntimeAssumption
  <2>2. tx[c] = NoTx /\ tx' = [tx EXCEPT ![c] = NoTx]
    BY <1>0, <2>1, HereTx DEF TxLocal
  <2>3. NoTx \in Txs /\ TxLocal(at, NoTx) /\ at \in PCs(c) \ {"claim", "run"}
    BY <1>1, <2>1, NoTxOK DEF PCs
  <2>4. /\ pc[c] \notin {"claim", "run"} /\ pc[c] \notin {"reserve", "notify"}
        /\ UNCHANGED <<slots, jobs, jobsOpen, worker, held, mine, ready, starved,
                       scn, coord, done, closed, released>>
    BY <1>0
  <2> QED BY <1>0, <1>1, <1>4, <2>1, <2>2, <2>3, <2>4, CallerInv
<1>5. CASE <<c, "dispatch">> \in scn /\ pc' = [pc EXCEPT ![c] = "reserve"] /\
           \E n \in 1..MaxIDs : left' = [left EXCEPT ![c] = n]
  <2>1. PICK n \in 1..MaxIDs : left' = [left EXCEPT ![c] = n]
    BY <1>5
  <2>2. n \in Nat
    BY RuntimeAssumption
  <2> QED BY <1>4, <1>5, <2>1, <2>2
<1>6. CASE <<c, "transaction">> \in scn /\ pc' = [pc EXCEPT ![c] = "callback"] /\ UNCHANGED left
  BY <1>1, <1>4, <1>6
<1>7. CASE <<c, "call">> \in scn /\ pc' = [pc EXCEPT ![c] = "call"] /\ UNCHANGED left
  BY <1>1, <1>4, <1>7
<1> QED BY <1>3, <1>5, <1>6, <1>7 DEF Begin

\* The loop wakes.
LEMMA ScanWakesInv == ASSUME IInv, ScanWakes PROVE IInv'
<1>0. Scanner \in Reservers /\ Scanner \notin Dispatchers /\ Scanner \notin ScanCallers
  BY Finite
<1>1. /\ pc[Scanner] = "select" /\ pc' = [pc EXCEPT ![Scanner] = "query"] /\ starved' = "no"
      /\ UNCHANGED <<slots, jobs, jobsOpen, worker, held, mine, left, ready, tx, life>>
  BY DEF ScanWakes
<1>2. wake' \in BOOLEAN
  <2>1. wake \in BOOLEAN /\ wake' \in {wake, FALSE}
    BY <1>0, Here DEF ScanWakes
  <2> QED BY <2>1, Zenon
<1>3. tx' \in [Dispatchers -> Txs] /\ TxConsistent'
  BY <1>0, <1>1, TxKept
<1>4. WakerAtWork'
  BY <1>1 DEF WakerAtWork
<1>5. held[Scanner] = 0 /\ mine[Scanner] = 0 /\ Local(Scanner, "query", 0, 0, left[Scanner], ready[Scanner])
  BY <1>0, <1>1, Here DEF Local, PCs
<1>6. /\ held' = [held EXCEPT ![Scanner] = 0] /\ mine' = [mine EXCEPT ![Scanner] = 0]
      /\ left' = [left EXCEPT ![Scanner] = left[Scanner]]
      /\ ready' = [ready EXCEPT ![Scanner] = ready[Scanner]]
      /\ slots' = slots - (held[Scanner] + mine[Scanner]) + (0 + 0) /\ slots' <= WorkerCount
      /\ 0 \in 0..WorkerCount /\ called' \in 0..MaxCalls
      /\ left[Scanner] \in Nat /\ ready[Scanner] \in 0..MaxReady
      /\ UNCHANGED <<jobs, jobsOpen, worker, scn, coord, done, closed, released>>
      /\ pc[Scanner] # "exited" /\ pc[Scanner] # "out" /\ starved' \in {"no", "yes", "manual"}
  BY <1>0, <1>1, <1>5, Here DEF life
<1> QED BY <1>0, <1>1, <1>2, <1>3, <1>4, <1>5, <1>6, ReserverInv

\* Where no reserver's place or slots change.
LEMMA StillReservers ==
    ASSUME IInv, UNCHANGED <<pc, held, mine, left, ready, tx>>
    PROVE  /\ ReserversOK' /\ TxConsistent' /\ Claims' = Claims /\ ClaimSlots' = ClaimSlots
           /\ Cardinality(ClaimSlots) \in Nat
<1>1. ReserversOK'
  BY DEF IInv, ReserversOK
<1>2. TxConsistent'
  BY DEF IInv, TxConsistent
<1>3. Claims' = Claims
  BY DEF Claims
<1>4. ClaimSlots' = ClaimSlots
  BY <1>3 DEF ClaimSlots
<1>5. Cardinality(ClaimSlots) \in Nat
  BY Finite, ClaimsType, PairsChange DEF IInv
<1> QED BY <1>1, <1>2, <1>3, <1>4, <1>5

\* The loop ends and closes the jobs channel.
LEMMA ScannerExitsInv == ASSUME IInv, ScannerExits PROVE IInv'
<1>0. /\ Scanner \in Reservers /\ Scanner \notin Dispatchers /\ pc[Scanner] = "select"
      /\ pc \in [Reservers -> {"select", "query", "reserve", "claim", "push", "run",
                 "notify", "call", "callback", "commit", "committed", "out", "exited"}]
      /\ pc' = [pc EXCEPT ![Scanner] = "exited"] /\ jobsOpen' = FALSE
      /\ UNCHANGED <<slots, jobs, wake, worker, held, mine, left, ready, tx, starved,
                     scn, coord, done, closed, released, called>>
  BY Finite DEF ScannerExits, IInv, TypeOK, life
<1>1. pc'[Scanner] = "exited" /\ \A q \in Reservers : q # Scanner => pc'[q] = pc[q]
  BY <1>0
<1>2. TypeOK'
  BY <1>0 DEF IInv, TypeOK
<1>3. ReserversOK'
  BY <1>0, <1>1 DEF IInv, ReserversOK, Local, PCs
<1>4. TxConsistent'
  BY <1>0, TxKept
<1>5. SlotsAccounted'
  <2>1. Claims' = Claims /\ Executing' = Executing
    BY <1>0 DEF Claims, Executing
  <2>2. ClaimSlots' = ClaimSlots
    BY <2>1 DEF ClaimSlots
  <2> QED BY <1>0, <2>1, <2>2 DEF IInv, SlotsAccounted
<1>6. EndsInOrder'
  BY <1>0, <1>1, Finite DEF IInv, EndsInOrder
<1>7. WakerAtWork'
  BY <1>1 DEF WakerAtWork
<1> QED BY <1>2, <1>3, <1>4, <1>5, <1>6, <1>7 DEF IInv

\* A claimed task goes into the jobs channel, with its slot.
LEMMA PushInv == ASSUME IInv, Push PROVE IInv'
<1>0. /\ Scanner \in Reservers /\ pc[Scanner] = "push" /\ mine[Scanner] \in 1..WorkerCount
      /\ jobs \in 0..WorkerCount /\ jobs < WorkerCount /\ WorkerCount \in Nat
      /\ mine \in [Reservers -> 0..WorkerCount] /\ held[Scanner] = 0
      /\ jobs' = jobs + 1 /\ mine' = [mine EXCEPT ![Scanner] = mine[Scanner] - 1]
      /\ UNCHANGED <<slots, jobsOpen, wake, worker, pc, held, left, ready, tx, starved,
                     scn, coord, done, closed, released, called>>
  BY Finite, Here DEF Push, IInv, TypeOK, life, Local
<1>1. mine'[Scanner] = mine[Scanner] - 1 /\ \A q \in Reservers : q # Scanner => mine'[q] = mine[q]
  BY <1>0
<1>2. TypeOK'
  <2>1. mine' \in [Reservers -> 0..WorkerCount] /\ jobs' \in 0..WorkerCount
    BY <1>0
  <2> QED BY <1>0, <2>1 DEF IInv, TypeOK
<1>3. ReserversOK'
  BY <1>0, <1>1 DEF IInv, ReserversOK, Local
<1>4. TxConsistent'
  BY <1>0 DEF IInv, TxConsistent
<1>5. SlotsAccounted'
  <2>1. /\ Claims' \in [Reservers -> 0..WorkerCount] /\ ClaimSlots' = Pairs(Claims')
        /\ Claims'[Scanner] = Claims[Scanner] - 1
        /\ \A q \in Reservers : q # Scanner => Claims'[q] = Claims[q]
    <3>1. \A q \in Reservers : Claims'[q] = held[q] + mine'[q]
      BY <1>0 DEF Claims
    <3>2. /\ Claims \in [Reservers -> 0..WorkerCount]
          /\ \A q \in Reservers : Claims[q] = held[q] + mine[q]
      BY ClaimsType DEF IInv
    <3>3. Claims'[Scanner] = Claims[Scanner] - 1 /\ Claims[Scanner] \in 1..WorkerCount
      BY <1>0, <1>1, <3>1, <3>2
    <3>4. \A q \in Reservers : q # Scanner => Claims'[q] = Claims[q]
      BY <1>1, <3>1, <3>2
    <3>5. \A q \in Reservers : Claims'[q] \in 0..WorkerCount
      <4>1. \A q \in Reservers : Claims[q] \in 0..WorkerCount
        BY <3>2
      <4>2. Claims[Scanner] - 1 \in 0..WorkerCount
        BY <3>3, Finite
      <4> QED BY <3>3, <3>4, <4>1, <4>2
    <3>6. Claims' = [q \in Reservers |-> held'[q] + mine'[q]] /\ ClaimSlots' = Pairs(Claims')
      BY DEF Claims, ClaimSlots, Pairs
    <3> QED BY <3>3, <3>4, <3>5, <3>6
  <2>2. /\ Cardinality(ClaimSlots) \in Nat /\ Cardinality(ClaimSlots') = Cardinality(ClaimSlots) - 1
    <3>1. Claims \in [Reservers -> 0..WorkerCount] /\ ClaimSlots = Pairs(Claims)
      BY ClaimsType DEF IInv
    <3>2. /\ Cardinality(Pairs(Claims)) \in Nat
          /\ Cardinality(Pairs(Claims')) = Cardinality(Pairs(Claims)) - Claims[Scanner] + Claims'[Scanner]
      BY <1>0, <2>1, <3>1, PairsChange
    <3>3. Claims[Scanner] \in Nat
      <4>1. Claims[Scanner] \in 0..WorkerCount
        BY <1>0, <3>1
      <4> QED BY <4>1, Finite
    <3> QED BY <2>1, <3>1, <3>2, <3>3
  <2>3. Executing' = Executing /\ Cardinality(Executing) \in Nat
    BY <1>0, Finite DEF Executing
  <2> QED BY <1>0, <2>2, <2>3 DEF IInv, SlotsAccounted
<1>6. EndsInOrder'
  BY <1>0 DEF IInv, EndsInOrder
<1>7. WakerAtWork'
  BY <1>0 DEF IInv, WakerAtWork
<1> QED BY <1>2, <1>3, <1>4, <1>5, <1>6, <1>7 DEF IInv

\* How a worker's step changes the number of executing workers.
LEMMA WorkerCounted ==
    ASSUME TypeOK, NEW w \in Workers, NEW s \in {"idle", "executing", "notify", "exited"},
           worker' = [worker EXCEPT ![w] = s]
    PROVE  /\ s = "executing" /\ worker[w] # "executing" =>
                Cardinality(Executing') = Cardinality(Executing) + 1
           /\ s # "executing" /\ worker[w] = "executing" =>
                Cardinality(Executing') = Cardinality(Executing) - 1
           /\ s # "executing" /\ worker[w] # "executing" => Executing' = Executing
<1>1. worker \in [Workers -> {"idle", "executing", "notify", "exited"}]
  BY DEF TypeOK
<1>2. IsFiniteSet(Executing) /\ Cardinality(Executing) \in Nat
  BY Finite
<1>3. CASE s = "executing" /\ worker[w] # "executing"
  <2>1. Executing' = Executing \cup {w} /\ w \notin Executing
    BY <1>1, <1>3 DEF Executing
  <2> QED BY <1>2, <1>3, <2>1, FS_AddElement
<1>4. CASE s # "executing" /\ worker[w] = "executing"
  <2>1. Executing' = Executing \ {w} /\ w \in Executing
    BY <1>1, <1>4 DEF Executing
  <2> QED BY <1>2, <1>4, <2>1, FS_RemoveElement
<1>5. CASE s # "executing" /\ worker[w] # "executing"
  <2>1. Executing' = Executing
    BY <1>1, <1>5 DEF Executing
  <2> QED BY <1>5, <2>1
<1> QED BY <1>3, <1>4, <1>5

\* A step of one worker: the slots follow what it took or freed, and whoever
\* was to wake the loop still is or has.
LEMMA WorkerInv ==
    ASSUME IInv, NEW w \in Workers, NEW s \in {"idle", "executing", "notify", "exited"},
           worker' = [worker EXCEPT ![w] = s], slots' \in 0..WorkerCount, jobs' \in 0..WorkerCount,
           wake' \in BOOLEAN, wake => wake', jobs' <= jobs,
           slots' = Cardinality(ClaimSlots) + jobs' + Cardinality(Executing'),
           s = "exited" => ~jobsOpen /\ jobs = 0, worker[w] # "exited",
           jobs' # jobs => s \in {"executing", "notify"},
           worker[w] \in {"executing", "notify"} => s \in {"executing", "notify"} \/ wake',
           UNCHANGED <<jobsOpen, procs, life>>
    PROVE  IInv'
<1>0. /\ UNCHANGED <<jobsOpen, pc, held, mine, left, ready, tx, starved>>
      /\ UNCHANGED <<scn, coord, done, closed, released, called>>
      /\ worker \in [Workers -> {"idle", "executing", "notify", "exited"}]
      /\ jobs \in 0..WorkerCount /\ WorkerCount \in Nat
  BY Finite DEF procs, life, IInv, TypeOK
<1>1. worker'[w] = s /\ \A v \in Workers : v # w => worker'[v] = worker[v]
  BY <1>0
<1>2. ReserversOK' /\ TxConsistent' /\ ClaimSlots' = ClaimSlots
  BY <1>0, StillReservers
<1>3. TypeOK'
  BY <1>0 DEF IInv, TypeOK
<1>4. SlotsAccounted'
  BY <1>2 DEF SlotsAccounted
<1>5. EndsInOrder'
  <2>1. \A v \in Workers : worker'[v] = "exited" => ~jobsOpen /\ jobs' = 0
    BY <1>0, <1>1 DEF IInv, EndsInOrder
  <2>2. ~released
    BY DEF IInv, EndsInOrder
  <2> QED BY <1>0, <2>1, <2>2 DEF IInv, EndsInOrder
<1>6. WakerAtWork'
  <2>1. Waker => Waker' \/ wake'
    <3>1. CASE jobs > 0
      BY <1>0, <1>1, <3>1 DEF Waker
    <3>2. CASE \E v \in Workers : worker[v] \in {"executing", "notify"}
      BY <1>1, <3>2 DEF Waker
    <3>3. CASE \E d \in Dispatchers : pc[d] \in {"reserve", "claim", "run", "notify"}
      BY <1>0, <3>3 DEF Waker
    <3> QED BY <3>1, <3>2, <3>3 DEF Waker
  <2> QED BY <1>0, <2>1 DEF IInv, WakerAtWork
<1> QED BY <1>2, <1>3, <1>4, <1>5, <1>6 DEF IInv

\* The workers.
LEMMA WorkerStepInv == ASSUME IInv, NEW w \in Workers, WorkerStep(w) PROVE IInv'
<1>0. /\ TypeOK /\ slots = Cardinality(ClaimSlots) + jobs + Cardinality(Executing)
      /\ slots \in 0..WorkerCount /\ jobs \in 0..WorkerCount /\ WorkerCount \in Nat
      /\ wake \in BOOLEAN /\ IsFiniteSet(Executing) /\ Cardinality(Executing) \in Nat
  BY Finite DEF IInv, TypeOK, SlotsAccounted
<1>1. Cardinality(ClaimSlots) \in Nat
  BY Finite, ClaimsType, PairsChange DEF IInv
<1>2. CASE WorkerTakes(w)
  <2>1. /\ worker[w] = "idle" /\ worker' = [worker EXCEPT ![w] = "executing"]
        /\ jobs > 0 /\ jobs' = jobs - 1 /\ UNCHANGED <<slots, wake>>
        /\ UNCHANGED <<jobsOpen, procs, life>>
    BY <1>2 DEF WorkerTakes
  <2>2. Cardinality(Executing') = Cardinality(Executing) + 1
    BY <1>0, <2>1, WorkerCounted
  <2>3. slots' = Cardinality(ClaimSlots) + jobs' + Cardinality(Executing') /\ jobs' \in 0..WorkerCount
        /\ slots' \in 0..WorkerCount /\ jobs' <= jobs
    BY <1>0, <1>1, <2>1, <2>2
  <2> QED BY <1>0, <2>1, <2>3, WorkerInv
<1>3. CASE WorkerExits(w)
  <2>1. /\ worker[w] = "idle" /\ worker' = [worker EXCEPT ![w] = "exited"]
        /\ jobs = 0 /\ ~jobsOpen /\ UNCHANGED <<slots, jobs, wake>>
        /\ UNCHANGED <<jobsOpen, procs, life>>
    BY <1>3 DEF WorkerExits, chans
  <2>2. Cardinality(Executing') = Cardinality(Executing)
    BY <1>0, <2>1, WorkerCounted
  <2>3. slots' = Cardinality(ClaimSlots) + jobs' + Cardinality(Executing') /\ jobs' \in 0..WorkerCount
        /\ slots' \in 0..WorkerCount /\ jobs' <= jobs
    BY <1>0, <1>1, <2>1, <2>2
  <2> QED BY <1>0, <2>1, <2>3, WorkerInv
<1>4. CASE WorkerFinishes(w)
  <2>1. /\ worker[w] = "executing" /\ worker' = [worker EXCEPT ![w] = "notify"]
        /\ slots' = slots - 1 /\ UNCHANGED <<jobs, wake>>
        /\ UNCHANGED <<jobsOpen, procs, life>>
    BY <1>4 DEF WorkerFinishes
  <2>2. Cardinality(Executing') = Cardinality(Executing) - 1
    BY <1>0, <2>1, WorkerCounted
  <2>3. Cardinality(Executing) > 0
    <3>1. w \in Executing
      BY <2>1 DEF Executing
    <3> QED BY <1>0, <3>1, FS_EmptySet
  <2>4. slots' = Cardinality(ClaimSlots) + jobs' + Cardinality(Executing') /\ jobs' \in 0..WorkerCount
        /\ slots' \in 0..WorkerCount /\ jobs' <= jobs
    BY <1>0, <1>1, <2>1, <2>2, <2>3
  <2> QED BY <1>0, <2>1, <2>4, WorkerInv
<1>5. CASE WorkerNotifies(w)
  <2>1. /\ worker[w] = "notify" /\ worker' = [worker EXCEPT ![w] = "idle"]
        /\ wake' = TRUE /\ UNCHANGED <<slots, jobs>>
        /\ UNCHANGED <<jobsOpen, procs, life>>
    BY <1>5 DEF WorkerNotifies
  <2>2. Cardinality(Executing') = Cardinality(Executing)
    BY <1>0, <2>1, WorkerCounted
  <2>3. slots' = Cardinality(ClaimSlots) + jobs' + Cardinality(Executing') /\ jobs' \in 0..WorkerCount
        /\ slots' \in 0..WorkerCount /\ jobs' <= jobs
    BY <1>0, <1>1, <2>1, <2>2
  <2> QED BY <1>0, <2>1, <2>3, WorkerInv
<1> QED BY <1>2, <1>3, <1>4, <1>5 DEF WorkerStep

\* The coordinate loop, the context and Close touch neither slots nor callers.
LEMMA LifeInv ==
    ASSUME IInv, Coordinate \/ CoordinateExits \/ Cancel \/ Close \/ Release PROVE IInv'
<1>0. {wake, coord, done, closed, released} \subseteq BOOLEAN
  BY DEF IInv, TypeOK
<1>1. /\ UNCHANGED <<slots, jobs, jobsOpen, worker, scn, called>>
      /\ UNCHANGED <<pc, held, mine, left, ready, tx, starved>>
  BY DEF Coordinate, CoordinateExits, Cancel, Close, Release, chans, procs, life
<1>2. wake' \in {wake, TRUE} /\ coord' \in {coord, FALSE} /\ done' \in {done, TRUE}
      /\ closed' \in {closed, TRUE} /\ released' \in {released, TRUE}
  BY DEF Coordinate, CoordinateExits, Cancel, Close, Release, chans, procs, life
<1>3. {wake', coord', done', closed', released'} \subseteq BOOLEAN /\ (wake => wake') /\ (closed => closed')
  <2>1. ASSUME NEW a \in BOOLEAN, NEW b \in {a, TRUE} PROVE b \in BOOLEAN /\ (a => b)
    <3>1. CASE b = a
      BY <3>1
    <3>2. CASE b = TRUE
      BY <3>2
    <3> QED BY <3>1, <3>2
  <2>2. coord' \in BOOLEAN
    BY <1>0, <1>2, Zenon
  <2> QED BY <1>0, <1>2, <2>1, <2>2
<1>4. ReserversOK' /\ TxConsistent' /\ ClaimSlots' = ClaimSlots
  BY <1>1, StillReservers
<1>5. TypeOK'
  BY <1>1, <1>3 DEF IInv, TypeOK
<1>6. SlotsAccounted'
  BY <1>1, <1>4 DEF IInv, SlotsAccounted, Executing
<1>7. EndsInOrder'
  <2>1. CASE released' = released
    BY <1>1, <1>3, <2>1 DEF IInv, EndsInOrder
  <2>2. CASE Release
    BY <1>1, <2>2 DEF IInv, EndsInOrder, Release, BackgroundEnded, OperationsEnded
  <2> QED BY <2>1, <2>2 DEF Coordinate, CoordinateExits, Cancel, Close, life
<1>8. WakerAtWork'
  BY <1>1, <1>3 DEF IInv, WakerAtWork, Waker
<1> QED BY <1>4, <1>5, <1>6, <1>7, <1>8 DEF IInv

-------------------------------------------------------------------------------
\* Every step of the outbox's goroutines preserves the invariant.
LEMMA NextInv == IInv /\ [Next]_vars => IInv'
<1> SUFFICES ASSUME IInv, [Next]_vars PROVE IInv'
  OBVIOUS
<1>1. ASSUME NEW p \in Reservers, Step(p) PROVE IInv'
  BY <1>1, QueryInv, ScanReserveInv, ScanClaimInv, NextRoundInv, TaskEndsInv, DispatchReserveInv,
     DispatchClaimInv, EndInv, TransactionInv DEF Step
<1>2. ASSUME NEW c \in Callers, Begin(c) PROVE IInv'
  BY <1>2, BeginInv
<1>3. ASSUME NEW d \in Dispatchers, Enqueue(d) PROVE IInv'
  BY <1>3, EnqueueInv
<1>4. ASSUME NEW w \in Workers, WorkerStep(w) PROVE IInv'
  BY <1>4, WorkerStepInv
<1>5. CASE ScanWakes \/ ScannerExits \/ Push
  BY <1>5, ScanWakesInv, ScannerExitsInv, PushInv
<1>6. CASE Coordinate \/ CoordinateExits \/ Cancel \/ Close \/ Release
  BY <1>6, LifeInv
<1>7. CASE UNCHANGED vars
  <2>0. /\ UNCHANGED <<slots, jobs, jobsOpen, wake, worker, starved>>
        /\ UNCHANGED <<pc, held, mine, left, ready, tx>>
        /\ UNCHANGED <<scn, coord, done, closed, released, called>>
    BY <1>7 DEF vars, chans, procs, life
  <2>1. ReserversOK' /\ TxConsistent' /\ ClaimSlots' = ClaimSlots
    BY <2>0, StillReservers
  <2>2. Executing' = Executing /\ Waker' = Waker
    BY <2>0 DEF Executing, Waker
  <2>3. TypeOK'
    BY <2>0 DEF IInv, TypeOK
  <2>4. SlotsAccounted' /\ EndsInOrder' /\ WakerAtWork'
    BY <2>0, <2>1, <2>2 DEF IInv, SlotsAccounted, EndsInOrder, WakerAtWork
  <2> QED BY <2>1, <2>3, <2>4 DEF IInv
<1> QED BY <1>1, <1>2, <1>3, <1>4, <1>5, <1>6, <1>7 DEF Next

\* The invariant holds in every reachable state.
LEMMA Invariance == Spec => []IInv
BY InitInv, NextInv, PTL DEF Spec

\* Type correctness; neither the slots nor the jobs channel ever overflows.
THEOREM TypeCorrect == Spec => []TypeOK
<1>1. IInv => TypeOK
  BY DEF IInv
<1> QED BY <1>1, Invariance, PTL

\* No slot leaks and none is given back twice, though claims fail, come back
\* short or are cut off, in the scan loop, in ScanOnce and in Dispatch alike.
THEOREM NoSlotLeaks == Spec => []SlotsAccounted
<1>1. IInv => SlotsAccounted
  BY DEF IInv
<1> QED BY <1>1, Invariance, PTL

\* After the release no slot is taken, no task is queued and no callback runs:
\* Close waited for the loops, the workers and every operation.
LEMMA ReleasedIsDrained == IInv => ReleaseAfterDrain
<1> SUFFICES ASSUME IInv, released PROVE slots = 0 /\ jobs = 0 /\ Idle
  BY DEF ReleaseAfterDrain
<1>1. /\ pc[Scanner] = "exited" /\ \A w \in Workers : worker[w] = "exited"
      /\ \A c \in Callers : pc[c] = "out"
  BY DEF IInv, EndsInOrder
<1>2. jobs = 0
  BY <1>1, RuntimeAssumption DEF IInv, EndsInOrder
<1>3. Executing = {}
  BY <1>1 DEF Executing
<1>4. \A p \in Reservers : held[p] = 0 /\ mine[p] = 0
  BY <1>1 DEF IInv, ReserversOK, Local, Reservers
<1>5. ClaimSlots = {}
  BY <1>4, Finite DEF ClaimSlots, Claims
<1>6. slots = 0
  <2>1. Cardinality({}) = 0
    BY FS_EmptySet
  <2> QED BY <1>2, <1>3, <1>5, <2>1 DEF IInv, SlotsAccounted
<1> QED BY <1>1, <1>2, <1>3, <1>6 DEF Idle

\* Close gives up the node only when every claimed task has been executed.
THEOREM ReleasesDrained == Spec => []ReleaseAfterDrain
BY Invariance, ReleasedIsDrained, PTL

(***************************************************************************)
(* A scan that found every slot taken by workers and Dispatch callers is   *)
(* woken by one of them: for every number of them and every batch size.    *)
(***************************************************************************)
THEOREM StarvedIsWoken == Spec => []StarvedScanIsWoken
<1>1. IInv => StarvedScanIsWoken
  BY DEF IInv, WakerAtWork, StarvedScanIsWoken
<1> QED BY <1>1, Invariance, PTL

\* A committed transaction has inserted exactly the messages it dispatches, and
\* no Enqueue failed in it.
THEOREM TransactionsWhole == Spec => []TransactionIsWhole
<1>1. IInv => TransactionIsWhole
  BY DEF IInv, TxConsistent, TxLocal, TransactionIsWhole
<1> QED BY <1>1, Invariance, PTL
===============================================================================
