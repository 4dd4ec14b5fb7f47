----------------------------- MODULE SegmentProofs -----------------------------
(***************************************************************************)
(* Proofs about Segment for any generators, callers, steps, start values,  *)
(* greatest integer, and any number of calls and failures.                 *)
(***************************************************************************)
EXTENDS Segment, FiniteSetTheorems, TLAPS

(***************************************************************************)
(* The parts of the inductive invariant.                                   *)
(***************************************************************************)

\* The ids a generator may still hand out: the rest of the current segment,
\* the next one, and the one the loader has fetched.
left == [g \in Gens |->
    IF buf[g].exhausted THEN {} ELSE buf[g].current.cur .. buf[g].current.last]
ahead == [g \in Gens |-> (buf[g].next.first .. buf[g].next.last)
              \cup (loader[g].segment.first .. loader[g].segment.last)]
pool == [g \in Gens |-> left[g] \cup ahead[g]]

\* A segment is empty or starts above zero and has its cursor inside.
Whole(s) == s = NoSegment \/ (0 < s.first /\ s.first <= s.cur /\ s.cur <= s.last)
Fresh(s) == Whole(s) /\ s.cur = s.first

\* A row has a step, as has every call that may write one.
RowOK == /\ row = NoRow \/ (row.max >= 0 /\ row.step > 0)
         /\ \A c \in Callers : call[c].kind # "none" => call[c].step > 0
SegmentsOK == \A g \in Gens :
    Whole(buf[g].current) /\ Fresh(buf[g].next) /\ Fresh(loader[g].segment)

\* mu and the creation of the buffer exclude other callers.
Holds(c) == call[c].at \in {"sync", "start", "spawn"}
Creates(c) == call[c].at \in {"tag", "first"}
MutexOK ==
    /\ \A c \in Callers : Holds(c) => buf[GenOf[c]].locked
    /\ \A c \in Callers : Creates(c) => buf[GenOf[c]].state = "init" /\ call[c].kind # "none"
    /\ \A c, d \in Callers : GenOf[c] = GenOf[d] /\ c # d =>
         ~(Holds(c) /\ Holds(d)) /\ ~(Creates(c) /\ Creates(d))

\* One load at a time, and none while a next segment is there.
LoadOK ==
    /\ \A c \in Callers : call[c].at = "sync" => MustLoad(buf[GenOf[c]])
    /\ \A c \in Callers : call[c].at \in {"start", "spawn"} =>
         buf[GenOf[c]].loading /\ loader[GenOf[c]] = Idle
    /\ \A g \in Gens : /\ loader[g] # Idle => buf[g].loading
                       /\ buf[g].loading => buf[g].next = NoSegment
                       /\ loader[g].state # "done" => loader[g].segment = NoSegment

\* A buffer that is not ready holds nothing, and its generator issued nothing.
ReadyOK ==
    /\ \A c \in Callers : call[c].at \in {"next", "loading", "sync", "start", "spawn"} =>
         buf[GenOf[c]].state = "ready"
    /\ \A g \in Gens : buf[g].state # "ready" =>
         /\ buf[g].current = NoSegment /\ buf[g].next = NoSegment
         /\ ~buf[g].exhausted /\ ~buf[g].loading /\ ~buf[g].locked /\ loader[g] = Idle
         /\ \A x \in issued : x.gen # g

\* The table is ahead of every id, the pools and the ids issued are disjoint.
PoolsDisjoint ==
    /\ \A g \in Gens : \A i \in pool[g] : i <= row.max
    /\ \A x \in issued : x.id <= row.max
    /\ \A g, h \in Gens : g # h => \A i \in pool[g] : i \notin pool[h]
    /\ \A g \in Gens : \A i \in pool[g] : \A x \in issued : x.id # i

\* A generator's ids come in order: those issued, those left, those ahead.
Ordered ==
    /\ \A g \in Gens : \A i \in pool[g] : \A x \in issued : x.gen = g => x.id < i
    /\ \A g \in Gens : \A i \in left[g], j \in ahead[g] : i < j

\* The n-th id of a generator has the number n.
Numbered ==
    /\ IsFiniteSet(issued)
    /\ \A x \in issued : x.nth < Cardinality({y \in issued : y.gen = x.gen})

IInv == /\ TypeOK /\ RowOK /\ SegmentsOK /\ MutexOK /\ LoadOK /\ ReadyOK
        /\ PoolsDisjoint /\ Ordered /\ Numbered /\ UniqueIDs /\ IncreasingIDs

USE SegmentAssumption

-------------------------------------------------------------------------------
(* What a step does to the pools, whoever takes it. *)

\* The ids in a pool and those fetched are integers.
LEMMA PoolType == ASSUME TypeOK, NEW g \in Gens PROVE pool[g] \subseteq Int
BY DEF TypeOK, pool, left, ahead, Segments, Ints, Buffers, Loaders

\* A step that issues nothing, and adds to one pool at most ids beyond the row.
LEMMA PoolsStep ==
    ASSUME IInv, TypeOK', NEW g \in Gens, NEW N \in SUBSET (row.max + 1 .. row'.max),
           row'.max >= row.max, issued' = issued,
           \A h \in Gens : h # g => pool'[h] \subseteq pool[h] /\ (left'[h] = left[h] /\ ahead'[h] = ahead[h]),
           pool'[g] \subseteq pool[g] \cup N,
           \A i \in left'[g], j \in ahead'[g] : i < j
    PROVE  PoolsDisjoint' /\ Ordered' /\ Numbered' /\ UniqueIDs' /\ IncreasingIDs'
<1>0. /\ \A h \in Gens : pool[h] \subseteq Int
      /\ row.max \in Int /\ row'.max \in Int
      /\ \A x \in issued : x.id \in Int /\ x.gen \in Gens
  BY PoolType DEF IInv, TypeOK, Ints
<1>b. \A h \in Gens : \A i \in pool'[h] : i \in Int /\ (i \in pool[h] \/ (h = g /\ i \in N))
  <2> SUFFICES ASSUME NEW h \in Gens, NEW i \in pool'[h]
               PROVE  i \in Int /\ (i \in pool[h] \/ (h = g /\ i \in N))
    OBVIOUS
  <2>1. CASE h = g
    <3>1. N \subseteq Int
      BY <1>0
    <3> QED BY <2>1, <3>1, <1>0, Zenon
  <2>2. CASE h # g
    BY <2>2, <1>0
  <2> QED BY <2>1, <2>2
<1>1. PoolsDisjoint'
  <2>1. \A h \in Gens : \A i \in pool'[h] : i \in Int /\ i <= row'.max
    BY <1>0, <1>b DEF IInv, PoolsDisjoint
  <2>2. \A x \in issued' : x.id <= row'.max
    BY <1>0 DEF IInv, PoolsDisjoint
  <2>3. \A h, k \in Gens : h # k => \A i \in pool'[h] : i \notin pool'[k]
    BY <1>0 DEF IInv, PoolsDisjoint
  <2>4. \A h \in Gens : \A i \in pool'[h] : \A x \in issued' : x.id # i
    BY <1>0 DEF IInv, PoolsDisjoint
  <2> QED BY <2>1, <2>2, <2>3, <2>4 DEF PoolsDisjoint
<1>2. Ordered'
  <2>1. \A h \in Gens : \A i \in pool'[h] : \A x \in issued' : x.gen = h => x.id < i
    BY <1>0, <1>b DEF IInv, Ordered, PoolsDisjoint
  <2>2. \A h \in Gens : \A i \in left'[h], j \in ahead'[h] : i < j
    BY DEF IInv, Ordered
  <2> QED BY <2>1, <2>2 DEF Ordered
<1>3. Numbered' /\ UniqueIDs' /\ IncreasingIDs'
  BY DEF IInv, Numbered, UniqueIDs, IncreasingIDs
<1> QED BY <1>1, <1>2, <1>3

\* A step that issues one id of generator g, the least of its pool or of what it
\* has just fetched.
LEMMA IssueStep ==
    ASSUME IInv, TypeOK', NEW g \in Gens, NEW N \in SUBSET (row.max + 1 .. row'.max),
           row'.max >= row.max, NEW id \in Int, id \in pool[g] \cup N,
           issued' = issued \cup {[gen |-> g, nth |-> Cardinality({x \in issued : x.gen = g}), id |-> id]},
           \A h \in Gens : h # g => pool'[h] = pool[h] /\ left'[h] = left[h] /\ ahead'[h] = ahead[h],
           pool'[g] \subseteq pool[g] \cup N, \A i \in pool'[g] : id < i,
           \A i \in left'[g], j \in ahead'[g] : i < j
    PROVE  PoolsDisjoint' /\ Ordered' /\ Numbered' /\ UniqueIDs' /\ IncreasingIDs'
<1> DEFINE old == {x \in issued : x.gen = g}
           new == [gen |-> g, nth |-> Cardinality(old), id |-> id]
<1>0. /\ \A h \in Gens : pool[h] \subseteq Int
      /\ row.max \in Int /\ row'.max \in Int
      /\ \A x \in issued : x.id \in Int /\ x.gen \in Gens /\ x.nth \in Nat
  BY PoolType DEF IInv, TypeOK, Ints
<1>b. \A h \in Gens : \A i \in pool'[h] : i \in Int /\ (i \in pool[h] \/ (h = g /\ i \in N))
  <2> SUFFICES ASSUME NEW h \in Gens, NEW i \in pool'[h]
               PROVE  i \in Int /\ (i \in pool[h] \/ (h = g /\ i \in N))
    OBVIOUS
  <2>1. CASE h = g
    <3>1. N \subseteq Int
      BY <1>0
    <3> QED BY <2>1, <3>1, <1>0, Zenon
  <2>2. CASE h # g
    BY <2>2, <1>0
  <2> QED BY <2>1, <2>2
<1>1. issued' = issued \cup {new}
  OBVIOUS
<1>a. new.id = id /\ new.gen = g /\ new.nth = Cardinality(old)
  OBVIOUS
<1>2. IsFiniteSet(issued) /\ IsFiniteSet(old) /\ Cardinality(old) \in Nat
  <2>1. IsFiniteSet(issued)
    BY DEF IInv, Numbered
  <2>2. IsFiniteSet(old)
    BY <2>1, FS_Subset
  <2> QED BY <2>1, <2>2, FS_CardinalityType
<1>3. \A x \in issued : x.id # id /\ x.id <= row.max /\ (x.gen = g => x.id < id /\ x.nth < Cardinality(old))
  <2>1. \A x \in issued : x.id # id /\ (x.gen = g => x.id < id)
    BY <1>0 DEF IInv, PoolsDisjoint, Ordered
  <2>2. \A x \in issued : x.gen = g => x.nth < Cardinality(old)
    BY DEF IInv, Numbered
  <2> QED BY <2>1, <2>2 DEF IInv, PoolsDisjoint
<1>4. new \notin issued
  BY <1>3, <1>a
<1> HIDE DEF new
<1>5. PoolsDisjoint'
  <2>0. id <= row'.max
    BY <1>0, <1>b DEF IInv, PoolsDisjoint
  <2>1. \A h \in Gens : \A i \in pool'[h] : i \in Int /\ i <= row'.max
    BY <1>0, <1>b DEF IInv, PoolsDisjoint
  <2>2. \A x \in issued' : x.id <= row'.max
    BY <1>0, <1>1, <1>a, <2>0 DEF IInv, PoolsDisjoint
  <2>3. \A h, k \in Gens : h # k => \A i \in pool'[h] : i \notin pool'[k]
    BY <1>0, <1>b DEF IInv, PoolsDisjoint
  <2>4. \A h \in Gens : \A i \in pool'[h] : id # i
    BY <1>0, <1>b DEF IInv, PoolsDisjoint
  <2>5. \A h \in Gens : \A i \in pool'[h] : \A x \in issued : x.id # i
    BY <1>0, <1>b DEF IInv, PoolsDisjoint
  <2> QED BY <1>1, <1>a, <2>1, <2>2, <2>3, <2>4, <2>5 DEF PoolsDisjoint
<1>6. Ordered'
  <2>1. \A h \in Gens : \A i \in pool'[h] : \A x \in issued : x.gen = h => x.id < i
    BY <1>0, <1>b DEF IInv, Ordered, PoolsDisjoint
  <2>2. \A h \in Gens : \A i \in left'[h], j \in ahead'[h] : i < j
    BY DEF IInv, Ordered
  <2> QED BY <1>1, <1>a, <2>1, <2>2 DEF Ordered
<1>7. Numbered'
  <2> DEFINE Of(h) == {y \in issued : y.gen = h}
             Of2(h) == {y \in issued' : y.gen = h}
  <2>1. IsFiniteSet(issued')
    <3>1. IsFiniteSet(issued \cup {new})
      BY <1>2, FS_AddElement
    <3> QED BY <1>1, <3>1
  <2>2. Of2(g) = old \cup {new} /\ new \notin old
    BY <1>1, <1>4, <1>a
  <2>3. Cardinality(Of2(g)) = Cardinality(old) + 1
    BY <2>2, <1>2, FS_AddElement
  <2>4. \A h : h # g => Of2(h) = Of(h)
    BY <1>1, <1>a
  <2>5. \A x \in issued : x.nth < Cardinality(Of(x.gen))
    BY DEF IInv, Numbered
  <2>6. \A x \in issued' : x.nth < Cardinality(Of2(x.gen))
    <3> SUFFICES ASSUME NEW x \in issued' PROVE x.nth < Cardinality(Of2(x.gen))
      OBVIOUS
    <3>1. CASE x = new
      BY <3>1, <1>a, <2>3, <1>2
    <3>2. CASE x \in issued /\ x.gen = g
      BY <3>2, <2>3, <1>2, <1>3, <1>0
    <3>3. CASE x \in issued /\ x.gen # g
      BY <3>3, <2>4, <2>5
    <3> QED BY <1>1, <3>1, <3>2, <3>3
  <2> QED BY <2>1, <2>6 DEF Numbered
<1>8. UniqueIDs'
  BY <1>1, <1>a, <1>3 DEF IInv, UniqueIDs
<1>9. IncreasingIDs'
  <2> HIDE DEF old
  <2> QED BY <1>0, <1>1, <1>a, <1>2, <1>3 DEF IInv, IncreasingIDs
<1> QED BY <1>5, <1>6, <1>7, <1>8, <1>9

-------------------------------------------------------------------------------
(* Facts about the operators. *)

\* The row and the segment a successful fetch leaves.
LEMMA FetchFacts ==
    ASSUME IInv, Fetch
    PROVE  /\ row' \in [max : -1..MaxInt, step : Nat] /\ row'.max >= 0 /\ row'.step > 0
           /\ row.max \in Int /\ row'.max = row.max + row.step /\ row.max < row'.max
           /\ MakeSegment \in Segments /\ Fresh(MakeSegment)
           /\ MakeSegment.first = row.max + 1 /\ MakeSegment.cur = row.max + 1
           /\ MakeSegment.last = row'.max /\ MakeSegment # NoSegment
<1>1. row # NoRow /\ row.max <= MaxInt - row.step
  BY DEF Fetch, CanFetch
<1>2. /\ row.max \in 0..MaxInt /\ row.step \in Nat \ {0} /\ row' = [row EXCEPT !.max = row.max + row.step]
      /\ row \in [max : -1..MaxInt, step : Nat]
  BY <1>1 DEF IInv, TypeOK, RowOK, Fetch
<1>3. row'.max = row.max + row.step /\ row'.step = row.step /\ row.max + row.step \in 0..MaxInt
  BY <1>1, <1>2
<1>4. row' \in [max : -1..MaxInt, step : Nat]
  BY <1>2, <1>3
<1>5. /\ MakeSegment = [first |-> row.max + 1, last |-> row.max + row.step, cur |-> row.max + 1]
      /\ MakeSegment \in Segments
  BY <1>1, <1>2 DEF MakeSegment, Segments, Ints
<1>6. Fresh(MakeSegment) /\ MakeSegment # NoSegment
  BY <1>2, <1>5 DEF Fresh, Whole, NoSegment
<1> QED BY <1>2, <1>3, <1>4, <1>5, <1>6

\* The row initTag leaves.
LEMMA InitTagFacts ==
    ASSUME IInv, NEW i \in 0..MaxInt, NEW n \in Nat \ {0}, InitTag(i, n)
    PROVE  /\ row' \in [max : -1..MaxInt, step : Nat] /\ row'.max >= 0 /\ row'.step > 0
           /\ row.max \in Int /\ row'.max \in Int /\ row'.max >= row.max
<1>1. CASE row = NoRow
  BY <1>1 DEF InitTag, NoRow
<1>2. CASE row # NoRow
  <2>1. row' = [row EXCEPT !.step = n] /\ row \in [max : -1..MaxInt, step : Nat] /\ row.max >= 0
    BY <1>2 DEF InitTag, IInv, RowOK, TypeOK
  <2> QED BY <2>1
<1> QED BY <1>1, <1>2

\* A failed fetch leaves the row, or what a fetch leaves.
LEMMA FetchFailsFacts ==
    ASSUME IInv, NEW g \in Gens, FetchFails(g)
    PROVE  /\ row' \in [max : -1..MaxInt, step : Nat]
           /\ row' = NoRow \/ (row'.max >= 0 /\ row'.step > 0)
           /\ row.max \in Int /\ row'.max \in Int /\ row'.max >= row.max
           /\ fails' \in 0..MaxFails
<1>1. fails' \in 0..MaxFails
  BY DEF FetchFails, IInv, TypeOK
<1>2. CASE row' = row
  BY <1>1, <1>2 DEF IInv, TypeOK, RowOK
<1>3. CASE Fetch
  BY <1>1, <1>3, FetchFacts
<1> QED BY <1>1, <1>2, <1>3 DEF FetchFails

\* What Goto does to the calls.
LEMMA GotoFacts ==
    ASSUME IInv, NEW c \in Callers, NEW p \in Places, Goto(c, p)
    PROVE  /\ call' \in [Callers -> CallStates]
           /\ \A d \in Callers : /\ call'[d].at = IF d = c THEN p ELSE call[d].at
                                 /\ call'[d].kind = call[d].kind /\ call'[d].step = call[d].step
           /\ GenOf[c] \in Gens
<1>1. call \in [Callers -> CallStates]
  BY DEF IInv, TypeOK
<1>2. [call[c] EXCEPT !.at = p] \in CallStates
  BY <1>1 DEF CallStates
<1> QED BY <1>1, <1>2 DEF CallStates, Goto

\* What a return does to the calls.
LEMMA ReturnFacts ==
    ASSUME IInv, NEW c \in Callers, ReturnFrom(c)
    PROVE  /\ call' \in [Callers -> CallStates]
           /\ \A d \in Callers : /\ call'[d].at = IF d = c THEN "out" ELSE call[d].at
                                 /\ call'[d].kind = IF d = c THEN "none" ELSE call[d].kind
                                 /\ call'[d].step = IF d = c THEN 0 ELSE call[d].step
           /\ GenOf[c] \in Gens
<1>1. call \in [Callers -> CallStates] /\ NoCall \in CallStates
  BY DEF IInv, TypeOK, NoCall, CallStates, Places
<1> QED BY <1>1 DEF ReturnFrom, NoCall

-------------------------------------------------------------------------------
(* The initial states satisfy the invariant. *)
LEMMA InitInv == Init => IInv
<1> SUFFICES ASSUME Init PROVE IInv
  OBVIOUS
<1> USE DEF NoBuffer, NoSegment, NoCall, Idle, NoRow
<1>1. TypeOK
  BY DEF Init, TypeOK, Segments, Ints, Places, CallStates, Buffers, Loaders
<1>2. RowOK /\ SegmentsOK
  BY DEF Init, RowOK, SegmentsOK, Whole, Fresh
<1>3. MutexOK /\ LoadOK /\ ReadyOK
  BY DEF Init, MutexOK, LoadOK, ReadyOK, Holds, Creates
<1>4. \A g \in Gens : left[g] = {} /\ ahead[g] = {} /\ pool[g] = {}
  BY DEF Init, pool, left, ahead
<1>5. PoolsDisjoint /\ Ordered
  BY <1>4 DEF Init, PoolsDisjoint, Ordered
<1>6. Numbered /\ UniqueIDs /\ IncreasingIDs
  BY FS_EmptySet DEF Init, Numbered, UniqueIDs, IncreasingIDs
<1> QED BY <1>1, <1>2, <1>3, <1>5, <1>6 DEF IInv

-------------------------------------------------------------------------------
(* Every action preserves the invariant. *)

\* A step that leaves the segments, the loaders and the ids issued alone keeps
\* the pools.
LEMMA PoolsKept ==
    ASSUME IInv, TypeOK', NEW g \in Gens, row'.max >= row.max, issued' = issued,
           \A h \in Gens : /\ buf'[h].current = buf[h].current /\ buf'[h].exhausted = buf[h].exhausted
                           /\ buf'[h].next = buf[h].next /\ loader'[h].segment = loader[h].segment
    PROVE  PoolsDisjoint' /\ Ordered' /\ Numbered' /\ UniqueIDs' /\ IncreasingIDs'
<1>1. left' = left /\ ahead' = ahead /\ pool' = pool
  BY DEF left, ahead, pool
<1>2. \A i \in left'[g], j \in ahead'[g] : i < j
  BY <1>1 DEF IInv, Ordered
<1>3. {} \in SUBSET (row.max + 1 .. row'.max)
  OBVIOUS
<1> QED BY <1>1, <1>2, <1>3, PoolsStep

\* Call.
LEMMA CallInv == ASSUME IInv, NEW c \in Callers, NEW a \in Args, Call(c, a) PROVE IInv'
<1> DEFINE g == GenOf[c]
<1>0. /\ g \in Gens /\ a \in CallStates /\ a.kind # "none" /\ a.step > 0
      /\ buf \in [Gens -> Buffers] /\ call \in [Callers -> CallStates]
  <2>1. a \in CallStates /\ a.kind # "none" /\ a.step > 0
    <3>1. CASE a = [at |-> "out", kind |-> "get", start |-> 0, step |-> DefaultStep]
      BY <3>1 DEF CallStates, Places
    <3>2. CASE \E i \in Starts, n \in Steps : a = [at |-> "out", kind |-> "init", start |-> i, step |-> n]
      <4>1. PICK i \in Starts, n \in Steps : a = [at |-> "out", kind |-> "init", start |-> i, step |-> n]
        BY <3>2
      <4>2. i \in 0..MaxInt /\ n \in Nat \ {0}
        OBVIOUS
      <4> QED BY <4>1, <4>2 DEF CallStates, Places
    <3> QED BY <3>1, <3>2 DEF Args
  <2> QED BY <2>1 DEF IInv, TypeOK
<1>1. PICK p \in {"tag", "wait"} :
        /\ call' = [call EXCEPT ![c] = [a EXCEPT !.at = p]]
        /\ p = "tag" => buf[g].state = "absent" /\ buf' = [buf EXCEPT ![g].state = "init"]
        /\ p = "wait" => buf' = buf
        /\ calls' \in 0..MaxCalls
  BY DEF Call, IInv, TypeOK
<1>2. [a EXCEPT !.at = p] \in CallStates
  BY <1>0 DEF CallStates, Places
<1>3. buf' \in [Gens -> Buffers] /\ call' \in [Callers -> CallStates]
  BY <1>0, <1>1, <1>2 DEF Buffers
<1>4. UNCHANGED <<row, loader, issued, closed, returned, fails>>
  BY DEF Call
<1>5. TypeOK'
  BY <1>1, <1>3, <1>4 DEF IInv, TypeOK
<1>6. \A h \in Gens : /\ buf'[h].current = buf[h].current /\ buf'[h].exhausted = buf[h].exhausted
                      /\ buf'[h].next = buf[h].next /\ buf'[h].loading = buf[h].loading
                      /\ buf'[h].locked = buf[h].locked
                      /\ buf'[h].state = "ready" <=> buf[h].state = "ready"
                      /\ buf[h].state = "init" => buf'[h].state = "init"
  BY <1>0, <1>1 DEF Buffers
<1>7. RowOK' /\ SegmentsOK'
  BY <1>0, <1>1, <1>4, <1>6 DEF IInv, RowOK, SegmentsOK, CallStates
<1>8. MutexOK'
  <2>1. \A d \in Callers : /\ call'[d].at = IF d = c THEN p ELSE call[d].at
                           /\ call'[d].kind = IF d = c THEN a.kind ELSE call[d].kind
    BY <1>0, <1>1 DEF CallStates
  <2>2. p = "tag" => buf'[g].state = "init" /\ \A d \in Callers : GenOf[d] = g => ~Creates(d)
    BY <1>0, <1>1 DEF IInv, MutexOK, Buffers
  <2>3. \A d \in Callers : Holds(d)' => buf'[GenOf[d]].locked
    BY <1>6, <2>1 DEF IInv, MutexOK, Holds
  <2>4. \A d \in Callers : Creates(d)' => buf'[GenOf[d]].state = "init" /\ call'[d].kind # "none"
    BY <1>0, <1>6, <2>1, <2>2 DEF IInv, MutexOK, Creates
  <2>5. \A d, e \in Callers : GenOf[d] = GenOf[e] /\ d # e =>
          ~(Holds(d)' /\ Holds(e)') /\ ~(Creates(d)' /\ Creates(e)')
    BY <1>6, <2>1, <2>2 DEF IInv, MutexOK, Holds, Creates
  <2> QED BY <2>3, <2>4, <2>5 DEF MutexOK
<1>9. LoadOK'
  BY <1>0, <1>1, <1>4, <1>6, SMTT(30) DEF IInv, LoadOK, MustLoad, Spent, CallStates
<1>10. ReadyOK'
  BY <1>0, <1>1, <1>4, <1>6, SMTT(30) DEF IInv, ReadyOK, CallStates
<1>11. row'.max >= row.max
  BY <1>4 DEF IInv, TypeOK
<1>12. PoolsDisjoint' /\ Ordered' /\ Numbered' /\ UniqueIDs' /\ IncreasingIDs'
  BY <1>0, <1>4, <1>5, <1>6, <1>11, PoolsKept
<1> QED BY <1>5, <1>7, <1>8, <1>9, <1>10, <1>12 DEF IInv

\* A step of one caller that leaves the buffers and the loaders alone, takes no
\* lock and becomes no creator.
LEMMA MoveInv ==
    ASSUME IInv, TypeOK', NEW c \in Callers, NEW p,
           UNCHANGED <<buf, loader, issued>>,
           row' = NoRow \/ (row'.max >= 0 /\ row'.step > 0), row'.max >= row.max,
           \A d \in Callers : /\ call'[d].at = IF d = c THEN p ELSE call[d].at
                              /\ call'[d].kind # "none" => /\ call[d].kind # "none"
                                                           /\ call'[d].step = call[d].step
                              /\ d # c => call'[d].kind = call[d].kind,
           \/ p = "out"
           \/ p = "wait"
           \/ p = "first" /\ call[c].at = "tag" /\ call'[c].kind = call[c].kind
           \/ p = "spawn" /\ call[c].at = "start"
           \/ p \in {"next", "loading"} /\ buf[GenOf[c]].state = "ready"
    PROVE  IInv'
<1>1. RowOK' /\ SegmentsOK'
  BY DEF IInv, RowOK, SegmentsOK
<1>2. MutexOK'
  <2>1. \A d \in Callers : Holds(d)' => Holds(d)
    BY DEF Holds
  <2>2. \A d \in Callers : Creates(d)' => Creates(d) /\ call'[d].kind = call[d].kind
    BY DEF Creates
  <2> QED BY <2>1, <2>2 DEF IInv, MutexOK
<1>3. LoadOK'
  BY DEF IInv, LoadOK
<1>4. ReadyOK'
  BY DEF IInv, ReadyOK
<1>5. PoolsDisjoint' /\ Ordered' /\ Numbered' /\ UniqueIDs' /\ IncreasingIDs'
  BY PoolsKept, GenOf[c] \in Gens
<1> QED BY <1>1, <1>2, <1>3, <1>4, <1>5 DEF IInv

\* initializeBuffer writes the tag.
LEMMA CreatorTagsInv == ASSUME IInv, NEW c \in Callers, CreatorTags(c) PROVE IInv'
<1>1. /\ call[c].at = "tag" /\ InitTag(call[c].start, call[c].step) /\ Goto(c, "first")
      /\ UNCHANGED <<buf, loader, issued, closed, returned, calls, fails>>
  BY DEF CreatorTags, At
<1>2. call[c].start \in 0..MaxInt /\ call[c].step \in Nat \ {0}
  BY <1>1 DEF IInv, TypeOK, MutexOK, RowOK, Creates, CallStates
<1>3. /\ row' \in [max : -1..MaxInt, step : Nat] /\ row'.max >= 0 /\ row'.step > 0
      /\ row.max \in Int /\ row'.max \in Int /\ row'.max >= row.max
  BY <1>1, <1>2, InitTagFacts
<1>4. /\ call' \in [Callers -> CallStates]
      /\ \A d \in Callers : /\ call'[d].at = IF d = c THEN "first" ELSE call[d].at
                            /\ call'[d].kind = call[d].kind /\ call'[d].step = call[d].step
  BY <1>1, GotoFacts, "first" \in Places DEF Places
<1>5. TypeOK'
  BY <1>1, <1>3, <1>4 DEF IInv, TypeOK
<1>6. (row' = NoRow \/ (row'.max >= 0 /\ row'.step > 0)) /\ row'.max >= row.max
  BY <1>3
<1> QED BY <1>1, <1>4, <1>5, <1>6, MoveInv, SMTT(30)

\* Ready.
LEMMA ReadyInv == ASSUME IInv, NEW c \in Callers, Ready(c) PROVE IInv'
<1>1. /\ call[c].at = "wait" /\ buf[GenOf[c]].state = "ready"
      /\ UNCHANGED <<buf, loader, issued, closed, returned, calls, fails>>
  BY DEF Ready, At
<1>2. CASE call[c].kind = "get" /\ Goto(c, "next") /\ UNCHANGED row
  <2>1. /\ call' \in [Callers -> CallStates]
        /\ \A d \in Callers : /\ call'[d].at = IF d = c THEN "next" ELSE call[d].at
                              /\ call'[d].kind = call[d].kind /\ call'[d].step = call[d].step
    BY <1>2, GotoFacts, "next" \in Places DEF Places
  <2>2. TypeOK'
    BY <1>1, <1>2, <2>1 DEF IInv, TypeOK
  <2>3. (row' = NoRow \/ (row'.max >= 0 /\ row'.step > 0)) /\ row'.max >= row.max
    BY <1>2 DEF IInv, TypeOK, RowOK
  <2> QED BY <1>1, <2>1, <2>2, <2>3, MoveInv, ZenonT(30)
<1>3. CASE call[c].kind = "init" /\ InitTag(call[c].start, call[c].step) /\ ReturnFrom(c)
  <2>1. call[c].start \in 0..MaxInt /\ call[c].step \in Nat \ {0}
    BY <1>3 DEF IInv, TypeOK, RowOK, CallStates
  <2>2. /\ row' \in [max : -1..MaxInt, step : Nat] /\ row'.max >= 0 /\ row'.step > 0
        /\ row.max \in Int /\ row'.max \in Int /\ row'.max >= row.max
    BY <1>3, <2>1, InitTagFacts
  <2>3. /\ call' \in [Callers -> CallStates]
        /\ \A d \in Callers : /\ call'[d].at = IF d = c THEN "out" ELSE call[d].at
                              /\ call'[d].kind = IF d = c THEN "none" ELSE call[d].kind
                              /\ call'[d].step = IF d = c THEN 0 ELSE call[d].step
    BY <1>3, ReturnFacts
  <2>4. TypeOK'
    BY <1>1, <2>2, <2>3 DEF IInv, TypeOK
  <2>5. (row' = NoRow \/ (row'.max >= 0 /\ row'.step > 0)) /\ row'.max >= row.max
    BY <2>2
  <2> QED BY <1>1, <2>3, <2>4, <2>5, MoveInv, ZenonT(30)
<1> QED BY <1>2, <1>3 DEF Ready

\* GiveUp.
LEMMA GiveUpInv == ASSUME IInv, NEW c \in Callers, GiveUp(c) PROVE IInv'
<1>1. ReturnFrom(c) /\ UNCHANGED <<row, buf, loader, issued, closed, returned, calls, fails>>
  BY DEF GiveUp
<1>2. /\ call' \in [Callers -> CallStates]
      /\ \A d \in Callers : /\ call'[d].at = IF d = c THEN "out" ELSE call[d].at
                            /\ call'[d].kind = IF d = c THEN "none" ELSE call[d].kind
                            /\ call'[d].step = IF d = c THEN 0 ELSE call[d].step
  BY <1>1, ReturnFacts
<1>3. TypeOK'
  BY <1>1, <1>2 DEF IInv, TypeOK
<1>4. (row' = NoRow \/ (row'.max >= 0 /\ row'.step > 0)) /\ row'.max >= row.max
  BY <1>1 DEF IInv, TypeOK, RowOK
<1> QED BY <1>1, <1>2, <1>3, <1>4, MoveInv

\* StartAllowed.
LEMMA StartAllowedInv == ASSUME IInv, NEW c \in Callers, StartAllowed(c) PROVE IInv'
<1>1. /\ call[c].at = "start" /\ Goto(c, "spawn")
      /\ UNCHANGED <<row, buf, loader, issued, closed, returned, calls, fails>>
  BY DEF StartAllowed, At
<1>2. /\ call' \in [Callers -> CallStates]
      /\ \A d \in Callers : /\ call'[d].at = IF d = c THEN "spawn" ELSE call[d].at
                            /\ call'[d].kind = call[d].kind /\ call'[d].step = call[d].step
  BY <1>1, GotoFacts, "spawn" \in Places DEF Places
<1>3. TypeOK'
  BY <1>1, <1>2 DEF IInv, TypeOK
<1>4. (row' = NoRow \/ (row'.max >= 0 /\ row'.step > 0)) /\ row'.max >= row.max
  BY <1>1 DEF IInv, TypeOK, RowOK
<1> QED BY <1>1, <1>2, <1>3, <1>4, MoveInv

\* initializeBuffer fills the first segment: all its ids are new.
LEMMA CreatorFetchesInv == ASSUME IInv, NEW c \in Callers, CreatorFetches(c) PROVE IInv'
<1> DEFINE g == GenOf[c]
           seg == MakeSegment
<1>1. /\ call[c].at = "first" /\ Fetch
      /\ buf' = [buf EXCEPT ![g].state = "ready", ![g].current = seg]
      /\ UNCHANGED <<loader, issued, closed, returned, calls, fails>>
  BY DEF CreatorFetches, At
<1>2. /\ row' \in [max : -1..MaxInt, step : Nat] /\ row'.max >= 0 /\ row'.step > 0
      /\ row.max \in Int /\ row'.max \in Int /\ row.max < row'.max
      /\ seg \in Segments /\ Fresh(seg) /\ seg.first = row.max + 1 /\ seg.cur = row.max + 1
      /\ seg.last = row'.max
  BY <1>1, FetchFacts
<1> HIDE DEF seg
<1>3. g \in Gens /\ Creates(c) /\ buf[g].state = "init" /\ buf \in [Gens -> Buffers]
  BY <1>1 DEF Creates, IInv, MutexOK, TypeOK
<1>4. /\ buf[g].current = NoSegment /\ buf[g].next = NoSegment
      /\ ~buf[g].exhausted /\ ~buf[g].loading /\ ~buf[g].locked /\ loader[g] = Idle
      /\ \A x \in issued : x.gen # g
  BY <1>3 DEF IInv, ReadyOK
<1>5. PICK p \in {"wait", "out"} :
      /\ call' \in [Callers -> CallStates]
      /\ \A d \in Callers : /\ call'[d].at = IF d = c THEN p ELSE call[d].at
                            /\ d # c => call'[d].kind = call[d].kind
                            /\ call'[d].kind # "none" => /\ call[d].kind # "none"
                                                         /\ call'[d].step = call[d].step
  <2>1. CASE Goto(c, "wait")
    BY <2>1, GotoFacts, "wait" \in Places DEF Places
  <2>2. CASE ReturnFrom(c)
    BY <2>2, ReturnFacts
  <2> QED BY <2>1, <2>2 DEF CreatorFetches
<1>6. /\ buf' \in [Gens -> Buffers]
      /\ \A h \in Gens : h # g => buf'[h] = buf[h]
      /\ buf'[g].state = "ready" /\ buf'[g].current = seg /\ buf'[g].next = buf[g].next
      /\ buf'[g].exhausted = buf[g].exhausted /\ buf'[g].loading = buf[g].loading
      /\ buf'[g].locked = buf[g].locked
  BY <1>1, <1>2, <1>3, ZenonT(30) DEF Buffers
<1>7. TypeOK'
  BY <1>1, <1>2, <1>5, <1>6 DEF IInv, TypeOK
<1>8. RowOK' /\ SegmentsOK'
  <2>1. RowOK'
    BY <1>2, <1>5 DEF IInv, RowOK
  <2>2. SegmentsOK'
    BY <1>1, <1>2, <1>6 DEF IInv, SegmentsOK, Fresh
  <2> QED BY <2>1, <2>2
<1>9. MutexOK'
  <2>1. \A d \in Callers : Holds(d)' => Holds(d)
    BY <1>5 DEF Holds
  <2>2. \A d \in Callers : Creates(d)' => d # c /\ Creates(d) /\ GenOf[d] # g /\ call'[d].kind = call[d].kind
    BY <1>3, <1>5 DEF Creates, IInv, MutexOK
  <2> QED BY <1>6, <2>1, <2>2 DEF IInv, MutexOK
<1>10. LoadOK' /\ ReadyOK'
  <2>1. \A d \in Callers : call'[d].at \in {"next", "loading", "sync", "start", "spawn"} =>
          call'[d].at = call[d].at /\ GenOf[d] \in Gens /\ GenOf[d] # g
    BY <1>3, <1>5 DEF IInv, ReadyOK
  <2>2. LoadOK'
    BY <1>1, <1>4, <1>6, <2>1 DEF IInv, LoadOK
  <2>3. ReadyOK'
    BY <1>1, <1>6, <2>1 DEF IInv, ReadyOK
  <2> QED BY <2>2, <2>3
<1>11. /\ \A h \in Gens : h # g => pool'[h] = pool[h] /\ left'[h] = left[h] /\ ahead'[h] = ahead[h]
       /\ ahead'[g] = {} /\ left'[g] = seg.cur .. seg.last /\ pool'[g] = seg.cur .. seg.last
  <2>1. \A h \in Gens : h # g => left'[h] = left[h] /\ ahead'[h] = ahead[h]
    BY <1>1, <1>6 DEF left, ahead
  <2>2. \A h \in Gens : h # g => pool'[h] = pool[h]
    BY <2>1 DEF pool
  <2>3. left'[g] = seg.cur .. seg.last
    BY <1>3, <1>4, <1>6 DEF left
  <2>4. ahead'[g] = {}
    BY <1>1, <1>3, <1>4, <1>6 DEF ahead, NoSegment, Idle
  <2>5. pool'[g] = seg.cur .. seg.last
    BY <1>3, <2>3, <2>4 DEF pool
  <2> QED BY <2>1, <2>2, <2>3, <2>4, <2>5
<1>12. PoolsDisjoint' /\ Ordered' /\ Numbered' /\ UniqueIDs' /\ IncreasingIDs'
  <2>1. pool'[g] \in SUBSET (row.max + 1 .. row'.max)
    BY <1>2, <1>11
  <2>2. \A i \in left'[g], j \in ahead'[g] : i < j
    BY <1>11
  <2>3. row'.max >= row.max
    BY <1>2
  <2> QED BY <1>1, <1>3, <1>7, <1>11, <2>1, <2>2, <2>3, PoolsStep
<1> QED BY <1>7, <1>8, <1>9, <1>10, <1>12 DEF IInv

\* A creation that fails: the buffer, still empty, goes.
LEMMA CreatorFailsInv == ASSUME IInv, NEW c \in Callers, CreatorFails(c) PROVE IInv'
<1> DEFINE g == GenOf[c]
<1>1. /\ buf' = [buf EXCEPT ![g] = NoBuffer]
      /\ call' = [x \in Callers |-> IF x = c \/ x \in Waiting(g, "wait") THEN NoCall ELSE call[x]]
      /\ UNCHANGED <<loader, issued, closed, returned, calls>>
      /\ Creates(c) /\ g \in Gens
  BY DEF CreatorFails, Creates, At
<1>2. /\ row' \in [max : -1..MaxInt, step : Nat]
      /\ row' = NoRow \/ (row'.max >= 0 /\ row'.step > 0)
      /\ row'.max >= row.max /\ fails' \in 0..MaxFails
  <2>1. CASE FetchFails(g)
    BY <1>1, <2>1, FetchFailsFacts
  <2>2. CASE /\ At(c, "tag")
             /\ \/ closed[g] /\ UNCHANGED fails
                \/ fails < MaxFails /\ fails' = fails + 1
             /\ UNCHANGED row \/ InitTag(call[c].start, call[c].step)
    <3>1. fails' \in 0..MaxFails
      BY <2>2 DEF IInv, TypeOK
    <3>2. CASE UNCHANGED row
      BY <3>1, <3>2 DEF IInv, TypeOK, RowOK
    <3>3. CASE InitTag(call[c].start, call[c].step)
      <4>1. call[c].start \in 0..MaxInt /\ call[c].step \in Nat \ {0}
        BY <1>1 DEF IInv, TypeOK, MutexOK, RowOK, CallStates
      <4> QED BY <3>1, <3>3, <4>1, InitTagFacts
    <3> QED BY <2>2, <3>2, <3>3
  <2> QED BY <2>1, <2>2 DEF CreatorFails
<1>3. buf[g].state = "init" /\ buf \in [Gens -> Buffers] /\ call \in [Callers -> CallStates]
  BY <1>1 DEF Creates, IInv, MutexOK, TypeOK
<1>4. /\ buf[g].current = NoSegment /\ buf[g].next = NoSegment
      /\ ~buf[g].exhausted /\ ~buf[g].loading /\ ~buf[g].locked /\ loader[g] = Idle
      /\ \A x \in issued : x.gen # g
  BY <1>3, <1>1 DEF IInv, ReadyOK
<1>5. NoBuffer \in Buffers /\ NoCall \in CallStates
  BY DEF NoBuffer, NoCall, Buffers, CallStates, Places, Segments, NoSegment, Ints
<1>6. buf' \in [Gens -> Buffers] /\ call' \in [Callers -> CallStates]
  BY <1>1, <1>3, <1>5
<1>7. TypeOK'
  BY <1>1, <1>2, <1>6 DEF IInv, TypeOK
<1>8. \A d \in Callers : \/ call'[d] = call[d] /\ d # c
                         \/ call'[d].at = "out" /\ call'[d].kind = "none"
  BY <1>1 DEF NoCall
<1>9. /\ \A h \in Gens : h # g => buf'[h] = buf[h]
      /\ buf'[g].state = "absent" /\ buf'[g].current = NoSegment /\ buf'[g].next = NoSegment
      /\ ~buf'[g].exhausted /\ ~buf'[g].loading /\ ~buf'[g].locked
      /\ \A h \in Gens : /\ buf'[h].current = buf[h].current /\ buf'[h].exhausted = buf[h].exhausted
                         /\ buf'[h].next = buf[h].next
  BY <1>1, <1>3, <1>4 DEF NoBuffer, Buffers
<1>10. RowOK' /\ SegmentsOK'
  BY <1>1, <1>2, <1>8, <1>9 DEF IInv, RowOK, SegmentsOK
<1>11. MutexOK'
  <2>1. \A d \in Callers : Holds(d)' => Holds(d) /\ GenOf[d] # g
    BY <1>4, <1>8 DEF Holds, IInv, MutexOK
  <2>2. \A d \in Callers : Creates(d)' => Creates(d) /\ GenOf[d] # g /\ call'[d] = call[d]
    BY <1>1, <1>8 DEF Creates, IInv, MutexOK
  <2> QED BY <1>9, <2>1, <2>2 DEF IInv, MutexOK
<1>12. LoadOK' /\ ReadyOK'
  <2>1. \A d \in Callers : call'[d].at \in {"next", "loading", "sync", "start", "spawn"} =>
          call'[d].at = call[d].at /\ GenOf[d] \in Gens /\ GenOf[d] # g
    BY <1>3, <1>8 DEF IInv, ReadyOK
  <2>2. LoadOK'
    BY <1>1, <1>4, <1>9, <2>1 DEF IInv, LoadOK
  <2>3. ReadyOK'
    BY <1>1, <1>4, <1>9, <2>1 DEF IInv, ReadyOK
  <2> QED BY <2>2, <2>3
<1>13. PoolsDisjoint' /\ Ordered' /\ Numbered' /\ UniqueIDs' /\ IncreasingIDs'
  BY <1>1, <1>2, <1>7, <1>9, PoolsKept
<1> QED BY <1>7, <1>10, <1>11, <1>12, <1>13 DEF IInv

\* The end of nextID, for whatever buffer b the caller found or made: its cursor
\* is the least id of the pool, or of what was fetched under the lock.
LEMMA HandOutInv ==
    ASSUME IInv, NEW c \in Callers, NEW b \in Buffers, HandOut(c, b),
           NEW N \in SUBSET (row.max + 1 .. row'.max), row'.max >= row.max,
           row' \in [max : -1..MaxInt, step : Nat],
           row' = NoRow \/ (row'.max >= 0 /\ row'.step > 0),
           UNCHANGED <<closed, returned, calls, fails>>,
           call[c].at \in {"next", "sync"},
           \A d \in Callers : d # c /\ GenOf[d] = GenOf[c] => ~Holds(d),
           b.state = "ready", buf[GenOf[c]].state = "ready",
           Whole(b.current), b.current # NoSegment, ~b.exhausted, Fresh(b.next),
           b.loading => b.next = NoSegment, loader[GenOf[c]] # Idle => b.loading,
           b.current.cur .. b.current.last \subseteq pool[GenOf[c]] \cup N,
           b.next.first .. b.next.last \subseteq pool[GenOf[c]],
           \A i \in b.current.cur .. b.current.last :
              \A j \in (b.next.first .. b.next.last)
                         \cup (loader[GenOf[c]].segment.first .. loader[GenOf[c]].segment.last) : i < j
    PROVE  IInv'
<1> DEFINE g == GenOf[c]
           cur == b.current.cur
           last == b.current.last
           start == Preload(b, cur)
           nb == [Advance(b) EXCEPT !.loading = @ \/ start, !.locked = start]
<1>0. g \in Gens /\ buf \in [Gens -> Buffers] /\ start \in BOOLEAN
  BY DEF IInv, TypeOK, Preload
<1>1. /\ issued' = issued \cup {[gen |-> g, nth |-> Cardinality({x \in issued : x.gen = g}), id |-> cur]}
      /\ buf' = [buf EXCEPT ![g] = nb]
      /\ loader' = loader
      /\ IF start THEN Goto(c, "start") ELSE ReturnFrom(c)
  BY DEF HandOut
<1>2. /\ b.current \in Segments /\ cur \in Ints /\ last \in Ints /\ cur <= last /\ b.current.first <= cur
      /\ 0 < b.current.first /\ b.current.first \in Ints
  BY DEF Buffers, Segments, Whole
<1>3. cur # last => Succ(cur) = cur + 1 /\ cur + 1 \in Ints /\ cur + 1 <= last
  BY <1>2 DEF Succ, Ints
<1>4. /\ nb \in Buffers /\ nb.state = "ready" /\ nb.next = b.next
      /\ nb.loading = (b.loading \/ start) /\ nb.locked = start
      /\ nb.exhausted <=> cur = last
      /\ nb.current.first = b.current.first /\ nb.current.last = last
      /\ nb.current.cur = IF cur = last THEN cur ELSE cur + 1
  <2>1. CASE cur = last
    <3>1. Advance(b) = [b EXCEPT !.exhausted = TRUE]
      BY <2>1 DEF Advance
    <3> HIDE DEF start
    <3> QED BY <1>0, <2>1, <3>1 DEF Buffers
  <2>2. CASE cur # last
    <3>1. Advance(b) = [b EXCEPT !.current.cur = cur + 1]
      BY <1>3, <2>2 DEF Advance
    <3>2. Advance(b) \in Buffers
      BY <1>2, <1>3, <2>2, <3>1 DEF Buffers, Segments
    <3>3. /\ Advance(b).current.cur = cur + 1 /\ Advance(b).current.last = last
          /\ Advance(b).current.first = b.current.first /\ Advance(b).next = b.next
          /\ Advance(b).loading = b.loading /\ Advance(b).state = "ready" /\ ~Advance(b).exhausted
      BY <1>2, <3>1 DEF Buffers, Segments
    <3> HIDE DEF start
    <3> QED BY <1>0, <2>2, <3>2, <3>3 DEF Buffers
  <2> QED BY <2>1, <2>2
<1>5. start => ~b.loading /\ b.next = NoSegment /\ loader[g] = Idle
  BY DEF Preload
<1>6. PICK p \in {"start", "out"} :
      /\ p = "start" <=> start
      /\ call' \in [Callers -> CallStates]
      /\ \A d \in Callers : /\ call'[d].at = IF d = c THEN p ELSE call[d].at
                            /\ d # c => call'[d].kind = call[d].kind
                            /\ call'[d].kind # "none" => /\ call[d].kind # "none"
                                                         /\ call'[d].step = call[d].step
  <2> HIDE DEF start
  <2>1. CASE start
    <3>1. Goto(c, "start")
      BY <1>1, <2>1
    <3> QED BY <2>1, <3>1, GotoFacts, "start" \in Places DEF Places
  <2>2. CASE ~start
    <3>1. ReturnFrom(c)
      BY <1>1, <2>2
    <3> QED BY <2>2, <3>1, ReturnFacts
  <2> QED BY <2>1, <2>2
<1> HIDE DEF nb, start
<1>7. /\ buf' \in [Gens -> Buffers] /\ buf'[g] = nb
      /\ \A h \in Gens : h # g => buf'[h] = buf[h]
  BY <1>0, <1>1, <1>4
<1>8. TypeOK'
  <2>1. Cardinality({x \in issued : x.gen = g}) \in Nat
    BY FS_Subset, FS_CardinalityType DEF IInv, Numbered
  <2>2. issued' \subseteq [gen : Gens, nth : Nat, id : Ints]
    BY <1>0, <1>1, <1>2, <2>1 DEF IInv, TypeOK
  <2> QED BY <1>1, <1>6, <1>7, <2>2 DEF IInv, TypeOK
<1>9. RowOK' /\ SegmentsOK'
  <2>1. RowOK'
    BY <1>6 DEF IInv, RowOK
  <2>2. Whole(nb.current)
    BY <1>2, <1>3, <1>4 DEF Whole, Ints
  <2>3. SegmentsOK'
    BY <1>1, <1>4, <1>7, <2>2 DEF IInv, SegmentsOK
  <2> QED BY <2>1, <2>3
<1>10. MutexOK'
  <2>1. \A d \in Callers : Holds(d)' => (d = c /\ start) \/ (Holds(d) /\ d # c /\ GenOf[d] # g)
    BY <1>6 DEF Holds
  <2>2. \A d \in Callers : Creates(d)' => Creates(d) /\ GenOf[d] # g /\ call'[d].kind = call[d].kind
    BY <1>6 DEF Creates, IInv, MutexOK
  <2>3. \A d \in Callers : Holds(d)' => buf'[GenOf[d]].locked
    BY <1>0, <1>4, <1>7, <2>1 DEF IInv, MutexOK
  <2>4. \A d \in Callers : Creates(d)' => buf'[GenOf[d]].state = "init" /\ call'[d].kind # "none"
    BY <1>0, <1>7, <2>2 DEF IInv, MutexOK
  <2>5. \A d, e \in Callers : GenOf[d] = GenOf[e] /\ d # e =>
          ~(Holds(d)' /\ Holds(e)') /\ ~(Creates(d)' /\ Creates(e)')
    BY <2>1, <2>2 DEF IInv, MutexOK
  <2> QED BY <2>3, <2>4, <2>5 DEF MutexOK
<1>11. LoadOK'
  <2>1. \A d \in Callers : call'[d].at \in {"sync", "start", "spawn"} =>
          \/ d = c /\ call'[d].at = "start" /\ start
          \/ d # c /\ GenOf[d] # g /\ call'[d].at = call[d].at
    BY <1>6 DEF Holds
  <2>2. \A d \in Callers : call'[d].at = "sync" => MustLoad(buf'[GenOf[d]])
    BY <1>0, <1>7, <2>1 DEF IInv, LoadOK
  <2>3. \A d \in Callers : call'[d].at \in {"start", "spawn"} =>
          buf'[GenOf[d]].loading /\ loader'[GenOf[d]] = Idle
    BY <1>0, <1>1, <1>4, <1>5, <1>7, <2>1 DEF IInv, LoadOK
  <2>4. \A h \in Gens : /\ loader'[h] # Idle => buf'[h].loading
                        /\ buf'[h].loading => buf'[h].next = NoSegment
                        /\ loader'[h].state # "done" => loader'[h].segment = NoSegment
    BY <1>1, <1>4, <1>5, <1>7 DEF IInv, LoadOK
  <2> QED BY <2>2, <2>3, <2>4 DEF LoadOK
<1>12. ReadyOK'
  BY <1>0, <1>1, <1>4, <1>6, <1>7 DEF IInv, ReadyOK
<1>13. /\ \A h \in Gens : h # g => pool'[h] = pool[h] /\ left'[h] = left[h] /\ ahead'[h] = ahead[h]
       /\ left'[g] = IF cur = last THEN {} ELSE cur + 1 .. last
       /\ ahead'[g] = (b.next.first .. b.next.last) \cup (loader[g].segment.first .. loader[g].segment.last)
       /\ pool'[g] = left'[g] \cup ahead'[g]
  <2>1. \A h \in Gens : h # g => left'[h] = left[h] /\ ahead'[h] = ahead[h]
    BY <1>1, <1>7 DEF left, ahead
  <2>2. \A h \in Gens : h # g => pool'[h] = pool[h]
    BY <2>1 DEF pool
  <2>3. left'[g] = IF cur = last THEN {} ELSE cur + 1 .. last
    BY <1>0, <1>4, <1>7 DEF left
  <2>4. ahead'[g] = (b.next.first .. b.next.last) \cup (loader[g].segment.first .. loader[g].segment.last)
    BY <1>0, <1>1, <1>4, <1>7 DEF ahead
  <2>5. pool'[g] = left'[g] \cup ahead'[g]
    BY <1>0 DEF pool
  <2> QED BY <2>1, <2>2, <2>3, <2>4, <2>5
<1>14. PoolsDisjoint' /\ Ordered' /\ Numbered' /\ UniqueIDs' /\ IncreasingIDs'
  <2>1. cur \in Int /\ last \in Int /\ cur <= last /\ cur \in pool[g] \cup N
    BY <1>2 DEF Ints
  <2>2. left'[g] \subseteq cur .. last /\ \A i \in left'[g] : cur < i
    BY <1>13, <2>1
  <2>3. \A j \in ahead'[g] : cur < j
    BY <1>13, <2>1
  <2>4. \A i \in left'[g], j \in ahead'[g] : i < j
    BY <1>13, <2>2
  <2>5. loader[g].segment.first .. loader[g].segment.last \subseteq pool[g]
    BY <1>0 DEF pool, ahead
  <2>6. pool'[g] \subseteq pool[g] \cup N
    BY <1>13, <2>2, <2>5
  <2>7. \A i \in pool'[g] : cur < i
    BY <1>13, <2>2, <2>3
  <2> HIDE DEF cur, last
  <2> QED BY <1>0, <1>1, <1>8, <1>13, <2>1, <2>4, <2>6, <2>7, IssueStep
<1> QED BY <1>8, <1>9, <1>10, <1>11, <1>12, <1>14 DEF IInv

\* nextID, under mu.
LEMMA NextIDInv == ASSUME IInv, NEW c \in Callers, NextID(c) PROVE IInv'
<1> DEFINE g == GenOf[c]
           b == buf[g]
           switched == [b EXCEPT !.current = b.next, !.exhausted = FALSE, !.next = NoSegment]
<1>1. call[c].at = "next" /\ ~b.locked /\ UNCHANGED <<row, closed, returned, calls, fails>>
  BY DEF NextID, At
<1>2. /\ g \in Gens /\ b \in Buffers /\ b.state = "ready" /\ buf \in [Gens -> Buffers]
      /\ call \in [Callers -> CallStates] /\ loader[g] \in Loaders
  BY <1>1 DEF IInv, TypeOK, ReadyOK
<1>3. \A d \in Callers : GenOf[d] = g => ~Holds(d)
  BY <1>1 DEF IInv, MutexOK
<1>4. /\ row' \in [max : -1..MaxInt, step : Nat] /\ row'.max >= row.max
      /\ row' = NoRow \/ (row'.max >= 0 /\ row'.step > 0)
      /\ {} \in SUBSET (row.max + 1 .. row'.max)
  BY <1>1 DEF IInv, TypeOK, RowOK
<1>5. /\ b.loading => b.next = NoSegment
      /\ loader[g] # Idle => b.loading
      /\ loader[g].state # "done" => loader[g].segment = NoSegment
      /\ Whole(b.current) /\ Fresh(b.next)
  BY <1>2 DEF IInv, LoadOK, SegmentsOK
<1>6. CASE ~Spent(b) /\ HandOut(c, b)
  <2>1. ~b.exhausted /\ b.current.cur <= b.current.last /\ b.current # NoSegment
    BY <1>2, <1>6 DEF Spent, Buffers, Segments, Ints, NoSegment
  <2>2. /\ left[g] = b.current.cur .. b.current.last
        /\ ahead[g] = (b.next.first .. b.next.last) \cup (loader[g].segment.first .. loader[g].segment.last)
        /\ pool[g] = left[g] \cup ahead[g]
    BY <1>2, <2>1 DEF left, ahead, pool
  <2>3. \A i \in b.current.cur .. b.current.last :
          \A j \in (b.next.first .. b.next.last)
                     \cup (loader[g].segment.first .. loader[g].segment.last) : i < j
    BY <1>2, <2>2 DEF IInv, Ordered
  <2> HIDE DEF b
  <2>4. /\ b.current.cur .. b.current.last \subseteq pool[g] \cup {}
        /\ b.next.first .. b.next.last \subseteq pool[g]
    BY <2>2
  <2> QED BY <1>1, <1>2, <1>3, <1>4, <1>5, <1>6, <2>1, <2>3, <2>4, HandOutInv DEF b
<1>7. CASE Spent(b) /\ b.next # NoSegment /\ HandOut(c, switched)
  <2>1. ~b.loading /\ loader[g] = Idle
    BY <1>5, <1>7
  <2>2. /\ switched \in Buffers /\ switched.state = "ready" /\ switched.current = b.next
        /\ ~switched.exhausted /\ switched.next = NoSegment /\ ~switched.loading
    <3>1. NoSegment \in Segments
      BY DEF Segments, NoSegment, Ints
    <3> QED BY <1>2, <2>1, <3>1 DEF Buffers
  <2>3. /\ Whole(switched.current) /\ switched.current # NoSegment /\ Fresh(switched.next)
        /\ b.next.cur = b.next.first
    BY <1>5, <1>7, <2>2 DEF Fresh, Whole, NoSegment
  <2>4. ahead[g] = (b.next.first .. b.next.last) \cup (loader[g].segment.first .. loader[g].segment.last)
    BY <1>2 DEF ahead
  <2>5. b.next.first .. b.next.last \subseteq pool[g]
    BY <1>2, <2>4 DEF pool
  <2>6. /\ switched.next.first .. switched.next.last = {}
        /\ loader[g].segment.first .. loader[g].segment.last = {}
    BY <2>1, <2>2 DEF NoSegment, Idle
  <2> HIDE DEF switched
  <2>7. /\ switched.current.cur .. switched.current.last \subseteq pool[g] \cup {}
        /\ switched.next.first .. switched.next.last \subseteq pool[g]
        /\ \A i \in switched.current.cur .. switched.current.last :
             \A j \in (switched.next.first .. switched.next.last)
                        \cup (loader[g].segment.first .. loader[g].segment.last) : i < j
    BY <2>2, <2>3, <2>5, <2>6
  <2> QED BY <1>1, <1>2, <1>3, <1>4, <1>7, <2>1, <2>2, <2>3, <2>7, HandOutInv
<1>8. CASE /\ Spent(b) /\ b.next = NoSegment /\ b.loading
           /\ Goto(c, "loading") /\ UNCHANGED <<buf, loader, issued>>
  <2>1. /\ call' \in [Callers -> CallStates]
        /\ \A d \in Callers : /\ call'[d].at = IF d = c THEN "loading" ELSE call[d].at
                              /\ call'[d].kind = call[d].kind /\ call'[d].step = call[d].step
    BY <1>8, GotoFacts, "loading" \in Places DEF Places
  <2>2. TypeOK'
    BY <1>1, <1>8, <2>1 DEF IInv, TypeOK
  <2> QED BY <1>1, <1>2, <1>4, <1>8, <2>1, <2>2, MoveInv, ZenonT(30)
<1>9. CASE /\ MustLoad(b) /\ buf' = [buf EXCEPT ![g].locked = TRUE]
           /\ Goto(c, "sync") /\ UNCHANGED <<loader, issued>>
  <2>1. /\ call' \in [Callers -> CallStates]
        /\ \A d \in Callers : /\ call'[d].at = IF d = c THEN "sync" ELSE call[d].at
                              /\ call'[d].kind = call[d].kind /\ call'[d].step = call[d].step
    BY <1>9, GotoFacts, "sync" \in Places DEF Places
  <2>2. /\ buf' \in [Gens -> Buffers] /\ \A h \in Gens : h # g => buf'[h] = buf[h]
        /\ buf'[g].locked
        /\ \A h \in Gens : /\ buf'[h].current = buf[h].current /\ buf'[h].exhausted = buf[h].exhausted
                           /\ buf'[h].next = buf[h].next /\ buf'[h].loading = buf[h].loading
                           /\ buf'[h].state = buf[h].state
    BY <1>2, <1>9 DEF Buffers
  <2>3. TypeOK'
    BY <1>1, <1>9, <2>1, <2>2 DEF IInv, TypeOK
  <2>4. RowOK' /\ SegmentsOK'
    BY <1>1, <1>9, <2>1, <2>2 DEF IInv, RowOK, SegmentsOK
  <2>5. MutexOK'
    <3>1. \A d \in Callers : Holds(d)' => d = c \/ (Holds(d) /\ GenOf[d] # g)
      BY <1>3, <2>1 DEF Holds
    <3>2. \A d \in Callers : Creates(d)' => Creates(d)
      BY <2>1 DEF Creates
    <3> QED BY <1>2, <2>1, <2>2, <3>1, <3>2, SMTT(30) DEF IInv, MutexOK
  <2>6. LoadOK'
    <3>1. \A d \in Callers : call'[d].at \in {"sync", "start", "spawn"} =>
            \/ d = c /\ call'[d].at = "sync"
            \/ d # c /\ GenOf[d] # g /\ call'[d].at = call[d].at
      BY <1>3, <2>1 DEF Holds
    <3>2. MustLoad(buf'[g])
      BY <1>2, <1>9, <2>2 DEF MustLoad, Spent
    <3>3. \A d \in Callers : call'[d].at = "sync" => MustLoad(buf'[GenOf[d]])
      BY <1>2, <2>2, <3>1, <3>2 DEF IInv, LoadOK
    <3>4. \A d \in Callers : call'[d].at \in {"start", "spawn"} =>
            buf'[GenOf[d]].loading /\ loader'[GenOf[d]] = Idle
      BY <1>2, <1>9, <2>2, <3>1 DEF IInv, LoadOK
    <3>5. \A h \in Gens : loader'[h] = loader[h] /\ buf'[h].loading = buf[h].loading
                          /\ buf'[h].next = buf[h].next
      BY <1>9, <2>2
    <3>6. \A h \in Gens : /\ loader[h] # Idle => buf[h].loading
                          /\ buf[h].loading => buf[h].next = NoSegment
                          /\ loader[h].state # "done" => loader[h].segment = NoSegment
      BY DEF IInv, LoadOK
    <3>7. \A h \in Gens : /\ loader'[h] # Idle => buf'[h].loading
                          /\ buf'[h].loading => buf'[h].next = NoSegment
                          /\ loader'[h].state # "done" => loader'[h].segment = NoSegment
      BY <3>5, <3>6
    <3> HIDE DEF g, b, switched
    <3> QED BY <3>3, <3>4, <3>7 DEF LoadOK
  <2>7. ReadyOK'
    <3>1. \A h \in Gens : h # g => buf'[h].locked = buf[h].locked
      BY <2>2
    <3>2. \A h \in Gens : buf'[h].state # "ready" => h # g /\ buf[h].state # "ready"
      BY <1>2, <2>2
    <3> QED BY <1>2, <1>9, <2>1, <2>2, <3>1, <3>2 DEF IInv, ReadyOK
  <2>8. PoolsDisjoint' /\ Ordered' /\ Numbered' /\ UniqueIDs' /\ IncreasingIDs'
    BY <1>2, <1>4, <1>9, <2>2, <2>3, PoolsKept
  <2> QED BY <2>3, <2>4, <2>5, <2>6, <2>7, <2>8 DEF IInv
<1> QED BY <1>6, <1>7, <1>8, <1>9 DEF NextID

\* The fetch under mu: the new segment is the whole pool.
LEMMA SyncFetchInv == ASSUME IInv, NEW c \in Callers, SyncFetch(c) PROVE IInv'
<1> DEFINE g == GenOf[c]
           seg == MakeSegment
           b == [buf[g] EXCEPT !.current = seg, !.exhausted = FALSE]
<1>1. /\ call[c].at = "sync" /\ Fetch /\ HandOut(c, b)
      /\ UNCHANGED <<closed, returned, calls, fails>>
  BY DEF SyncFetch, At
<1>2. /\ row' \in [max : -1..MaxInt, step : Nat] /\ row'.max >= 0 /\ row'.step > 0
      /\ row.max \in Int /\ row'.max \in Int /\ row.max < row'.max
      /\ seg \in Segments /\ Fresh(seg) /\ seg.first = row.max + 1 /\ seg.cur = row.max + 1
      /\ seg.last = row'.max /\ seg # NoSegment
  BY <1>1, FetchFacts
<1> HIDE DEF seg
<1>3. g \in Gens /\ buf[g] \in Buffers /\ buf[g].state = "ready"
  BY <1>1 DEF IInv, TypeOK, ReadyOK
<1>4. buf[g].next = NoSegment /\ ~buf[g].loading /\ loader[g] = Idle
  BY <1>1, <1>3 DEF IInv, LoadOK, MustLoad
<1>5. \A d \in Callers : d # c /\ GenOf[d] = g => ~Holds(d)
  BY <1>1 DEF IInv, MutexOK, Holds
<1>6. /\ b \in Buffers /\ b.state = "ready" /\ b.current = seg /\ ~b.exhausted
      /\ b.next = NoSegment /\ ~b.loading
  BY <1>2, <1>3, <1>4 DEF Buffers
<1>7. Whole(b.current) /\ Fresh(b.next)
  BY <1>2, <1>6 DEF Fresh, Whole, NoSegment
<1>8. b.next.first .. b.next.last = {} /\ loader[g].segment.first .. loader[g].segment.last = {}
  BY <1>4, <1>6 DEF NoSegment, Idle
<1> HIDE DEF b
<1> DEFINE N == row.max + 1 .. row'.max
<1>9. /\ N \in SUBSET (row.max + 1 .. row'.max) /\ row'.max >= row.max
      /\ row' = NoRow \/ (row'.max >= 0 /\ row'.step > 0)
      /\ b.current.cur .. b.current.last \subseteq pool[g] \cup N
      /\ b.next.first .. b.next.last \subseteq pool[g]
      /\ \A i \in b.current.cur .. b.current.last :
           \A j \in (b.next.first .. b.next.last)
                      \cup (loader[g].segment.first .. loader[g].segment.last) : i < j
  BY <1>2, <1>6, <1>8
<1> HIDE DEF N
<1> QED BY <1>1, <1>2, <1>3, <1>4, <1>5, <1>6, <1>7, <1>9, HandOutInv

\* A step that releases mu or the load of generator g, and moves the caller c, or
\* wakes the waiters.
LEMMA ReleaseInv ==
    ASSUME IInv, TypeOK', NEW g \in Gens, issued' = issued,
           row' = NoRow \/ (row'.max >= 0 /\ row'.step > 0), row'.max >= row.max,
           \A h \in Gens : h # g => buf'[h] = buf[h] /\ loader'[h] = loader[h],
           buf[g].state = "ready", buf'[g].state = "ready",
           buf'[g].current = buf[g].current, buf'[g].exhausted = buf[g].exhausted,
           buf'[g].next = buf[g].next, loader'[g].segment = loader[g].segment,
           loader'[g] # Idle => buf'[g].loading,
           buf'[g].loading => buf[g].next = NoSegment,
           loader'[g].state # "done" => loader'[g].segment = NoSegment,
           \A d \in Callers : \/ call'[d].at = call[d].at /\ call'[d].kind = call[d].kind /\ call'[d].step = call[d].step
                              \/ call'[d].at = "out" /\ call'[d].kind = "none"
                              \/ /\ call[d].at = "loading" /\ call'[d].at = "next"
                                 /\ call'[d].kind = call[d].kind /\ call'[d].step = call[d].step,
           \A d \in Callers : GenOf[d] = g => ~Holds(d)'
    PROVE  IInv'
<1>1. RowOK' /\ SegmentsOK'
  BY DEF IInv, RowOK, SegmentsOK
<1>2. MutexOK'
  <2>1. \A d \in Callers : Holds(d)' => Holds(d) /\ GenOf[d] # g /\ GenOf[d] \in Gens
    BY DEF Holds
  <2>2. \A d \in Callers : Creates(d)' => Creates(d) /\ GenOf[d] # g /\ GenOf[d] \in Gens /\ call'[d].kind = call[d].kind
    BY DEF Creates, IInv, MutexOK
  <2> QED BY <2>1, <2>2 DEF IInv, MutexOK
<1>3. LoadOK'
  <2>1. \A d \in Callers : call'[d].at \in {"sync", "start", "spawn"} =>
          call'[d].at = call[d].at /\ GenOf[d] # g /\ GenOf[d] \in Gens
    BY DEF Holds
  <2>2. \A d \in Callers : call'[d].at = "sync" => MustLoad(buf'[GenOf[d]])
    BY <2>1 DEF IInv, LoadOK
  <2>3. \A d \in Callers : call'[d].at \in {"start", "spawn"} =>
          buf'[GenOf[d]].loading /\ loader'[GenOf[d]] = Idle
    BY <2>1 DEF IInv, LoadOK
  <2>4. \A h \in Gens : /\ loader'[h] # Idle => buf'[h].loading
                        /\ buf'[h].loading => buf'[h].next = NoSegment
                        /\ loader'[h].state # "done" => loader'[h].segment = NoSegment
    BY DEF IInv, LoadOK
  <2> QED BY <2>2, <2>3, <2>4 DEF LoadOK
<1>4. ReadyOK'
  <2>1. \A d \in Callers : call'[d].at \in {"next", "loading", "sync", "start", "spawn"} =>
          call[d].at \in {"next", "loading", "sync", "start", "spawn"}
    OBVIOUS
  <2> QED BY <2>1 DEF IInv, ReadyOK
<1>5. PoolsDisjoint' /\ Ordered' /\ Numbered' /\ UniqueIDs' /\ IncreasingIDs'
  <2>1. \A h \in Gens : /\ buf'[h].current = buf[h].current /\ buf'[h].exhausted = buf[h].exhausted
                        /\ buf'[h].next = buf[h].next /\ loader'[h].segment = loader[h].segment
    OBVIOUS
  <2> QED BY <2>1, PoolsKept
<1> QED BY <1>1, <1>2, <1>3, <1>4, <1>5 DEF IInv

\* SyncFails.
LEMMA SyncFailsInv == ASSUME IInv, NEW c \in Callers, SyncFails(c) PROVE IInv'
<1> DEFINE g == GenOf[c]
<1>1. /\ call[c].at = "sync" /\ FetchFails(g) /\ ReturnFrom(c)
      /\ buf' = [buf EXCEPT ![g].locked = FALSE]
      /\ UNCHANGED <<loader, issued, closed, returned, calls>>
  BY DEF SyncFails, At
<1>2. /\ g \in Gens /\ buf \in [Gens -> Buffers] /\ buf[g].state = "ready"
      /\ \A d \in Callers : d # c /\ GenOf[d] = g => ~Holds(d)
  BY <1>1 DEF IInv, TypeOK, ReadyOK, MutexOK, Holds
<1>3. /\ row' \in [max : -1..MaxInt, step : Nat]
      /\ row' = NoRow \/ (row'.max >= 0 /\ row'.step > 0)
      /\ row'.max >= row.max /\ fails' \in 0..MaxFails
  BY <1>1, <1>2, FetchFailsFacts
<1>4. /\ call' \in [Callers -> CallStates]
      /\ \A d \in Callers : /\ call'[d].at = IF d = c THEN "out" ELSE call[d].at
                            /\ call'[d].kind = IF d = c THEN "none" ELSE call[d].kind
                            /\ call'[d].step = IF d = c THEN 0 ELSE call[d].step
  BY <1>1, ReturnFacts
<1>5. /\ buf' \in [Gens -> Buffers] /\ \A h \in Gens : h # g => buf'[h] = buf[h]
      /\ buf'[g].current = buf[g].current /\ buf'[g].exhausted = buf[g].exhausted
      /\ buf'[g].next = buf[g].next /\ buf'[g].loading = buf[g].loading
      /\ buf'[g].state = buf[g].state
  BY <1>1, <1>2 DEF Buffers
<1>6. TypeOK'
  BY <1>1, <1>3, <1>4, <1>5 DEF IInv, TypeOK
<1>7. \A d \in Callers : GenOf[d] = g => ~Holds(d)'
  BY <1>2, <1>4 DEF Holds
<1>8. /\ loader[g] # Idle => buf[g].loading
      /\ buf[g].loading => buf[g].next = NoSegment
      /\ loader[g].state # "done" => loader[g].segment = NoSegment
  BY <1>2 DEF IInv, LoadOK
<1> QED BY <1>1, <1>2, <1>3, <1>4, <1>5, <1>6, <1>7, <1>8, ReleaseInv

\* The calls after every waiter was woken.
LEMMA WakeFacts ==
    ASSUME IInv, NEW g \in Gens
    PROVE  /\ WakeWaiters(g) \in [Callers -> CallStates]
           /\ \A d \in Callers :
                \/ WakeWaiters(g)[d] = call[d]
                \/ /\ call[d].at = "loading" /\ WakeWaiters(g)[d].at = "next"
                   /\ WakeWaiters(g)[d].kind = call[d].kind /\ WakeWaiters(g)[d].step = call[d].step
<1>1. call \in [Callers -> CallStates]
  BY DEF IInv, TypeOK
<1>2. \A d \in Callers : /\ [call[d] EXCEPT !.at = "next"] \in CallStates
                         /\ [call[d] EXCEPT !.at = "next"].at = "next"
                         /\ [call[d] EXCEPT !.at = "next"].kind = call[d].kind
                         /\ [call[d] EXCEPT !.at = "next"].step = call[d].step
  BY <1>1 DEF CallStates, Places
<1> QED BY <1>1, <1>2 DEF WakeWaiters, Waiting, At

\* StartRefused.
LEMMA StartRefusedInv == ASSUME IInv, NEW c \in Callers, StartRefused(c) PROVE IInv'
<1> DEFINE g == GenOf[c]
<1>1. /\ call[c].at = "start"
      /\ buf' = [buf EXCEPT ![g].loading = FALSE, ![g].locked = FALSE]
      /\ call' = [WakeWaiters(g) EXCEPT ![c] = NoCall]
      /\ UNCHANGED <<row, loader, issued, closed, returned, calls, fails>>
  BY DEF StartRefused, At
<1>2. /\ g \in Gens /\ buf \in [Gens -> Buffers] /\ buf[g].state = "ready"
      /\ \A d \in Callers : d # c /\ GenOf[d] = g => ~Holds(d)
      /\ loader[g] = Idle
  BY <1>1 DEF IInv, TypeOK, ReadyOK, MutexOK, LoadOK, Holds
<1>3. /\ row' \in [max : -1..MaxInt, step : Nat]
      /\ row' = NoRow \/ (row'.max >= 0 /\ row'.step > 0)
      /\ row'.max >= row.max
  BY <1>1 DEF IInv, TypeOK, RowOK
<1>4. /\ call' \in [Callers -> CallStates]
      /\ call'[c].at = "out" /\ call'[c].kind = "none"
      /\ \A d \in Callers : d # c => \/ call'[d] = call[d]
                                     \/ /\ call[d].at = "loading" /\ call'[d].at = "next"
                                        /\ call'[d].kind = call[d].kind /\ call'[d].step = call[d].step
  <2>1. NoCall \in CallStates /\ NoCall.at = "out" /\ NoCall.kind = "none"
    BY DEF NoCall, CallStates, Places
  <2> QED BY <1>1, <1>2, <2>1, WakeFacts
<1>5. /\ buf' \in [Gens -> Buffers] /\ \A h \in Gens : h # g => buf'[h] = buf[h]
      /\ buf'[g].current = buf[g].current /\ buf'[g].exhausted = buf[g].exhausted
      /\ buf'[g].next = buf[g].next /\ ~buf'[g].loading
      /\ buf'[g].state = buf[g].state
  BY <1>1, <1>2, ZenonT(30) DEF Buffers
<1>6. TypeOK'
  BY <1>1, <1>3, <1>4, <1>5 DEF IInv, TypeOK
<1>7. \A d \in Callers : GenOf[d] = g => ~Holds(d)'
  BY <1>2, <1>4 DEF Holds
<1>8. loader[g].state # "done" => loader[g].segment = NoSegment
  BY <1>2 DEF IInv, LoadOK
<1> QED BY <1>1, <1>2, <1>3, <1>4, <1>5, <1>6, <1>7, <1>8, ReleaseInv

\* Spawn.
LEMMA SpawnInv == ASSUME IInv, NEW c \in Callers, Spawn(c) PROVE IInv'
<1> DEFINE g == GenOf[c]
<1>1. /\ call[c].at = "spawn" /\ ReturnFrom(c)
      /\ loader' = [loader EXCEPT ![g] = [Idle EXCEPT !.state = "fetch"]]
      /\ buf' = [buf EXCEPT ![g].locked = FALSE]
      /\ UNCHANGED <<row, issued, closed, returned, calls, fails>>
  BY DEF Spawn, At
<1>2. /\ g \in Gens /\ buf \in [Gens -> Buffers] /\ buf[g].state = "ready" /\ loader \in [Gens -> Loaders]
      /\ \A d \in Callers : d # c /\ GenOf[d] = g => ~Holds(d)
      /\ loader[g] = Idle /\ buf[g].loading /\ buf[g].next = NoSegment
  BY <1>1 DEF IInv, TypeOK, ReadyOK, MutexOK, LoadOK, Holds
<1>3. /\ row' \in [max : -1..MaxInt, step : Nat]
      /\ row' = NoRow \/ (row'.max >= 0 /\ row'.step > 0)
      /\ row'.max >= row.max
  BY <1>1 DEF IInv, TypeOK, RowOK
<1>4. /\ call' \in [Callers -> CallStates]
      /\ \A d \in Callers : /\ call'[d].at = IF d = c THEN "out" ELSE call[d].at
                            /\ call'[d].kind = IF d = c THEN "none" ELSE call[d].kind
                            /\ call'[d].step = IF d = c THEN 0 ELSE call[d].step
  BY <1>1, ReturnFacts
<1>5. /\ buf' \in [Gens -> Buffers] /\ \A h \in Gens : h # g => buf'[h] = buf[h]
      /\ buf'[g].current = buf[g].current /\ buf'[g].exhausted = buf[g].exhausted
      /\ buf'[g].next = buf[g].next /\ buf'[g].loading = buf[g].loading
      /\ buf'[g].state = buf[g].state
  BY <1>1, <1>2 DEF Buffers
<1>6. /\ loader' \in [Gens -> Loaders] /\ \A h \in Gens : h # g => loader'[h] = loader[h]
      /\ loader'[g].segment = NoSegment /\ loader[g].segment = NoSegment
  <2>1. /\ [Idle EXCEPT !.state = "fetch"] \in Loaders /\ [Idle EXCEPT !.state = "fetch"].segment = NoSegment
        /\ Idle.segment = NoSegment
    BY DEF Loaders, Idle, Segments, NoSegment, Ints
  <2> QED BY <1>1, <1>2, <2>1
<1>7. TypeOK'
  BY <1>1, <1>3, <1>4, <1>5, <1>6 DEF IInv, TypeOK
<1>8. \A d \in Callers : GenOf[d] = g => ~Holds(d)'
  BY <1>2, <1>4 DEF Holds
<1> QED BY <1>1, <1>2, <1>3, <1>4, <1>5, <1>6, <1>7, <1>8, ReleaseInv

\* The preload's fetch: its segment goes ahead of what the generator has.
LEMMA LoaderFetchesInv == ASSUME IInv, NEW g \in Gens, LoaderFetches(g) PROVE IInv'
<1> DEFINE seg == MakeSegment
<1>1. /\ loader[g].state = "fetch" /\ Fetch
      /\ loader' = [loader EXCEPT ![g] = [state |-> "done", segment |-> seg]]
      /\ UNCHANGED <<buf, call, issued, closed, returned, calls, fails>>
  BY DEF LoaderFetches
<1>2. /\ row' \in [max : -1..MaxInt, step : Nat] /\ row'.max >= 0 /\ row'.step > 0
      /\ row.max \in Int /\ row'.max \in Int /\ row.max < row'.max
      /\ seg \in Segments /\ Fresh(seg) /\ seg.first = row.max + 1
      /\ seg.last = row'.max
  BY <1>1, FetchFacts
<1> HIDE DEF seg
<1>3. loader \in [Gens -> Loaders] /\ loader[g] # Idle /\ buf[g].loading /\ buf[g].next = NoSegment
  BY <1>1 DEF IInv, TypeOK, LoadOK, Idle
<1>4. /\ loader' \in [Gens -> Loaders] /\ \A h \in Gens : h # g => loader'[h] = loader[h]
      /\ loader'[g].segment = seg /\ loader'[g].state = "done"
  BY <1>1, <1>2, <1>3 DEF Loaders
<1>5. TypeOK'
  BY <1>1, <1>2, <1>4 DEF IInv, TypeOK
<1>6. RowOK' /\ SegmentsOK'
  BY <1>1, <1>2, <1>4 DEF IInv, RowOK, SegmentsOK
<1>7. MutexOK'
  BY <1>1 DEF IInv, MutexOK, Holds, Creates
<1>8. LoadOK' /\ ReadyOK'
  <2>1. LoadOK'
    BY <1>1, <1>3, <1>4 DEF IInv, LoadOK
  <2>2. buf[g].state = "ready"
    BY <1>3 DEF IInv, ReadyOK
  <2>3. ReadyOK'
    BY <1>1, <1>4, <2>2 DEF IInv, ReadyOK
  <2> QED BY <2>1, <2>3
<1>9. /\ \A h \in Gens : h # g => pool'[h] = pool[h] /\ left'[h] = left[h] /\ ahead'[h] = ahead[h]
      /\ ahead'[g] = row.max + 1 .. row'.max /\ left'[g] = left[g] /\ pool'[g] = left[g] \cup (row.max + 1 .. row'.max)
  <2>1. \A h \in Gens : h # g => left'[h] = left[h] /\ ahead'[h] = ahead[h]
    BY <1>1, <1>4 DEF left, ahead
  <2>2. \A h \in Gens : h # g => pool'[h] = pool[h]
    BY <2>1 DEF pool
  <2>3. left'[g] = left[g]
    BY <1>1 DEF left
  <2>4. ahead'[g] = row.max + 1 .. row'.max
    BY <1>1, <1>2, <1>3, <1>4 DEF ahead, NoSegment
  <2>5. pool'[g] = left[g] \cup (row.max + 1 .. row'.max)
    BY <2>3, <2>4 DEF pool
  <2> QED BY <2>1, <2>2, <2>3, <2>4, <2>5
<1>10. PoolsDisjoint' /\ Ordered' /\ Numbered' /\ UniqueIDs' /\ IncreasingIDs'
  <2> DEFINE N == row.max + 1 .. row'.max
  <2>1. left[g] \subseteq pool[g] /\ pool[g] \subseteq Int
    BY PoolType DEF pool, IInv
  <2>2. \A i \in left'[g], j \in ahead'[g] : i < j
    BY <1>2, <1>9, <2>1 DEF IInv, PoolsDisjoint
  <2>3. N \in SUBSET (row.max + 1 .. row'.max) /\ row'.max >= row.max /\ pool'[g] \subseteq pool[g] \cup N
    BY <1>2, <1>9, <2>1
  <2> HIDE DEF N
  <2> QED BY <1>1, <1>5, <1>9, <2>2, <2>3, PoolsStep
<1> QED BY <1>5, <1>6, <1>7, <1>8, <1>10 DEF IInv

\* LoaderFails.
LEMMA LoaderFailsInv == ASSUME IInv, NEW g \in Gens, LoaderFails(g) PROVE IInv'
<1>1. /\ loader[g].state = "fetch" /\ FetchFails(g)
      /\ loader' = [loader EXCEPT ![g].state = "done"]
      /\ UNCHANGED <<buf, call, issued, closed, returned, calls>>
  BY DEF LoaderFails
<1>2. /\ row' \in [max : -1..MaxInt, step : Nat]
      /\ row' = NoRow \/ (row'.max >= 0 /\ row'.step > 0)
      /\ row'.max >= row.max /\ fails' \in 0..MaxFails
  BY <1>1, FetchFailsFacts
<1>3. loader \in [Gens -> Loaders] /\ loader[g] # Idle /\ buf[g].loading /\ buf[g].next = NoSegment
  BY <1>1 DEF IInv, TypeOK, LoadOK, Idle
<1>4. /\ loader' \in [Gens -> Loaders] /\ \A h \in Gens : h # g => loader'[h] = loader[h]
      /\ loader'[g].segment = loader[g].segment /\ loader'[g].state = "done"
  BY <1>1, <1>2, <1>3 DEF Loaders
<1>5. TypeOK'
  BY <1>1, <1>2, <1>4 DEF IInv, TypeOK
<1>6. RowOK' /\ SegmentsOK'
  BY <1>1, <1>2, <1>4 DEF IInv, RowOK, SegmentsOK
<1>7. MutexOK'
  BY <1>1 DEF IInv, MutexOK, Holds, Creates
<1>8. LoadOK' /\ ReadyOK'
  <2>1. LoadOK'
    BY <1>1, <1>3, <1>4 DEF IInv, LoadOK
  <2>2. buf[g].state = "ready"
    BY <1>3 DEF IInv, ReadyOK
  <2>3. ReadyOK'
    BY <1>1, <1>4, <2>2 DEF IInv, ReadyOK
  <2> QED BY <2>1, <2>3
<1>9. PoolsDisjoint' /\ Ordered' /\ Numbered' /\ UniqueIDs' /\ IncreasingIDs'
  <2>1. \A h \in Gens : /\ buf'[h].current = buf[h].current /\ buf'[h].exhausted = buf[h].exhausted
                        /\ buf'[h].next = buf[h].next /\ loader'[h].segment = loader[h].segment
    BY <1>1, <1>4
  <2> QED BY <1>1, <1>2, <1>5, <2>1, PoolsKept
<1> QED BY <1>5, <1>6, <1>7, <1>8, <1>9 DEF IInv

\* loadNext stores what it fetched: the same ids, in another place.
LEMMA LoaderStoresInv == ASSUME IInv, NEW g \in Gens, LoaderStores(g) PROVE IInv'
<1>1. /\ loader[g].state = "done" /\ ~buf[g].locked
      /\ buf' = [buf EXCEPT ![g] = [buf[g] EXCEPT !.next = loader[g].segment, !.loading = FALSE]]
      /\ call' = WakeWaiters(g)
      /\ loader' = [loader EXCEPT ![g] = Idle]
      /\ UNCHANGED <<row, issued, closed, returned, calls, fails>>
  BY DEF LoaderStores, StoreNext, Done
<1>2. /\ loader \in [Gens -> Loaders] /\ buf \in [Gens -> Buffers] /\ Idle \in Loaders
      /\ loader[g] # Idle /\ buf[g].loading /\ buf[g].next = NoSegment
      /\ Idle.segment = NoSegment /\ Idle.state = "idle"
  BY <1>1 DEF IInv, TypeOK, LoadOK, Idle, Loaders, Segments, NoSegment, Ints
<1>3. buf[g].state = "ready"
  BY <1>2 DEF IInv, ReadyOK
<1>4. /\ call' \in [Callers -> CallStates]
      /\ \A d \in Callers : \/ call'[d] = call[d]
                            \/ /\ call[d].at = "loading" /\ call'[d].at = "next"
                               /\ call'[d].kind = call[d].kind /\ call'[d].step = call[d].step
  BY <1>1, WakeFacts
<1>5. /\ buf' \in [Gens -> Buffers] /\ \A h \in Gens : h # g => buf'[h] = buf[h]
      /\ buf'[g].current = buf[g].current /\ buf'[g].exhausted = buf[g].exhausted
      /\ buf'[g].next = loader[g].segment /\ ~buf'[g].loading
      /\ buf'[g].state = "ready" /\ buf'[g].locked = buf[g].locked
  BY <1>1, <1>2, <1>3 DEF Buffers, Loaders
<1>6. /\ loader' \in [Gens -> Loaders] /\ \A h \in Gens : h # g => loader'[h] = loader[h]
      /\ loader'[g] = Idle
  BY <1>1, <1>2
<1>7. TypeOK'
  BY <1>1, <1>4, <1>5, <1>6 DEF IInv, TypeOK
<1>8. RowOK' /\ SegmentsOK'
  <2>1. RowOK'
    BY <1>1, <1>4 DEF IInv, RowOK
  <2>2. Fresh(NoSegment)
    BY DEF Fresh, Whole, NoSegment
  <2>3. SegmentsOK'
    BY <1>2, <1>5, <1>6, <2>2 DEF IInv, SegmentsOK
  <2> QED BY <2>1, <2>3
<1>9. \A d \in Callers : /\ Holds(d)' => Holds(d) /\ GenOf[d] # g /\ call'[d] = call[d]
                         /\ Creates(d)' => Creates(d) /\ GenOf[d] # g /\ call'[d] = call[d]
  BY <1>1, <1>3, <1>4 DEF Holds, Creates, IInv, MutexOK
<1>10. MutexOK'
  BY <1>5, <1>9 DEF IInv, MutexOK
<1>11. LoadOK'
  <2>1. \A d \in Callers : call'[d].at \in {"sync", "start", "spawn"} =>
          call'[d].at = call[d].at /\ GenOf[d] # g /\ GenOf[d] \in Gens
    BY <1>9 DEF Holds
  <2> QED BY <1>2, <1>5, <1>6, <2>1 DEF IInv, LoadOK
<1>12. ReadyOK'
  <2>1. \A d \in Callers : call'[d].at \in {"next", "loading", "sync", "start", "spawn"} =>
          call[d].at \in {"next", "loading", "sync", "start", "spawn"}
    BY <1>4
  <2> QED BY <1>1, <1>3, <1>5, <1>6, <2>1 DEF IInv, ReadyOK
<1>13. left' = left /\ ahead' = ahead /\ pool' = pool
  <2>1. left' = left
    BY <1>5 DEF left
  <2>2. ahead'[g] = ahead[g]
    BY <1>2, <1>5, <1>6 DEF ahead, NoSegment
  <2>3. \A h \in Gens : h # g => ahead'[h] = ahead[h]
    BY <1>5, <1>6 DEF ahead
  <2>4. ahead' = ahead
    BY <2>2, <2>3 DEF ahead
  <2> QED BY <2>1, <2>4 DEF pool
<1>14. PoolsDisjoint' /\ Ordered' /\ Numbered' /\ UniqueIDs' /\ IncreasingIDs'
  BY <1>1, <1>13 DEF IInv, PoolsDisjoint, Ordered, Numbered, UniqueIDs, IncreasingIDs
<1> QED BY <1>7, <1>8, <1>10, <1>11, <1>12, <1>14 DEF IInv

\* Close and its return touch only their own flags; a stuttering step nothing.
LEMMA CloseInv ==
    ASSUME IInv, UNCHANGED <<row, buf, loader, call, issued, calls, fails>>,
           closed' \in [Gens -> BOOLEAN], returned' \in [Gens -> BOOLEAN]
    PROVE  IInv'
<1>1. TypeOK'
  BY DEF IInv, TypeOK
<1>2. RowOK' /\ SegmentsOK' /\ MutexOK' /\ LoadOK' /\ ReadyOK'
  BY DEF IInv, RowOK, SegmentsOK, MutexOK, LoadOK, ReadyOK, Holds, Creates
<1>3. left' = left /\ ahead' = ahead /\ pool' = pool
  BY DEF left, ahead, pool
<1>4. PoolsDisjoint' /\ Ordered' /\ Numbered' /\ UniqueIDs' /\ IncreasingIDs'
  BY <1>3 DEF IInv, PoolsDisjoint, Ordered, Numbered, UniqueIDs, IncreasingIDs
<1> QED BY <1>1, <1>2, <1>4 DEF IInv

\* Every step preserves the invariant.
LEMMA NextInv == IInv /\ [Next]_vars => IInv'
<1> SUFFICES ASSUME IInv, [Next]_vars PROVE IInv'
  OBVIOUS
<1>1. ASSUME NEW c \in Callers, NEW a \in Args, Call(c, a) PROVE IInv'
  BY <1>1, CallInv
<1>2. ASSUME NEW c \in Callers, CallerStep(c) \/ GiveUp(c) PROVE IInv'
  BY <1>2, CreatorTagsInv, CreatorFetchesInv, CreatorFailsInv, ReadyInv, NextIDInv, SyncFetchInv,
     SyncFailsInv, StartRefusedInv, StartAllowedInv, SpawnInv, GiveUpInv DEF CallerStep
<1>3. ASSUME NEW g \in Gens, LoaderStep(g) PROVE IInv'
  BY <1>3, LoaderFetchesInv, LoaderFailsInv, LoaderStoresInv DEF LoaderStep
<1>4. ASSUME NEW g \in Gens, Close(g) \/ CloseReturns(g) PROVE IInv'
  <2>1. closed' \in [Gens -> BOOLEAN] /\ returned' \in [Gens -> BOOLEAN]
    BY <1>4 DEF IInv, TypeOK, Close, CloseReturns
  <2> QED BY <1>4, <2>1, CloseInv DEF Close, CloseReturns
<1>5. CASE UNCHANGED vars
  <2>1. closed' \in [Gens -> BOOLEAN] /\ returned' \in [Gens -> BOOLEAN]
    BY <1>5 DEF IInv, TypeOK, vars
  <2> QED BY <1>5, <2>1, CloseInv DEF vars
<1> QED BY <1>1, <1>2, <1>3, <1>4, <1>5 DEF Next

\* The invariant holds in every state of every behaviour.
THEOREM Invariance == Spec => []IInv
BY InitInv, NextInv, PTL DEF Spec

\* No number of a generator or of the row ever leaves the int64 range (nextID,
\* fetchSegment), and every variable keeps its type.
THEOREM TypeCorrect == Spec => []TypeOK
<1>1. IInv => TypeOK
  BY DEF IInv
<1> QED BY Invariance, <1>1, PTL

\* No id is handed out twice, by any number of generators and callers, whatever
\* fetch fails, commits without an answer or races with another.
THEOREM IDsUnique == Spec => []UniqueIDs
<1>1. IInv => UniqueIDs
  BY DEF IInv
<1> QED BY Invariance, <1>1, PTL

\* The ids one generator hands out increase, across every switch to the next
\* segment and up to the greatest int64.
THEOREM IDsIncrease == Spec => []IncreasingIDs
<1>1. IInv => IncreasingIDs
  BY DEF IInv
<1> QED BY Invariance, <1>1, PTL
===============================================================================
