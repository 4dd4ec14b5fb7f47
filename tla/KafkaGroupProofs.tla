--------------------------- MODULE KafkaGroupProofs ---------------------------
(***************************************************************************)
(* Proofs about KafkaGroup for any members, partitions, records, slots,    *)
(* batch size and retries, and any number of rebalances, evictions, lost   *)
(* clients and stops.                                                      *)
(***************************************************************************)
EXTENDS KafkaGroup, FiniteSetTheorems, SequenceTheorems, TLAPS

(***************************************************************************)
(* The parts of the inductive invariant.  Those about a member are written *)
(* over the values of its variables.                                       *)
(***************************************************************************)

Alive(w) == w.pc \notin {"none", "done"}
Active(w) == Alive(w) /\ ~w.revoked
HasRecord(w) == w.pc \in {"acquire", "handle", "backoff", "dlq", "dlqwait", "complete"}

\* The offsets a worker has not completed yet.
Pend(w) == {w.queue[k] : k \in 1..Len(w.queue)} \cup (IF HasRecord(w) THEN {w.offset} ELSE {})

\* A worker's offsets increase, and whatever lies below them is settled or
\* among them; it is told to stop before its partition is taken away.
WorkerOK(w, done) ==
    /\ IF Alive(w) THEN w.member \in Members /\ w.part \in Partitions ELSE w.member = 0
    /\ \A j, k \in 1..Len(w.queue) : j < k => w.queue[j] < w.queue[k]
    /\ HasRecord(w) => \A k \in 1..Len(w.queue) : w.offset < w.queue[k]
    /\ \A x \in Pend(w) : \A o \in 0..(x - 1) : Record(w.part, o) \in done \/ o \in Pend(w)
    /\ w.pc = "complete" => Record(w.part, w.offset) \in done
    /\ w.pc = "backoff" => w.attempt < MaxRetries
    /\ Alive(w) /\ w.revoked => w.cancelled /\ w.queue = <<>>
    /\ Len(w.queue) < 3 * BatchSize /\ (~w.paused => Len(w.queue) < 2 * BatchSize)

\* The map has the workers of the partitions held, while the session runs.
MapOK(m, c, s, ws, n, W) ==
    \A p \in Partitions : ws[p] # 0 =>
        /\ s = "run" /\ p \in c.held /\ ws[p] \in 1..n
        /\ Alive(W[ws[p]]) => W[ws[p]].member = m /\ W[ws[p]].part = p /\ ~W[ws[p]].revoked

\* A callback has taken its worker out of the map.
CallbackOK(m, c, f, cb, ws, n, W) ==
    /\ cb.at = "none" => cb = NoCallback
    /\ cb.at # "none" => /\ cb.part \in Partitions /\ cb.part \in c.held /\ ws[cb.part] = 0
                         /\ f = <<>> /\ cb.worker \in 0..n
    /\ cb.worker # 0 /\ Alive(W[cb.worker]) =>
         /\ W[cb.worker].member = m /\ W[cb.worker].part = cb.part
         /\ cb.at \in {"forced", "lost"} => W[cb.worker].cancelled
         /\ cb.at = "commit" => W[cb.worker].revoked

\* Where a worker that may still mark its records is found.
ActiveOK(m, s, cb, ws, n, W) ==
    \A i \in 1..n : Active(W[i]) /\ W[i].member = m =>
        /\ s = "run" => ws[W[i].part] = i \/ cb.worker = i
        /\ s = "leaving" => cb.worker = i
        /\ s # "gone"

\* Records that were fetched and not yet dispatched are the last ones before
\* the client's position, of a partition that is not paused.
FetchOK(c, f, s, ws, W) == f # <<>> =>
    /\ s = "run"
    /\ \E p \in Partitions, o \in Offsets :
         /\ p \in c.held /\ c.pos[p] = o + Len(f) /\ Len(f) <= BatchSize
         /\ \A k \in 1..Len(f) : f[k] = Record(p, o + k - 1)
         /\ ws[p] # 0 /\ Alive(W[ws[p]]) => ~W[ws[p]].paused

\* The offset from which on the records of p have yet to be dispatched.
Front(c, f, p) == IF f # <<>> /\ f[1].part = p THEN f[1].offset ELSE c.pos[p]

\* What has been dispatched is settled or with the worker.
FrontOK(c, f, ws, W, done) ==
    \A p \in Partitions : ws[p] # 0 /\ Alive(W[ws[p]]) =>
        /\ \A x \in Pend(W[ws[p]]) : x < Front(c, f, p)
        /\ \A o \in 0..(Front(c, f, p) - 1) : Record(p, o) \in done \/ o \in Pend(W[ws[p]])
        /\ W[ws[p]].paused => p \in c.paused

\* What is marked is settled.
MarkOK(c, done) == \A p \in Partitions : \A o \in 0..(c.mark[p] - 1) : Record(p, o) \in done

\* The broker's view of a member, and that of its client.  A member that has
\* lost a partition joins again only when it has dropped it.
OwnerOK(m, own, j, c, f, cb, s) ==
    /\ \A p \in Partitions : own[p] = m <=> j /\ p \in c.held
    /\ cb.at = "lost" => ~j
    /\ s # "run" => f = <<>>
    /\ s = "gone" => c.held = {} /\ ~j /\ cb = NoCallback /\ \A p \in Partitions : c.mark[p] = 0

\* p is the partition of an orphan.
Left(O, p) == \E i \in WorkerIds : O[i] = p

\* Marks and active workers are about partitions the client holds, or of orphans.
LateOK(m, c, n, W, O) ==
    /\ \A p \in Partitions : c.mark[p] # 0 => p \in c.held \/ Left(O, p)
    /\ \A i \in 1..n : Active(W[i]) /\ W[i].member = m =>
         \/ O[i] = 0 /\ W[i].part \in c.held
         \/ O[i] = W[i].part

\* ... and the owner of a partition is ahead of the committed offset.
AdvanceOK(m, j, com, c, f, ws, n, W, O) == j =>
    /\ \A p \in Partitions : c.mark[p] # 0 /\ ~Left(O, p) => com[p] <= c.mark[p]
    /\ \A i \in 1..n : Active(W[i]) /\ W[i].member = m /\ ~Left(O, W[i].part) =>
         \A x \in Pend(W[i]) : com[W[i].part] <= x /\ c.mark[W[i].part] <= x
    /\ \A p \in Partitions : ws[p] # 0 /\ Alive(W[ws[p]]) /\ ~Left(O, p) =>
         com[p] <= Front(c, f, p) /\ c.mark[p] <= Front(c, f, p)

MemberOK(m, own, com, j, c, f, cb, s, ws, n, W, done, O) ==
    /\ MapOK(m, c, s, ws, n, W)
    /\ CallbackOK(m, c, f, cb, ws, n, W)
    /\ ActiveOK(m, s, cb, ws, n, W)
    /\ FetchOK(c, f, s, ws, W)
    /\ FrontOK(c, f, ws, W, done)
    /\ MarkOK(c, done)
    /\ OwnerOK(m, own, j, c, f, cb, s)
    /\ LateOK(m, c, n, W, O)
    /\ AdvanceOK(m, j, com, c, f, ws, n, W, O)

\* Records that are settled, or that a worker began above while nothing was committed.
Done == settled \cup {r \in [part : Partitions, offset : Offsets] : r.offset < start[r.part]}

MembersOK == \A m \in Members :
    MemberOK(m, owner, committed, joined[m], client[m], fetch[m], callback[m], session[m],
             workers[m], made, worker, Done, orphan)

WorkersOK ==
    /\ \A i \in WorkerIds : WorkerOK(worker[i], Done) /\ (i > made <=> worker[i].pc = "none")
    /\ \A i \in WorkerIds : i > made => orphan[i] = 0
    /\ \A i, j \in 1..made : Active(worker[i]) /\ Active(worker[j])
         /\ worker[i].member = worker[j].member /\ worker[i].part = worker[j].part => i = j

CommittedDone == \A p \in Partitions : \A o \in 0..(committed[p] - 1) : Record(p, o) \in Done

IInv == TypeOK /\ WorkersOK /\ MembersOK /\ SlotsAccounted /\ CommittedDone

USE KafkaGroupAssumption

-------------------------------------------------------------------------------
(* Facts about constants, records and sequences. *)

\* The ranges of the constants.
LEMMA Constants ==
    /\ LastOffset \in Nat /\ MaxRetries \in Nat /\ MaxMoves \in Nat /\ MaxLate \in Nat
    /\ MaxWorkers \in Nat /\ Backlog \in Positions
    /\ Concurrency \in Nat /\ Concurrency > 0 /\ BatchSize \in Nat /\ BatchSize > 0
    /\ 0 \in Offsets /\ 0 \in Positions /\ Offsets \subseteq Positions /\ Positions \subseteq Nat
    /\ \A o \in Offsets : o + 1 \in Positions
    /\ 0 \in 0..MaxWorkers /\ WorkerIds \subseteq 0..MaxWorkers /\ 0 \in 0..MaxRetries
    /\ \A m \in Members : m # 0
    /\ \A p \in Partitions : p # 0
BY DEF Offsets, Positions, WorkerIds

\* What a client, a callback and a worker start as.
LEMMA Fresh ==
    /\ NoClient \in Clients /\ NoCallback \in Callbacks /\ NoWorker \in Jobs
    /\ NoClient.held = {} /\ \A p \in Partitions : NoClient.pos[p] = 0 /\ NoClient.mark[p] = 0
    /\ NoCallback.at = "none" /\ NoCallback.worker = 0
    /\ NoWorker.pc = "none" /\ NoWorker.queue = <<>> /\ NoWorker.member = 0 /\ ~NoWorker.revoked
    /\ ~NoWorker.paused
<1>1. NoClient \in Clients
  BY Constants DEF NoClient, Clients
<1>2. NoCallback \in Callbacks
  BY Constants DEF NoCallback, Callbacks
<1>3. NoWorker \in Jobs
  BY Constants, EmptySeq DEF NoWorker, Jobs
<1> QED BY <1>1, <1>2, <1>3 DEF NoClient, NoCallback, NoWorker

\* A worker's offsets are offsets.
LEMMA PendType ==
    ASSUME NEW w \in Jobs
    PROVE  /\ Pend(w) \subseteq Offsets /\ Len(w.queue) \in Nat
           /\ \A k \in 1..Len(w.queue) : w.queue[k] \in Offsets /\ w.queue[k] \in Pend(w)
           /\ HasRecord(w) => w.offset \in Pend(w)
           /\ \A x \in Pend(w) : \/ \E k \in 1..Len(w.queue) : x = w.queue[k]
                                 \/ HasRecord(w) /\ x = w.offset
<1>1. w.queue \in Seq(Offsets) /\ w.offset \in Offsets
  BY DEF Jobs
<1>2. Len(w.queue) \in Nat /\ \A k \in 1..Len(w.queue) : w.queue[k] \in Offsets
  BY <1>1, LenProperties, ElementOfSeq
<1> QED BY <1>1, <1>2 DEF Pend

\* A worker with an empty queue and no record has nothing left.
LEMMA PendEmpty ==
    ASSUME NEW w, w.queue = <<>>, ~HasRecord(w) PROVE Pend(w) = {}
<1>1. Len(w.queue) = 0
  BY EmptySeq
<1> QED BY <1>1 DEF Pend

\* A worker that does not work.
LEMMA DeadOK ==
    ASSUME NEW w, NEW done, ~Alive(w), w.member = 0, w.queue = <<>>, ~w.paused
    PROVE  WorkerOK(w, done)
<1>1. ~HasRecord(w) /\ w.pc # "complete" /\ w.pc # "backoff"
  BY DEF Alive, HasRecord
<1>2. Pend(w) = {} /\ Len(w.queue) = 0
  BY <1>1, PendEmpty, EmptySeq
<1> QED BY <1>1, <1>2, Constants DEF WorkerOK

\* A worker stays as it should be when more is settled.
LEMMA WorkerOKMore ==
    ASSUME NEW w, NEW done, NEW more, done \subseteq more, WorkerOK(w, done)
    PROVE  WorkerOK(w, more)
BY DEF WorkerOK

\* A function on 1..n is a sequence of n.
LEMMA SeqOf ==
    ASSUME NEW S, NEW n \in Nat, NEW F \in [1..n -> S] PROVE F \in Seq(S) /\ Len(F) = n
OBVIOUS

\* The lesser, and the greater, of two numbers.
LEMMA MinTwo ==
    ASSUME NEW a \in Int, NEW b \in Int
    PROVE  Min({a, b}) \in {a, b} /\ Min({a, b}) <= a /\ Min({a, b}) <= b
<1>1. \E x \in {a, b} : \A y \in {a, b} : x <= y
  <2>1. CASE a <= b
    BY <2>1
  <2>2. CASE b <= a
    BY <2>2
  <2> QED BY <2>1, <2>2
<1>2. Min({a, b}) \in {a, b} /\ \A y \in {a, b} : Min({a, b}) <= y
  BY <1>1 DEF Min
<1> QED BY <1>2

LEMMA MaxTwo ==
    ASSUME NEW a \in Int, NEW b \in Int
    PROVE  Max({a, b}) \in {a, b} /\ a <= Max({a, b}) /\ b <= Max({a, b})
<1>1. \E x \in {a, b} : \A y \in {a, b} : x >= y
  <2>1. CASE a <= b
    BY <2>1
  <2>2. CASE b <= a
    BY <2>2
  <2> QED BY <2>1, <2>2
<1>2. Max({a, b}) \in {a, b} /\ \A y \in {a, b} : Max({a, b}) >= y
  BY <1>1 DEF Max
<1> QED BY <1>2

-------------------------------------------------------------------------------
(* What is known of a member, and what a step may do to the others. *)

\* The types and the invariants of one member.
LEMMA Here ==
    ASSUME IInv, NEW m \in Members
    PROVE  /\ owner \in [Partitions -> Members \cup {0}] /\ committed \in [Partitions -> Positions]
           /\ orphan \in [WorkerIds -> Partitions \cup {0}]
           /\ joined[m] \in BOOLEAN /\ client[m] \in Clients
           /\ fetch[m] \in Seq([part : Partitions, offset : Offsets])
           /\ callback[m] \in Callbacks
           /\ session[m] \in {"run", "shutdown", "closed", "leaving", "gone"}
           /\ workers[m] \in [Partitions -> 0..MaxWorkers] /\ worker \in [WorkerIds -> Jobs]
           /\ slots[m] \in 0..Concurrency
           /\ made \in 0..MaxWorkers /\ moves \in 0..(MaxMoves + MaxLate)
           /\ MapOK(m, client[m], session[m], workers[m], made, worker)
           /\ CallbackOK(m, client[m], fetch[m], callback[m], workers[m], made, worker)
           /\ ActiveOK(m, session[m], callback[m], workers[m], made, worker)
           /\ FetchOK(client[m], fetch[m], session[m], workers[m], worker)
           /\ FrontOK(client[m], fetch[m], workers[m], worker, Done)
           /\ MarkOK(client[m], Done)
           /\ OwnerOK(m, owner, joined[m], client[m], fetch[m], callback[m], session[m])
           /\ LateOK(m, client[m], made, worker, orphan)
           /\ AdvanceOK(m, joined[m], committed, client[m], fetch[m], workers[m], made, worker, orphan)
           /\ MemberOK(m, owner, committed, joined[m], client[m], fetch[m], callback[m], session[m],
                       workers[m], made, worker, Done, orphan)
<1>1. MemberOK(m, owner, committed, joined[m], client[m], fetch[m], callback[m], session[m],
               workers[m], made, worker, Done, orphan)
  BY DEF IInv, MembersOK
<1>2. TypeOK
  BY DEF IInv
<1>3. /\ owner \in [Partitions -> Members \cup {0}] /\ committed \in [Partitions -> Positions]
      /\ orphan \in [WorkerIds -> Partitions \cup {0}]
      /\ joined[m] \in BOOLEAN /\ client[m] \in Clients
      /\ fetch[m] \in Seq([part : Partitions, offset : Offsets])
      /\ callback[m] \in Callbacks
      /\ session[m] \in {"run", "shutdown", "closed", "leaving", "gone"}
      /\ workers[m] \in [Partitions -> 0..MaxWorkers] /\ worker \in [WorkerIds -> Jobs]
      /\ slots[m] \in 0..Concurrency
      /\ made \in 0..MaxWorkers /\ moves \in 0..(MaxMoves + MaxLate)
  BY <1>2 DEF TypeOK
<1> QED BY <1>1, <1>3 DEF MemberOK

\* The workers made so far are among the workers there can be.
LEMMA MadeIds ==
    ASSUME IInv
    PROVE  /\ worker \in [WorkerIds -> Jobs] /\ made \in 0..MaxWorkers /\ made \in Nat
           /\ 1..made \subseteq WorkerIds
<1>1. worker \in [WorkerIds -> Jobs] /\ made \in 0..MaxWorkers
  <2>1. TypeOK
    BY DEF IInv
  <2> QED BY <2>1 DEF TypeOK
<1>2. made \in Nat /\ 1..made \subseteq 1..MaxWorkers
  BY <1>1, Constants
<1> QED BY <1>1, <1>2 DEF WorkerIds

\* A worker's number is the next one.
LEMMA NextId ==
    ASSUME NEW a \in Nat
    PROVE  /\ a + 1 \in 1..(a + 1)
           /\ \A n \in 1..(a + 1) : n = a + 1 \/ n \in 1..a
           /\ \A n \in 1..a : n # a + 1 /\ n # 0 /\ n \in 1..(a + 1)
OBVIOUS

\* The offsets in a fetch, and a member's fronts, are numbers.
LEMMA FetchType ==
    ASSUME NEW f \in Seq([part : Partitions, offset : Offsets]), f # <<>>
    PROVE  /\ Len(f) \in Nat /\ Len(f) >= 1
           /\ f[1] \in [part : Partitions, offset : Offsets] /\ f[1].part \in Partitions
           /\ f[1].offset \in Offsets /\ f[1].offset \in Nat
<1>1. Len(f) \in Nat /\ Len(f) >= 1
  BY EmptySeq
<1>2. 1 \in 1..Len(f)
  BY <1>1
<1>3. f[1] \in [part : Partitions, offset : Offsets]
  BY <1>2, ElementOfSeq
<1> QED BY <1>1, <1>3, Constants

LEMMA FrontType ==
    ASSUME NEW c \in Clients, NEW f \in Seq([part : Partitions, offset : Offsets]),
           NEW p \in Partitions
    PROVE  Front(c, f, p) \in Nat
<1>1. c.pos[p] \in Nat
  BY Constants DEF Clients
<1>2. f # <<>> => f[1].offset \in Nat
  BY FetchType
<1> QED BY <1>1, <1>2 DEF Front

\* A worker changes in a step of member m: it belongs to m, as long as it lives,
\* keeps its partition, and is not given back what was revoked.
Keeps(m, w, v) ==
    \/ v = w
    \/ ~Alive(w) /\ ~Alive(v)
    \/ /\ Alive(w) /\ w.member = m
       /\ Alive(v) => v.member = m /\ v.part = w.part /\ (w.revoked => v.revoked)

\* The other members do not notice a step of m.
LEMMA OthersKept ==
    ASSUME IInv, NEW m \in Members, NEW n \in Members, n # m,
           NEW own, NEW com, NEW k \in made..(made + 1), NEW V, NEW done, NEW O,
           Done \subseteq done,
           \A i \in WorkerIds : O[i] = orphan[i] \/ (orphan[i] = 0 /\ worker[i].member = m),
           \A p \in Partitions : own[p] = n <=> owner[p] = n,
           \A p \in Partitions : com[p] = committed[p] \/ Left(O, p) \/ owner[p] = m,
           \A i \in 1..made : Keeps(m, worker[i], V[i]),
           k = made + 1 => V[k].member = m
    PROVE  MemberOK(n, own, com, joined[n], client[n], fetch[n], callback[n], session[n],
                    workers[n], k, V, done, O)
<1> DEFINE c == client[n]
           f == fetch[n]
           cb == callback[n]
           ws == workers[n]
           s == session[n]
<1>0. made \in Nat /\ k \in Nat /\ made <= k /\ \A i \in 1..k : i \in 1..made \/ (i = k /\ k = made + 1)
  BY Here
<1>h. /\ MapOK(n, c, s, ws, made, worker) /\ CallbackOK(n, c, f, cb, ws, made, worker)
      /\ ActiveOK(n, s, cb, ws, made, worker) /\ FetchOK(c, f, s, ws, worker)
      /\ FrontOK(c, f, ws, worker, Done) /\ MarkOK(c, Done)
      /\ OwnerOK(n, owner, joined[n], c, f, cb, s)
      /\ LateOK(n, c, made, worker, orphan)
      /\ AdvanceOK(n, joined[n], committed, c, f, ws, made, worker, orphan)
      /\ cb \in Callbacks /\ ws \in [Partitions -> 0..MaxWorkers]
  BY Here
<1> HIDE DEF c, f, cb, ws, s
\* A worker of n is the one it was.
<1>1. ASSUME NEW i \in 1..k, Alive(V[i]), V[i].member = n
      PROVE  i \in 1..made /\ V[i] = worker[i]
  BY <1>0, <1>1 DEF Keeps
\* So is one that n has in its map, or a callback of n waits for.
<1>2. ASSUME NEW p \in Partitions, ws[p] # 0
      PROVE  /\ ws[p] \in 1..made
             /\ Alive(V[ws[p]]) => Alive(worker[ws[p]]) /\ V[ws[p]] = worker[ws[p]]
  BY <1>h, <1>2 DEF MapOK, Keeps
<1>3. ASSUME cb.worker # 0
      PROVE  /\ cb.worker \in 1..made
             /\ Alive(V[cb.worker]) => Alive(worker[cb.worker]) /\ V[cb.worker] = worker[cb.worker]
  <2>1. cb.at # "none" /\ cb.worker \in 0..made
    BY <1>h, <1>3, Fresh DEF CallbackOK
  <2>2. cb.worker \in 1..made
    BY <1>0, <1>3, <2>1
  <2> QED BY <1>h, <1>3, <2>2 DEF CallbackOK, Keeps
<1>4. MapOK(n, c, s, ws, k, V)
  BY <1>0, <1>2, <1>h DEF MapOK
<1>5. CallbackOK(n, c, f, cb, ws, k, V)
  <2>1. cb.at # "none" => cb.worker \in 0..k
    BY <1>0, <1>h DEF CallbackOK
  <2> QED BY <1>3, <1>h, <2>1 DEF CallbackOK
<1>6. ActiveOK(n, s, cb, ws, k, V)
  BY <1>1, <1>h DEF ActiveOK, Active
<1>7. FetchOK(c, f, s, ws, V)
  BY <1>2, <1>h DEF FetchOK
<1>8. FrontOK(c, f, ws, V, done)
  BY <1>2, <1>h DEF FrontOK
<1>9. MarkOK(c, done)
  BY <1>h DEF MarkOK
<1>10. OwnerOK(n, own, joined[n], c, f, cb, s)
  BY <1>h DEF OwnerOK
<1>l. /\ 1..made \subseteq WorkerIds
      /\ \A p \in Partitions : Left(orphan, p) => Left(O, p)
  <2>1. 1..made \subseteq WorkerIds
    BY <1>0, Here DEF WorkerIds
  <2>2. ASSUME NEW p \in Partitions, NEW i \in WorkerIds, orphan[i] = p PROVE O[i] = p
    BY <2>2, Constants
  <2> QED BY <2>1, <2>2 DEF Left
<1>11. LateOK(n, c, k, V, O)
  <2>1. \A p \in Partitions : c.mark[p] # 0 => p \in c.held \/ Left(O, p)
    BY <1>h, <1>l DEF LateOK
  <2>2. ASSUME NEW i \in 1..k, Active(V[i]), V[i].member = n
        PROVE  O[i] = orphan[i] /\ i \in 1..made /\ V[i] = worker[i]
    BY <1>1, <1>l, <2>2 DEF Active
  <2> QED BY <1>h, <2>1, <2>2 DEF LateOK
<1>12. AdvanceOK(n, joined[n], com, c, f, ws, k, V, O)
  <2> SUFFICES ASSUME joined[n] PROVE AdvanceOK(n, joined[n], com, c, f, ws, k, V, O)
    BY DEF AdvanceOK
  <2>1. \A p \in c.held \cap Partitions : ~Left(O, p) => com[p] = committed[p]
    BY <1>h DEF OwnerOK
  <2>2. \A p \in Partitions : c.mark[p] # 0 /\ ~Left(O, p) => com[p] <= c.mark[p]
    BY <1>h, <1>l, <2>1 DEF LateOK, AdvanceOK
  <2>3. ASSUME NEW i \in 1..k, Active(V[i]), V[i].member = n, ~Left(O, V[i].part),
               NEW x \in Pend(V[i])
        PROVE  com[V[i].part] <= x /\ c.mark[V[i].part] <= x
    <3>1. i \in 1..made /\ V[i] = worker[i] /\ i \in WorkerIds
      BY <1>1, <1>l, <2>3 DEF Active
    <3>2. V[i].part \in Partitions /\ ~Left(orphan, V[i].part)
      <4>1. WorkerOK(worker[i], Done)
        BY <3>1 DEF IInv, WorkersOK
      <4> QED BY <1>l, <2>3, <3>1, <4>1 DEF WorkerOK, Active
    <3>3. V[i].part \in c.held
      BY <1>h, <2>3, <3>1, <3>2 DEF LateOK, Left
    <3> QED BY <1>h, <2>1, <2>3, <3>1, <3>2, <3>3 DEF AdvanceOK
  <2>4. ASSUME NEW p \in Partitions, ws[p] # 0, Alive(V[ws[p]]), ~Left(O, p)
        PROVE  com[p] <= Front(c, f, p) /\ c.mark[p] <= Front(c, f, p)
    <3>1. p \in c.held /\ ~Left(orphan, p)
      BY <1>h, <1>l, <2>4 DEF MapOK
    <3> QED BY <1>2, <1>h, <2>1, <2>4, <3>1 DEF AdvanceOK
  <2> QED BY <2>2, <2>3, <2>4 DEF AdvanceOK
<1> QED BY <1>4, <1>5, <1>6, <1>7, <1>8, <1>9, <1>10, <1>11, <1>12 DEF MemberOK, c, f, cb, ws, s

\* A worker goes on or ends: it has no more offsets than before, and those it has
\* no longer are settled.
Moves(w, v, done) ==
    \/ v = w
    \/ ~Alive(v)
    \/ /\ Alive(w) /\ v.member = w.member /\ v.part = w.part /\ v.revoked = w.revoked
       /\ w.cancelled => v.cancelled
       /\ v.paused => w.paused
       /\ Pend(v) \subseteq Pend(w)
       /\ \A x \in Pend(w) : x \in Pend(v) \/ Record(w.part, x) \in done

\* A member is as it should be when its workers go on or end.
LEMMA WorkersMove ==
    ASSUME NEW m \in Members, NEW own, NEW com, NEW j, NEW c, NEW f, NEW cb, NEW s, NEW ws,
           NEW n \in 0..MaxWorkers, NEW W, NEW V, NEW done, NEW more, NEW O,
           done \subseteq more,
           MemberOK(m, own, com, j, c, f, cb, s, ws, n, W, done, O),
           \A i \in 1..n : Moves(W[i], V[i], more)
    PROVE  MemberOK(m, own, com, j, c, f, cb, s, ws, n, V, more, O)
<1>h. /\ MapOK(m, c, s, ws, n, W) /\ CallbackOK(m, c, f, cb, ws, n, W)
      /\ ActiveOK(m, s, cb, ws, n, W) /\ FetchOK(c, f, s, ws, W)
      /\ FrontOK(c, f, ws, W, done) /\ MarkOK(c, done)
      /\ OwnerOK(m, own, j, c, f, cb, s)
      /\ LateOK(m, c, n, W, O)
      /\ AdvanceOK(m, j, com, c, f, ws, n, W, O)
  BY DEF MemberOK
<1>1. \A i \in 1..n : Alive(V[i]) =>
        /\ Alive(W[i]) /\ V[i].member = W[i].member /\ V[i].part = W[i].part
        /\ V[i].revoked = W[i].revoked /\ (W[i].cancelled => V[i].cancelled)
        /\ V[i].paused => W[i].paused
        /\ Pend(V[i]) \subseteq Pend(W[i])
        /\ \A x \in Pend(W[i]) : x \in Pend(V[i]) \/ Record(W[i].part, x) \in more
  BY DEF Moves
<1>2. \A p \in Partitions : ws[p] # 0 => ws[p] \in 1..n
  BY <1>h DEF MapOK
<1>3. cb.worker # 0 => cb.worker \in 1..n
  <2>1. CASE cb.at = "none"
    BY <1>h, <2>1, Fresh DEF CallbackOK
  <2>2. CASE cb.at # "none"
    BY <1>h, <2>2, Constants DEF CallbackOK
  <2> QED BY <2>1, <2>2
<1>4. MapOK(m, c, s, ws, n, V)
  BY <1>h, <1>1, <1>2 DEF MapOK
<1>5. CallbackOK(m, c, f, cb, ws, n, V)
  BY <1>h, <1>1, <1>3 DEF CallbackOK
<1>6. ActiveOK(m, s, cb, ws, n, V)
  BY <1>h, <1>1 DEF ActiveOK, Active
<1>7. FetchOK(c, f, s, ws, V)
  BY <1>h, <1>1, <1>2 DEF FetchOK
<1>8. FrontOK(c, f, ws, V, more)
  <2> SUFFICES ASSUME NEW p \in Partitions, ws[p] # 0, Alive(V[ws[p]])
               PROVE  /\ \A x \in Pend(V[ws[p]]) : x < Front(c, f, p)
                      /\ \A o \in 0..(Front(c, f, p) - 1) :
                           Record(p, o) \in more \/ o \in Pend(V[ws[p]])
                      /\ V[ws[p]].paused => p \in c.paused
    BY DEF FrontOK
  <2>1. Alive(W[ws[p]]) /\ W[ws[p]].part = p
    BY <1>h, <1>1, <1>2 DEF MapOK
  <2> QED BY <1>h, <1>1, <1>2, <2>1 DEF FrontOK
<1>9. MarkOK(c, more)
  BY <1>h DEF MarkOK
<1>10. LateOK(m, c, n, V, O)
  BY <1>h, <1>1 DEF LateOK, Active
<1>11. AdvanceOK(m, j, com, c, f, ws, n, V, O)
  <2> SUFFICES ASSUME j PROVE AdvanceOK(m, j, com, c, f, ws, n, V, O)
    BY DEF AdvanceOK
  <2>1. \A i \in 1..n : Active(V[i]) /\ V[i].member = m /\ ~Left(O, V[i].part) =>
          \A x \in Pend(V[i]) : com[V[i].part] <= x /\ c.mark[V[i].part] <= x
    BY <1>h, <1>1 DEF AdvanceOK, Active
  <2>2. \A p \in Partitions : ws[p] # 0 /\ Alive(V[ws[p]]) => Alive(W[ws[p]])
    BY <1>1, <1>2
  <2> QED BY <1>h, <2>1, <2>2 DEF AdvanceOK
<1> QED BY <1>h, <1>4, <1>5, <1>6, <1>7, <1>8, <1>9, <1>10, <1>11 DEF MemberOK

(***************************************************************************)
(* A step of member m preserves the invariant if it does so for m and for  *)
(* the workers it changes.                                                 *)
(***************************************************************************)
LEMMA StepInv ==
    ASSUME IInv, NEW m \in Members, TypeOK', SlotsAccounted', CommittedDone', made' = made,
           Done \subseteq Done',
           \A n \in Members : n # m =>
             /\ joined'[n] = joined[n] /\ client'[n] = client[n] /\ fetch'[n] = fetch[n]
             /\ callback'[n] = callback[n] /\ session'[n] = session[n] /\ workers'[n] = workers[n],
           \A p \in Partitions : \A n \in Members : n # m => (owner'[p] = n <=> owner[p] = n),
           \A p \in Partitions : committed'[p] = committed[p] \/ Left(orphan', p) \/ owner[p] = m,
           \A i \in WorkerIds : orphan'[i] = orphan[i] \/ (orphan[i] = 0 /\ worker[i].member = m),
           \A i \in WorkerIds : /\ Keeps(m, worker[i], worker'[i])
                                /\ worker'[i] # worker[i] =>
                                     /\ i <= made /\ worker'[i].pc # "none"
                                     /\ WorkerOK(worker'[i], Done'),
           MemberOK(m, owner', committed', joined'[m], client'[m], fetch'[m], callback'[m],
                    session'[m], workers'[m], made', worker', Done', orphan')
    PROVE  IInv'
<1>0. made \in 0..MaxWorkers /\ 1..made \subseteq WorkerIds /\ made \in made..(made + 1)
  BY Here DEF WorkerIds
<1>1. MembersOK'
  <2> SUFFICES ASSUME NEW n \in Members
               PROVE  MemberOK(n, owner', committed', joined'[n], client'[n], fetch'[n],
                               callback'[n], session'[n], workers'[n], made', worker', Done', orphan')
    BY DEF MembersOK
  <2>1. CASE n = m
    BY <2>1
  <2>2. CASE n # m
    <3>1. /\ \A p \in Partitions : owner'[p] = n <=> owner[p] = n
          /\ \A i \in 1..made : Keeps(m, worker[i], worker'[i])
          /\ made # made + 1
      BY <1>0, <2>2
    <3>2. MemberOK(n, owner', committed', joined[n], client[n], fetch[n], callback[n], session[n],
                   workers[n], made, worker', Done', orphan')
      BY <1>0, <2>2, <3>1, OthersKept
    <3> QED BY <2>2, <3>2
  <2> QED BY <2>1, <2>2
<1>2. \A i \in WorkerIds : WorkerOK(worker'[i], Done') /\ (i > made <=> worker'[i].pc = "none")
  <2> SUFFICES ASSUME NEW i \in WorkerIds
               PROVE  WorkerOK(worker'[i], Done') /\ (i > made <=> worker'[i].pc = "none")
    OBVIOUS
  <2>1. WorkerOK(worker[i], Done) /\ (i > made <=> worker[i].pc = "none")
    BY DEF IInv, WorkersOK
  <2>2. WorkerOK(worker[i], Done')
    BY <2>1, WorkerOKMore
  <2>3. i \in Nat
    BY DEF WorkerIds
  <2> QED BY <1>0, <2>1, <2>2, <2>3
<1>3. \A i, j \in 1..made : Active(worker'[i]) /\ Active(worker'[j])
         /\ worker'[i].member = worker'[j].member /\ worker'[i].part = worker'[j].part => i = j
  <2>1. \A i \in 1..made : Active(worker'[i]) =>
          /\ Active(worker[i]) /\ worker[i].member = worker'[i].member
          /\ worker[i].part = worker'[i].part
    BY <1>0 DEF Keeps, Active
  <2> QED BY <2>1 DEF IInv, WorkersOK
<1>4. \A i \in WorkerIds : i > made => orphan'[i] = 0
  <2>1. \A i \in WorkerIds : i > made => orphan[i] = 0 /\ worker[i].member # m
    BY Fresh, Constants DEF IInv, WorkersOK, WorkerOK, Alive
  <2> QED BY <2>1
<1>5. WorkersOK'
  BY <1>2, <1>3, <1>4 DEF WorkersOK
<1> QED BY <1>1, <1>5 DEF IInv

\* The records in process stay the same, and so do the slots.
LEMMA SlotsKept ==
    ASSUME IInv, made' = made, slots' = slots,
           \A i \in 1..made :
             /\ worker'[i].pc \in {"handle", "backoff", "dlq", "dlqwait"} <=>
                  worker[i].pc \in {"handle", "backoff", "dlq", "dlqwait"}
             /\ worker[i].pc \in {"handle", "backoff", "dlq", "dlqwait"} =>
                  worker'[i].member = worker[i].member
    PROVE  SlotsAccounted'
<1>1. \A m \in Members : {i \in 1..made' : worker'[i].member = m
                                            /\ worker'[i].pc \in {"handle", "backoff", "dlq", "dlqwait"}}
        = {i \in 1..made : worker[i].member = m
                           /\ worker[i].pc \in {"handle", "backoff", "dlq", "dlqwait"}}
  OBVIOUS
<1> QED BY <1>1 DEF IInv, SlotsAccounted, InProcess

\* A record comes into process, or leaves it, with its slot.
LEMMA SlotsMove ==
    ASSUME IInv, NEW i \in 1..made, NEW v, worker' = [worker EXCEPT ![i] = v], made' = made,
           worker[i].member \in Members,
           \/ /\ v.pc \in {"handle", "backoff", "dlq", "dlqwait"} <=>
                   worker[i].pc \in {"handle", "backoff", "dlq", "dlqwait"}
              /\ worker[i].pc \in {"handle", "backoff", "dlq", "dlqwait"} =>
                   v.member = worker[i].member
              /\ slots' = slots
           \/ /\ v.pc \in {"handle", "backoff", "dlq", "dlqwait"} /\ v.member = worker[i].member
              /\ worker[i].pc \notin {"handle", "backoff", "dlq", "dlqwait"}
              /\ slots[worker[i].member] < Concurrency
              /\ slots' = [slots EXCEPT ![worker[i].member] = @ + 1]
           \/ /\ v.pc \notin {"handle", "backoff", "dlq", "dlqwait"}
              /\ worker[i].pc \in {"handle", "backoff", "dlq", "dlqwait"}
              /\ slots' = [slots EXCEPT ![worker[i].member] = @ - 1]
    PROVE  SlotsAccounted' /\ slots' \in [Members -> 0..Concurrency]
<1> DEFINE B == {"handle", "backoff", "dlq", "dlqwait"}
           m == worker[i].member
           Set(n) == {k \in 1..made : worker[k].member = n /\ worker[k].pc \in B}
<1>0. /\ worker \in [WorkerIds -> Jobs] /\ made \in 0..MaxWorkers /\ 1..made \subseteq WorkerIds
      /\ slots \in [Members -> 0..Concurrency]
  <2>1. slots \in [Members -> 0..Concurrency]
    BY DEF IInv, TypeOK
  <2> QED BY <2>1, MadeIds
<1>1. \A k \in 1..made : worker'[k] = IF k = i THEN v ELSE worker[k]
  BY <1>0
<1>2. \A n \in Members : /\ slots[n] = Cardinality(Set(n)) /\ IsFiniteSet(Set(n))
                         /\ slots[n] \in Nat /\ Cardinality(Set(n)) \in Nat
  <2>1. \A n \in Members : slots[n] = Cardinality(Set(n))
    BY DEF IInv, SlotsAccounted, InProcess
  <2>2. IsFiniteSet(1..made)
    BY <1>0, FS_Interval
  <2>3. \A n \in Members : slots[n] \in Nat
    BY <1>0, Constants
  <2>4. ASSUME NEW n \in Members PROVE IsFiniteSet(Set(n)) /\ Cardinality(Set(n)) \in Nat
    <3>1. Set(n) \subseteq 1..made
      OBVIOUS
    <3> HIDE DEF Set
    <3>2. IsFiniteSet(Set(n))
      BY <2>2, <3>1, FS_Subset
    <3> QED BY <3>2, FS_CardinalityType
  <2> HIDE DEF Set
  <2> QED BY <2>1, <2>3, <2>4
<1> DEFINE New(n) == {k \in 1..made : worker'[k].member = n /\ worker'[k].pc \in B}
<1>3. CASE slots' = slots /\ (v.pc \in B <=> worker[i].pc \in B)
           /\ (worker[i].pc \in B => v.member = m)
  <2>1. SlotsAccounted'
    BY <1>1, <1>3, SlotsKept
  <2> QED BY <1>0, <1>3, <2>1
<1>4. ASSUME NEW n \in Members, n # m, v.pc \in B => v.member = m PROVE New(n) = Set(n)
  BY <1>1, <1>4
<1>5. CASE /\ v.pc \in B /\ v.member = m /\ worker[i].pc \notin B /\ slots[m] < Concurrency
           /\ slots' = [slots EXCEPT ![m] = @ + 1]
  <2>1. New(m) = Set(m) \cup {i} /\ i \notin Set(m)
    BY <1>1, <1>5
  <2> HIDE DEF Set, New
  <2>2. Cardinality(New(m)) = slots[m] + 1
    <3>1. IsFiniteSet(Set(m)) /\ slots[m] = Cardinality(Set(m))
      BY <1>2
    <3>2. Cardinality(Set(m) \cup {i}) = Cardinality(Set(m)) + 1
      BY <2>1, <3>1, FS_AddElement
    <3> QED BY <2>1, <3>1, <3>2
  <2>3. \A n \in Members : slots'[n] = Cardinality(New(n))
    BY <1>0, <1>2, <1>4, <1>5, <2>2
  <2>4. SlotsAccounted'
    BY <2>3 DEF SlotsAccounted, InProcess, New
  <2>5. slots[m] + 1 \in 0..Concurrency
    BY <1>2, <1>5, Constants
  <2> QED BY <1>0, <1>5, <2>4, <2>5
<1>6. CASE v.pc \notin B /\ worker[i].pc \in B /\ slots' = [slots EXCEPT ![m] = @ - 1]
  <2>1. New(m) = Set(m) \ {i} /\ i \in Set(m)
    BY <1>1, <1>6
  <2> HIDE DEF Set, New
  <2>2. Cardinality(New(m)) = slots[m] - 1 /\ Cardinality(New(m)) \in Nat
    BY <1>2, <2>1, FS_RemoveElement, FS_CardinalityType
  <2>3. \A n \in Members : slots'[n] = Cardinality(New(n))
    BY <1>0, <1>2, <1>4, <1>6, <2>2
  <2>4. SlotsAccounted'
    BY <2>3 DEF SlotsAccounted, InProcess, New
  <2>5. slots[m] - 1 \in 0..Concurrency
    BY <1>0, <1>2, <2>2, Constants
  <2> QED BY <1>0, <1>6, <2>4, <2>5
<1> QED BY <1>3, <1>5, <1>6

-------------------------------------------------------------------------------
\* What is done stays so.
LEMMA DoneSame ==
    ASSUME settled' = settled, start' = start PROVE Done' = Done
BY DEF Done

LEMMA DoneMore ==
    ASSUME settled \subseteq settled', start' = start
    PROVE  Done \subseteq Done' /\ settled' \subseteq Done'
BY DEF Done

\* The invariant holds initially.
LEMMA InitInv == Init => IInv
<1> SUFFICES ASSUME Init PROVE IInv
  OBVIOUS
<1>1. TypeOK
  <2>1. <<>> \in Seq([part : Partitions, offset : Offsets]) /\ Len(<<>>) = 0
    BY EmptySeq
  <2> QED BY <2>1, Fresh, Constants DEF Init, TypeOK, NoFetch
<1>2. WorkersOK
  <2>1. \A i \in WorkerIds : worker[i] = NoWorker
    BY DEF Init
  <2>2. WorkerOK(NoWorker, Done)
    BY Fresh, DeadOK DEF Alive
  <2>3. \A i \in WorkerIds : i > made
    BY DEF Init, WorkerIds
  <2> QED BY <2>1, <2>2, <2>3, Fresh DEF Init, WorkersOK
<1>3. ASSUME NEW m \in Members
      PROVE  MemberOK(m, owner, committed, joined[m], client[m], fetch[m], callback[m], session[m],
                      workers[m], made, worker, Done, orphan)
  <2>1. /\ \A p \in Partitions : owner[p] = 0 /\ workers[m][p] = 0
        /\ joined[m] = TRUE /\ client[m] = NoClient /\ fetch[m] = <<>> /\ callback[m] = NoCallback
        /\ session[m] = "run" /\ made = 0
    BY DEF Init, NoFetch
  <2>2. MapOK(m, client[m], session[m], workers[m], made, worker)
    BY <2>1 DEF MapOK
  <2>3. CallbackOK(m, client[m], fetch[m], callback[m], workers[m], made, worker)
    BY <2>1, Fresh DEF CallbackOK
  <2>4. /\ ActiveOK(m, session[m], callback[m], workers[m], made, worker)
        /\ FetchOK(client[m], fetch[m], session[m], workers[m], worker)
        /\ FrontOK(client[m], fetch[m], workers[m], worker, Done)
    BY <2>1 DEF ActiveOK, FetchOK, FrontOK
  <2>5. MarkOK(client[m], Done)
    BY <2>1, Fresh DEF MarkOK
  <2>6. OwnerOK(m, owner, joined[m], client[m], fetch[m], callback[m], session[m])
    BY <2>1, Fresh, Constants DEF OwnerOK
  <2>7. /\ LateOK(m, client[m], made, worker, orphan)
        /\ AdvanceOK(m, joined[m], committed, client[m], fetch[m], workers[m], made, worker, orphan)
    BY <2>1, Fresh DEF LateOK, AdvanceOK
  <2> QED BY <2>2, <2>3, <2>4, <2>5, <2>6, <2>7 DEF MemberOK
<1>4. SlotsAccounted
  <2>1. \A m \in Members : {i \in 1..made : worker[i].member = m /\ InProcess(i)} = {}
    BY DEF Init
  <2> QED BY <2>1, FS_EmptySet DEF Init, SlotsAccounted
<1>5. CommittedDone
  BY DEF Init, CommittedDone
<1> QED BY <1>1, <1>2, <1>3, <1>4, <1>5 DEF IInv, MembersOK

-------------------------------------------------------------------------------
(* Steps of a worker. *)

\* What is known of a worker that lives.
LEMMA HereWorker ==
    ASSUME IInv, NEW i \in WorkerIds, Alive(worker[i])
    PROVE  /\ i \in 1..made /\ worker[i] \in Jobs /\ WorkerOK(worker[i], Done)
           /\ worker[i].member \in Members /\ worker[i].part \in Partitions
           /\ Record(worker[i].part, worker[i].offset) \in [part : Partitions, offset : Offsets]
<1>1. worker[i] \in Jobs /\ made \in Nat /\ i \in Nat /\ i >= 1
  <2>1. worker \in [WorkerIds -> Jobs] /\ made \in 0..MaxWorkers
    BY DEF IInv, TypeOK
  <2> QED BY <2>1, Constants DEF WorkerIds
<1>2. WorkerOK(worker[i], Done) /\ (i > made => worker[i].pc = "none")
  BY DEF IInv, WorkersOK
<1>3. i \in 1..made
  BY <1>1, <1>2 DEF Alive
<1>4. worker[i].member \in Members /\ worker[i].part \in Partitions
  BY <1>2 DEF WorkerOK
<1> QED BY <1>1, <1>2, <1>3, <1>4 DEF Record, Jobs

\* A step of worker i, which may change the client of its member.
LEMMA WorkerInv ==
    ASSUME IInv, NEW i \in WorkerIds, Alive(worker[i]), NEW v \in Jobs, Same,
           worker' = [worker EXCEPT ![i] = v],
           SlotsAccounted', slots' \in [Members -> 0..Concurrency],
           Done \subseteq Done', settled' \subseteq [part : Partitions, offset : Offsets],
           v.pc # "none", WorkerOK(v, Done'),
           Alive(v) => /\ v.member = worker[i].member /\ v.part = worker[i].part
                       /\ v.revoked = worker[i].revoked,
           client' \in [Members -> Clients],
           \A n \in Members : n # worker[i].member => client'[n] = client[n],
           MemberOK(worker[i].member, owner, committed, joined[worker[i].member],
                    client'[worker[i].member], fetch[worker[i].member],
                    callback[worker[i].member], session[worker[i].member],
                    workers[worker[i].member], made, worker', Done', orphan')
    PROVE  IInv'
<1> DEFINE m == worker[i].member
<1>1. /\ m \in Members /\ i \in 1..made
  BY HereWorker
<1>2. UNCHANGED <<owner, committed, end, joined, fetch, callback, session, sub, workers, start, orphan,
                  made, moves>>
  BY DEF Same, broker, history
<1>3. /\ worker \in [WorkerIds -> Jobs] /\ worker' \in [WorkerIds -> Jobs]
      /\ \A k \in WorkerIds : worker'[k] = IF k = i THEN v ELSE worker[k]
  BY DEF IInv, TypeOK
<1>4. TypeOK'
  <2>1. Len(v.queue) < 3 * BatchSize
    BY DEF WorkerOK
  <2>2. \A k \in WorkerIds : Len(worker'[k].queue) < 3 * BatchSize
    BY <1>3, <2>1 DEF IInv, TypeOK
  <2> QED BY <1>2, <1>3, <2>2 DEF IInv, TypeOK
<1>5. CommittedDone'
  BY <1>2 DEF IInv, CommittedDone
<1>6. \A k \in WorkerIds : /\ Keeps(m, worker[k], worker'[k])
                           /\ worker'[k] # worker[k] =>
                                k <= made /\ worker'[k].pc # "none" /\ WorkerOK(worker'[k], Done')
  BY <1>1, <1>3 DEF Keeps
<1> HIDE DEF m
<1>7. MemberOK(m, owner', committed', joined'[m], client'[m], fetch'[m], callback'[m],
               session'[m], workers'[m], made', worker', Done', orphan')
  BY <1>2 DEF m
<1>8. \A n \in Members : n # m => client'[n] = client[n]
  BY DEF m
<1> QED BY <1>1, <1>2, <1>4, <1>5, <1>6, <1>7, <1>8, StepInv

\* A step of worker i that leaves the client alone.
LEMMA QuietInv ==
    ASSUME IInv, NEW i \in WorkerIds, Alive(worker[i]), NEW v \in Jobs, Same, client' = client,
           worker' = [worker EXCEPT ![i] = v],
           SlotsAccounted', slots' \in [Members -> 0..Concurrency],
           Done \subseteq Done', settled' \subseteq [part : Partitions, offset : Offsets],
           v.pc # "none", WorkerOK(v, Done'), Moves(worker[i], v, Done')
    PROVE  IInv'
<1> DEFINE m == worker[i].member
<1>1. m \in Members /\ i \in 1..made
  BY HereWorker
<1>o. orphan' = orphan
  BY DEF Same, history
<1>2. /\ worker \in [WorkerIds -> Jobs] /\ client \in [Members -> Clients] /\ made \in 0..MaxWorkers
      /\ 1..made \subseteq WorkerIds
  <2>1. client \in [Members -> Clients]
    BY DEF IInv, TypeOK
  <2> QED BY <2>1, MadeIds
<1>3. \A k \in 1..made : Moves(worker[k], worker'[k], Done')
  BY <1>2 DEF Moves
<1>4. MemberOK(m, owner, committed, joined[m], client[m], fetch[m], callback[m], session[m],
               workers[m], made, worker, Done, orphan)
  BY <1>1, Here
<1>5. MemberOK(m, owner, committed, joined[m], client[m], fetch[m], callback[m], session[m],
               workers[m], made, worker', Done', orphan')
  BY <1>o, <1>1, <1>2, <1>3, <1>4, WorkersMove
<1>6. Alive(v) => v.member = m /\ v.part = worker[i].part /\ v.revoked = worker[i].revoked
  BY DEF Moves
<1> QED BY <1>2, <1>5, <1>6, WorkerInv

\* The worker ends, with its slot if it had one.
LEMMA ExitInv ==
    ASSUME IInv, NEW i \in WorkerIds, Alive(worker[i]), Same, client' = client,
           Done \subseteq Done', settled' \subseteq [part : Partitions, offset : Offsets],
           \/ Exit(i) /\ worker[i].pc \in {"next", "acquire"}
           \/ Abandon(i) /\ worker[i].pc \in {"handle", "backoff", "dlq", "dlqwait"}
    PROVE  IInv'
<1> DEFINE v == [NoWorker EXCEPT !.pc = "done"]
<1>1. v \in Jobs /\ v.pc = "done" /\ v.queue = <<>> /\ v.member = 0 /\ ~v.paused
  BY Fresh DEF Jobs
<1> HIDE DEF v
<1>2. worker' = [worker EXCEPT ![i] = v] /\ made' = made
  BY DEF Exit, Abandon, Same, v
<1>3. WorkerOK(v, Done') /\ Moves(worker[i], v, Done')
  BY <1>1, DeadOK DEF Alive, Moves
<1>4. SlotsAccounted' /\ slots' \in [Members -> 0..Concurrency]
  <2>1. CASE Exit(i) /\ worker[i].pc \in {"next", "acquire"}
    BY <1>1, <1>2, <2>1, SlotsMove, HereWorker DEF Exit
  <2>2. CASE Abandon(i) /\ worker[i].pc \in {"handle", "backoff", "dlq", "dlqwait"}
    BY <1>1, <1>2, <2>2, SlotsMove, HereWorker DEF Abandon, SlotFreed
  <2> QED BY <2>1, <2>2
<1> QED BY <1>1, <1>2, <1>3, <1>4, QuietInv

\* The worker goes on with its record.
LEMMA GoInv ==
    ASSUME IInv, NEW i \in WorkerIds, HasRecord(worker[i]), Same, client' = client,
           NEW v \in Jobs, worker' = [worker EXCEPT ![i] = v], HasRecord(v),
           /\ v.member = worker[i].member /\ v.part = worker[i].part
           /\ v.queue = worker[i].queue /\ v.paused = worker[i].paused
           /\ v.revoked = worker[i].revoked /\ v.cancelled = worker[i].cancelled
           /\ v.offset = worker[i].offset,
           v.pc = "complete" => Record(v.part, v.offset) \in Done',
           v.pc = "backoff" => v.attempt < MaxRetries,
           SlotsAccounted', slots' \in [Members -> 0..Concurrency],
           Done \subseteq Done', settled' \subseteq [part : Partitions, offset : Offsets]
    PROVE  IInv'
<1>1. Alive(worker[i]) /\ Alive(v) /\ v.pc # "none"
  BY DEF Alive, HasRecord
<1>2. WorkerOK(worker[i], Done)
  BY <1>1, HereWorker
<1>3. Pend(v) = Pend(worker[i])
  BY DEF Pend
<1>4. WorkerOK(v, Done')
  BY <1>1, <1>2, <1>3 DEF WorkerOK
<1>5. Moves(worker[i], v, Done')
  BY <1>1, <1>3 DEF Moves
<1> QED BY <1>1, <1>4, <1>5, QuietInv

\* A worker with a record goes on at another place, with or without its slot.
LEMMA GotoInv ==
    ASSUME IInv, NEW i \in WorkerIds, HasRecord(worker[i]), Same, client' = client,
           NEW pc \in {"handle", "backoff", "dlq", "dlqwait", "complete"}, Goto(i, pc),
           pc = "complete" => Record(worker[i].part, worker[i].offset) \in Done',
           pc = "backoff" => worker[i].attempt < MaxRetries,
           \/ /\ pc # "complete" /\ worker[i].pc \in {"handle", "backoff", "dlq", "dlqwait"}
              /\ slots' = slots
           \/ /\ pc = "complete" /\ worker[i].pc \in {"handle", "backoff", "dlq", "dlqwait"}
              /\ slots' = SlotFreed(worker[i].member)
           \/ /\ pc # "complete" /\ worker[i].pc = "acquire"
              /\ slots[worker[i].member] < Concurrency
              /\ slots' = [slots EXCEPT ![worker[i].member] = @ + 1],
           Done \subseteq Done', settled' \subseteq [part : Partitions, offset : Offsets]
    PROVE  IInv'
<1> DEFINE w == worker[i]
           v == [w EXCEPT !.pc = pc]
<1>1. Alive(w) /\ w \in Jobs /\ w.member \in Members /\ i \in 1..made
  <2>1. Alive(w)
    BY DEF Alive, HasRecord
  <2> QED BY <2>1, HereWorker
<1> HIDE DEF w
<1>2. /\ v \in Jobs /\ v.pc = pc /\ v.member = w.member /\ v.part = w.part /\ v.queue = w.queue
      /\ v.paused = w.paused /\ v.revoked = w.revoked /\ v.cancelled = w.cancelled
      /\ v.offset = w.offset /\ v.attempt = w.attempt
  BY <1>1 DEF Jobs
<1>3. worker' = [worker EXCEPT ![i] = v] /\ made' = made
  BY DEF Goto, Same, w
<1> HIDE DEF v
<1>4. HasRecord(v)
  BY <1>2 DEF HasRecord
<1>5. SlotsAccounted' /\ slots' \in [Members -> 0..Concurrency]
  BY <1>1, <1>2, <1>3, SlotsMove DEF SlotFreed, w
<1> QED BY <1>2, <1>3, <1>4, <1>5, GoInv DEF w

\* next or acquire ends the worker.
LEMMA WorkerStopsInv == ASSUME IInv, NEW i \in WorkerIds, WorkerStops(i) PROVE IInv'
<1>1. /\ worker[i].pc \in {"next", "acquire"} /\ Exit(i) /\ Same /\ UNCHANGED <<client, settled>>
      /\ Done' = Done
  BY DoneSame DEF WorkerStops, Same, history
<1>2. Alive(worker[i]) /\ settled \subseteq [part : Partitions, offset : Offsets]
  BY <1>1 DEF Alive, IInv, TypeOK
<1> QED BY <1>1, <1>2, ExitInv

\* A slot is taken.
LEMMA AcquireInv == ASSUME IInv, NEW i \in WorkerIds, Acquire(i) PROVE IInv'
<1>1. /\ worker[i].pc = "acquire" /\ slots[worker[i].member] < Concurrency
      /\ slots' = [slots EXCEPT ![worker[i].member] = @ + 1]
      /\ Goto(i, "handle") /\ Same /\ UNCHANGED <<client, settled>>
      /\ Done' = Done
  BY DoneSame DEF Acquire, Same, history
<1>2. HasRecord(worker[i]) /\ settled \subseteq [part : Partitions, offset : Offsets]
  BY <1>1 DEF HasRecord, IInv, TypeOK
<1> QED BY <1>1, <1>2, GotoInv

\* The record is handled, in time or too late.
LEMMA HandlerSucceedsInv == ASSUME IInv, NEW i \in WorkerIds, HandlerSucceeds(i) PROVE IInv'
<1> DEFINE r == Record(worker[i].part, worker[i].offset)
<1>1. /\ worker[i].pc = "handle" /\ settled' = settled \cup {r} /\ Same /\ client' = client
      /\ \/ Abandon(i)
         \/ slots' = SlotFreed(worker[i].member) /\ Goto(i, "complete")
  BY DEF HandlerSucceeds
<1>2. HasRecord(worker[i]) /\ Alive(worker[i])
  BY <1>1 DEF HasRecord, Alive
<1>3. /\ settled' \subseteq [part : Partitions, offset : Offsets]
      /\ Done \subseteq Done' /\ r \in Done'
  <2>1. r \in [part : Partitions, offset : Offsets]
    BY <1>2, HereWorker
  <2>2. start' = start
    BY <1>1 DEF Same, history
  <2> QED BY <1>1, <2>1, <2>2, DoneMore DEF IInv, TypeOK
<1> HIDE DEF r
<1>4. CASE Abandon(i)
  BY <1>1, <1>2, <1>3, <1>4, ExitInv
<1>5. CASE slots' = SlotFreed(worker[i].member) /\ Goto(i, "complete")
  BY <1>1, <1>2, <1>3, <1>5, GotoInv DEF r
<1> QED BY <1>1, <1>4, <1>5

\* The handler fails.
LEMMA HandlerFailsInv == ASSUME IInv, NEW i \in WorkerIds, HandlerFails(i) PROVE IInv'
<1> DEFINE pc == IF worker[i].attempt >= MaxRetries THEN "dlq" ELSE "backoff"
<1>1. /\ worker[i].pc = "handle" /\ Same /\ UNCHANGED <<client, settled>>
      /\ Done' = Done
      /\ Abandon(i) \/ (slots' = slots /\ Goto(i, pc))
  BY DoneSame DEF HandlerFails, Same, history
<1>2. /\ HasRecord(worker[i]) /\ Alive(worker[i])
      /\ settled \subseteq [part : Partitions, offset : Offsets]
  BY <1>1 DEF HasRecord, Alive, IInv, TypeOK
<1>3. CASE Abandon(i)
  BY <1>1, <1>2, <1>3, ExitInv
<1>4. CASE slots' = slots /\ Goto(i, pc)
  <2>1. worker[i].attempt \in Nat
    BY <1>2, HereWorker, Constants DEF Jobs
  <2>2. pc \in {"dlq", "backoff"} /\ (pc = "backoff" => worker[i].attempt < MaxRetries)
    BY <2>1, Constants
  <2> HIDE DEF pc
  <2> QED BY <1>1, <1>2, <1>4, <2>2, GotoInv
<1> QED BY <1>1, <1>3, <1>4

\* A delay ends.
LEMMA WaitedInv == ASSUME IInv, NEW i \in WorkerIds, Waited(i) PROVE IInv'
<1> DEFINE w == worker[i]
           v == IF w.pc = "backoff" THEN [w EXCEPT !.pc = "handle", !.attempt = @ + 1]
                ELSE [w EXCEPT !.pc = "dlq"]
<1>1. w.pc \in {"backoff", "dlqwait"} /\ Same /\ UNCHANGED <<client, slots, settled>>
      /\ Done' = Done
  BY DoneSame DEF Waited, Same, history
<1>2. /\ HasRecord(w) /\ Alive(w) /\ settled \subseteq [part : Partitions, offset : Offsets]
  BY <1>1 DEF HasRecord, Alive, IInv, TypeOK
<1>3. w \in Jobs /\ w.member \in Members /\ i \in 1..made /\ WorkerOK(w, Done)
  BY <1>2, HereWorker
<1> HIDE DEF w
<1>4. w.pc = "backoff" => w.attempt + 1 \in 0..MaxRetries
  <2>1. w.attempt \in 0..MaxRetries /\ (w.pc = "backoff" => w.attempt < MaxRetries)
    BY <1>3 DEF WorkerOK, Jobs
  <2> QED BY <2>1, Constants
<1>5. /\ v \in Jobs /\ v.pc \in {"handle", "dlq"} /\ v.member = w.member /\ v.part = w.part
      /\ v.queue = w.queue /\ v.paused = w.paused /\ v.revoked = w.revoked
      /\ v.cancelled = w.cancelled /\ v.offset = w.offset
  BY <1>3, <1>4 DEF Jobs
<1>6. worker' = [worker EXCEPT ![i] = v] /\ made' = made
  BY DEF Waited, Same, w
<1> HIDE DEF v
<1>7. HasRecord(v)
  BY <1>5 DEF HasRecord
<1>8. SlotsAccounted' /\ slots' \in [Members -> 0..Concurrency]
  BY <1>1, <1>3, <1>5, <1>6, SlotsMove DEF w
<1> QED BY <1>1, <1>2, <1>5, <1>6, <1>7, <1>8, GoInv DEF w

\* A delay is cut short.
LEMMA WaitStopsInv == ASSUME IInv, NEW i \in WorkerIds, WaitStops(i) PROVE IInv'
<1>1. worker[i].pc \in {"backoff", "dlqwait"} /\ Abandon(i) /\ Same /\ UNCHANGED <<client, settled>>
      /\ Done' = Done
  BY DoneSame DEF WaitStops, Same, history
<1>2. Alive(worker[i]) /\ settled \subseteq [part : Partitions, offset : Offsets]
  BY <1>1 DEF Alive, IInv, TypeOK
<1> QED BY <1>1, <1>2, ExitInv

\* The record goes to the dead letter topic.
LEMMA DeadLetterInv == ASSUME IInv, NEW i \in WorkerIds, DeadLetter(i) PROVE IInv'
<1> DEFINE r == Record(worker[i].part, worker[i].offset)
<1>1. /\ worker[i].pc = "dlq" /\ settled' = settled \cup {r} /\ Same /\ client' = client
      /\ slots' = SlotFreed(worker[i].member) /\ Goto(i, "complete")
  BY DEF DeadLetter
<1>2. HasRecord(worker[i]) /\ Alive(worker[i])
  BY <1>1 DEF HasRecord, Alive
<1>3. /\ settled' \subseteq [part : Partitions, offset : Offsets]
      /\ Done \subseteq Done' /\ r \in Done'
  <2>1. r \in [part : Partitions, offset : Offsets]
    BY <1>2, HereWorker
  <2>2. start' = start
    BY <1>1 DEF Same, history
  <2> QED BY <1>1, <2>1, <2>2, DoneMore DEF IInv, TypeOK
<1> HIDE DEF r
<1> QED BY <1>1, <1>2, <1>3, GotoInv DEF r

\* The dead letter topic does not take it.
LEMMA DeadLetterFailsInv == ASSUME IInv, NEW i \in WorkerIds, DeadLetterFails(i) PROVE IInv'
<1>1. /\ worker[i].pc = "dlq" /\ Same /\ UNCHANGED <<client, settled>>
      /\ Done' = Done
      /\ Abandon(i) \/ (slots' = slots /\ Goto(i, "dlqwait"))
  BY DoneSame DEF DeadLetterFails, Same, history
<1>2. /\ HasRecord(worker[i]) /\ Alive(worker[i])
      /\ settled \subseteq [part : Partitions, offset : Offsets]
  BY <1>1 DEF HasRecord, Alive, IInv, TypeOK
<1>3. CASE Abandon(i)
  BY <1>1, <1>2, <1>3, ExitInv
<1>4. CASE slots' = slots /\ Goto(i, "dlqwait")
  BY <1>1, <1>2, <1>4, GotoInv
<1> QED BY <1>1, <1>3, <1>4

\* Which partitions a client has paused matters to their workers only.
LEMMA PausedOK ==
    ASSUME NEW m, NEW own, NEW com, NEW j, NEW c, NEW d, NEW f, NEW cb, NEW s, NEW ws, NEW n, NEW W,
           NEW done, NEW O, MemberOK(m, own, com, j, c, f, cb, s, ws, n, W, done, O),
           d.held = c.held, d.pos = c.pos, d.mark = c.mark,
           \A p \in Partitions :
             ws[p] # 0 /\ Alive(W[ws[p]]) /\ W[ws[p]].paused => p \in d.paused
    PROVE  MemberOK(m, own, com, j, d, f, cb, s, ws, n, W, done, O)
<1>1. \A p \in Partitions : Front(d, f, p) = Front(c, f, p)
  BY DEF Front
<1>2. MapOK(m, d, s, ws, n, W) /\ CallbackOK(m, d, f, cb, ws, n, W) /\ ActiveOK(m, s, cb, ws, n, W)
  BY DEF MemberOK, MapOK, CallbackOK
<1>3. FetchOK(d, f, s, ws, W)
  BY DEF MemberOK, FetchOK
<1>4. FrontOK(d, f, ws, W, done)
  BY <1>1 DEF MemberOK, FrontOK
<1>5. MarkOK(d, done) /\ OwnerOK(m, own, j, d, f, cb, s) /\ LateOK(m, d, n, W, O)
  BY DEF MemberOK, MarkOK, OwnerOK, LateOK
<1>6. AdvanceOK(m, j, com, d, f, ws, n, W, O)
  BY <1>1 DEF MemberOK, AdvanceOK
<1> QED BY <1>2, <1>3, <1>4, <1>5, <1>6 DEF MemberOK

\* The worker of a partition in the map is the one that may mark its records.
LEMMA OnlyWorker ==
    ASSUME IInv, NEW i \in WorkerIds, Active(worker[i]),
           workers[worker[i].member][worker[i].part] # 0
    PROVE  workers[worker[i].member][worker[i].part] = i
<1> DEFINE m == worker[i].member
           p == worker[i].part
<1>1. Alive(worker[i])
  BY DEF Active
<1>2. m \in Members /\ p \in Partitions /\ i \in 1..made
  BY <1>1, HereWorker
<1>3. session[m] = "run"
  BY <1>2, Here DEF MapOK
<1>4. workers[m][p] = i \/ callback[m].worker = i
  BY <1>2, <1>3, Here DEF ActiveOK
<1>5. CASE callback[m].worker = i
  <2>1. i # 0
    BY DEF WorkerIds
  <2>h. CallbackOK(m, client[m], fetch[m], callback[m], workers[m], made, worker)
    BY <1>2, Here
  <2>2. callback[m].at # "none"
    BY <1>5, <2>1, <2>h, Fresh DEF CallbackOK
  <2>3. p = callback[m].part
    BY <1>1, <1>5, <2>1, <2>h DEF CallbackOK
  <2> QED BY <2>2, <2>3, <2>h DEF CallbackOK
<1> QED BY <1>4, <1>5

\* The worker takes its next record; nothing else becomes of what it has.
Taken(w, resume) ==
    [w EXCEPT !.pc = "acquire", !.offset = Head(w.queue), !.queue = Tail(w.queue),
              !.paused = @ /\ ~resume, !.attempt = 0]

LEMMA TakeFacts ==
    ASSUME NEW w \in Jobs, NEW done, NEW resume \in BOOLEAN, w.pc = "next", w.queue # <<>>,
           resume <=> Resumes(w), WorkerOK(w, done)
    PROVE  LET v == Taken(w, resume) IN
           /\ v \in Jobs /\ v.pc = "acquire" /\ v.member = w.member /\ v.part = w.part
           /\ v.revoked = w.revoked /\ v.cancelled = w.cancelled
           /\ (v.paused => w.paused) /\ (resume => ~v.paused)
           /\ ~w.revoked /\ Pend(v) = Pend(w) /\ WorkerOK(v, done)
<1> DEFINE q == w.queue
           t == Tail(q)
           v == Taken(w, resume)
<1>1. q \in Seq(Offsets) /\ Len(q) \in Nat /\ Len(q) >= 1 /\ q[1] \in Offsets
  BY EmptySeq, LenProperties, ElementOfSeq DEF Jobs
<1>2. /\ Head(q) = q[1] /\ t \in Seq(Offsets) /\ Len(t) = Len(q) - 1
      /\ \A k \in 1..Len(t) : t[k] = q[k + 1]
  <2>1. Head(q) = q[1]
    BY <1>1
  <2> QED BY <1>1, <2>1, HeadTailProperties
<1>3. (w.paused /\ ~resume) \in BOOLEAN
  OBVIOUS
<1>4. /\ v \in Jobs /\ v.pc = "acquire" /\ v.member = w.member /\ v.part = w.part
      /\ v.revoked = w.revoked /\ v.cancelled = w.cancelled /\ v.offset = q[1] /\ v.queue = t
      /\ (v.paused <=> w.paused /\ ~resume)
  BY <1>1, <1>2, <1>3, Constants DEF Jobs, Taken
<1>5. ~w.revoked
  BY DEF WorkerOK, Alive
<1> HIDE DEF q, t, v
<1>6. HasRecord(v) /\ ~HasRecord(w) /\ Alive(w) /\ Alive(v)
  BY <1>4 DEF HasRecord, Alive
<1>7. Pend(v) = Pend(w)
  <2>1. Pend(w) = {q[k] : k \in 1..Len(q)}
    BY <1>6 DEF Pend, q
  <2>2. Pend(v) = {t[k] : k \in 1..Len(t)} \cup {q[1]}
    BY <1>4, <1>6 DEF Pend
  <2>3. ASSUME NEW x \in Pend(w) PROVE x \in Pend(v)
    <3>1. PICK k \in 1..Len(q) : x = q[k]
      BY <2>1, <2>3
    <3>2. CASE k = 1
      BY <2>2, <3>1, <3>2
    <3>3. CASE k # 1
      <4>1. k - 1 \in 1..Len(t) /\ (k - 1) + 1 = k
        BY <1>1, <1>2, <3>3
      <4>2. t[k - 1] = q[k]
        BY <1>2, <4>1
      <4> QED BY <2>2, <3>1, <4>1, <4>2
    <3> QED BY <3>2, <3>3
  <2>4. ASSUME NEW x \in Pend(v) PROVE x \in Pend(w)
    <3>1. CASE x = q[1]
      BY <1>1, <2>1, <3>1
    <3>2. CASE x \in {t[k] : k \in 1..Len(t)}
      <4>1. PICK k \in 1..Len(t) : x = t[k]
        BY <3>2
      <4>2. k + 1 \in 1..Len(q) /\ x = q[k + 1]
        BY <1>1, <1>2, <4>1
      <4> QED BY <2>1, <4>2
    <3> QED BY <2>2, <2>4, <3>1, <3>2
  <2> QED BY <2>3, <2>4
<1>8. WorkerOK(v, done)
  <2>1. \A j, k \in 1..Len(q) : j < k => q[j] < q[k]
    BY DEF WorkerOK, q
  <2>2. ASSUME NEW j \in 1..Len(t), NEW k \in 1..Len(t), j < k PROVE t[j] < t[k]
    <3>1. j + 1 \in 1..Len(q) /\ k + 1 \in 1..Len(q) /\ j + 1 < k + 1
      BY <1>1, <1>2, <2>2
    <3> QED BY <1>2, <2>1, <3>1
  <2>3. ASSUME NEW k \in 1..Len(t) PROVE q[1] < t[k]
    <3>1. k + 1 \in 1..Len(q) /\ 1 \in 1..Len(q) /\ 1 < k + 1
      BY <1>1, <1>2, <2>3
    <3> QED BY <1>2, <2>1, <3>1
  <2>4. Len(t) < 3 * BatchSize /\ (~v.paused => Len(t) < 2 * BatchSize)
    <3>1. Len(q) < 3 * BatchSize /\ (~w.paused => Len(q) < 2 * BatchSize)
      BY DEF WorkerOK, q
    <3>2. resume => Len(q) - 1 <= BatchSize
      BY DEF Resumes, q
    <3>3. BatchSize \in Nat /\ BatchSize > 0
      BY Constants
    <3>4. resume => Len(t) < 2 * BatchSize
      BY <1>1, <1>2, <3>2, <3>3
    <3>5. ~w.paused => Len(t) < 2 * BatchSize
      BY <1>1, <1>2, <3>1, <3>3
    <3>6. Len(t) < 3 * BatchSize
      BY <1>1, <1>2, <3>1, <3>3
    <3> QED BY <1>4, <3>4, <3>5, <3>6, Zenon
  <2>5. w.member \in Members /\ w.part \in Partitions
    BY <1>6 DEF WorkerOK
  <2>6. \A x \in Pend(v) : \A o \in 0..(x - 1) : Record(v.part, o) \in done \/ o \in Pend(v)
    BY <1>4, <1>7 DEF WorkerOK
  <2> QED BY <1>4, <1>5, <1>6, <2>2, <2>3, <2>4, <2>5, <2>6 DEF WorkerOK
<1>9. (v.paused => w.paused) /\ (resume => ~v.paused)
  BY <1>4, Zenon
<1> QED BY <1>4, <1>5, <1>7, <1>8, <1>9 DEF v

LEMMA TakeNextInv == ASSUME IInv, NEW i \in WorkerIds, TakeNext(i) PROVE IInv'
<1> DEFINE w == worker[i]
           m == w.member
           c == client[m]
           resume == Resumes(w)
           v == Taken(w, resume)
<1>1. /\ w.pc = "next" /\ w.queue # <<>> /\ worker' = [worker EXCEPT ![i] = v]
      /\ client' = IF resume THEN [client EXCEPT ![m].paused = @ \ {w.part}] ELSE client
      /\ Same /\ UNCHANGED <<slots, settled>> /\ Done' = Done /\ orphan' = orphan
  BY DoneSame DEF TakeNext, Taken, Same, history
<1>2. Alive(w) /\ settled \subseteq [part : Partitions, offset : Offsets] /\ client \in [Members -> Clients]
  BY <1>1 DEF Alive, IInv, TypeOK
<1>3. w \in Jobs /\ i \in 1..made /\ WorkerOK(w, Done) /\ m \in Members /\ w.part \in Partitions
  BY <1>2, HereWorker
<1>4. resume \in BOOLEAN /\ (resume <=> Resumes(w))
  BY <1>3 DEF Resumes, Jobs
<1>5. /\ v \in Jobs /\ v.pc = "acquire" /\ v.member = w.member /\ v.part = w.part
      /\ v.revoked = w.revoked /\ v.cancelled = w.cancelled
      /\ (v.paused => w.paused) /\ (resume => ~v.paused)
      /\ ~w.revoked /\ Pend(v) = Pend(w) /\ WorkerOK(v, Done)
  <2>1. w \in Jobs /\ w.pc = "next" /\ w.queue # <<>> /\ WorkerOK(w, Done)
    BY <1>1, <1>3
  <2> DEFINE done == Done
  <2>2. WorkerOK(w, done)
    BY <2>1
  <2> HIDE DEF w, resume, done
  <2>3. /\ v \in Jobs /\ v.pc = "acquire" /\ v.member = w.member /\ v.part = w.part
        /\ v.revoked = w.revoked /\ v.cancelled = w.cancelled
        /\ (v.paused => w.paused) /\ (resume => ~v.paused)
        /\ ~w.revoked /\ Pend(v) = Pend(w) /\ WorkerOK(v, done)
    BY <1>4, <2>1, <2>2, TakeFacts, SMTT(30) DEF v
  <2>4. done = Done
    BY DEF done
  <2> HIDE DEF v
  <2> QED BY <2>3, <2>4
<1> HIDE DEF v, resume
<1>6. Moves(w, v, Done')
  BY <1>2, <1>5 DEF Moves
<1>7. SlotsAccounted' /\ slots' \in [Members -> 0..Concurrency]
  BY <1>1, <1>3, <1>5, SlotsMove DEF Same
<1>8. CASE ~resume
  BY <1>1, <1>2, <1>5, <1>6, <1>7, <1>8, QuietInv
<1>9. CASE resume
  <2> DEFINE d == [c EXCEPT !.paused = @ \ {w.part}]
  <2>1. d \in Clients /\ d.held = c.held /\ d.pos = c.pos /\ d.mark = c.mark
        /\ d.paused = c.paused \ {w.part}
    BY <1>2, <1>3 DEF Clients
  <2>2. client' = [client EXCEPT ![m] = d]
    BY <1>1, <1>9
  <2> HIDE DEF d
  <2>3. client' \in [Members -> Clients] /\ client'[m] = d
        /\ \A n \in Members : n # m => client'[n] = client[n]
    BY <1>2, <1>3, <2>1, <2>2
  <2>4. /\ worker \in [WorkerIds -> Jobs] /\ made \in 0..MaxWorkers /\ 1..made \subseteq WorkerIds
        /\ worker'[i] = v
    BY <1>1, MadeIds
  <2>5. \A k \in 1..made : Moves(worker[k], worker'[k], Done')
    BY <1>1, <1>6, <2>4 DEF Moves
  <2>6. MemberOK(m, owner, committed, joined[m], c, fetch[m], callback[m], session[m],
                 workers[m], made, worker', Done', orphan')
    BY <1>1, <1>3, <2>4, <2>5, Here, WorkersMove
  <2>7. \A p \in Partitions : workers[m][p] # 0 /\ Alive(worker'[workers[m][p]])
                              /\ worker'[workers[m][p]].paused => p \in d.paused
    <3> SUFFICES ASSUME NEW p \in Partitions, workers[m][p] # 0, Alive(worker'[workers[m][p]]),
                        worker'[workers[m][p]].paused
                 PROVE  p \in d.paused
      OBVIOUS
    <3>1. p \in c.paused
      BY <2>6 DEF MemberOK, FrontOK
    <3>2. p # w.part
      <4>1. Active(w)
        BY <1>2, <1>5 DEF Active
      <4>2. p = w.part => workers[m][p] = i
        BY <4>1, OnlyWorker
      <4> QED BY <1>5, <1>9, <2>4, <4>2
    <3> QED BY <2>1, <3>1, <3>2
  <2>8. MemberOK(m, owner, committed, joined[m], d, fetch[m], callback[m], session[m],
                 workers[m], made, worker', Done', orphan')
    BY <2>1, <2>6, <2>7, PausedOK
  <2> QED BY <1>1, <1>2, <1>5, <1>7, <2>3, <2>8, WorkerInv
<1> QED BY <1>4, <1>8, <1>9

\* The worker is done with its record: all that lies before the next is settled.
LEMMA CompleteFacts ==
    ASSUME NEW w \in Jobs, NEW done, w.pc = "complete", WorkerOK(w, done)
    PROVE  LET v == [w EXCEPT !.pc = "next"] IN
           /\ v \in Jobs /\ v.pc = "next" /\ v.member = w.member /\ v.part = w.part
           /\ v.revoked = w.revoked /\ v.cancelled = w.cancelled /\ v.paused = w.paused
           /\ Pend(v) \subseteq Pend(w) /\ WorkerOK(v, done)
           /\ \A x \in Pend(w) : x \in Pend(v) \/ x = w.offset
           /\ \A x \in Pend(v) : x \in Nat /\ w.offset + 1 <= x
           /\ \A o \in 0..w.offset : Record(w.part, o) \in done
<1> DEFINE v == [w EXCEPT !.pc = "next"]
           q == w.queue
<1>1. /\ v \in Jobs /\ v.pc = "next" /\ v.member = w.member /\ v.part = w.part /\ v.queue = q
      /\ v.revoked = w.revoked /\ v.cancelled = w.cancelled /\ v.paused = w.paused
      /\ v.attempt = w.attempt
  BY DEF Jobs
<1> HIDE DEF v, q
<1>2. HasRecord(w) /\ ~HasRecord(v) /\ Alive(w) /\ Alive(v)
  BY <1>1 DEF HasRecord, Alive
<1>3. Pend(v) = {q[k] : k \in 1..Len(q)} /\ Pend(w) = Pend(v) \cup {w.offset}
  BY <1>1, <1>2 DEF Pend, q
<1>4. w.offset \in Nat /\ Pend(v) \subseteq Nat
  BY <1>1, PendType, Constants DEF Jobs
<1>5. \A x \in Pend(v) : w.offset < x
  BY <1>2, <1>3 DEF WorkerOK, q
<1>6. Record(w.part, w.offset) \in done
  BY DEF WorkerOK
<1>7. \A x \in Pend(w) : \A o \in 0..(x - 1) : Record(w.part, o) \in done \/ o \in Pend(w)
  BY DEF WorkerOK
<1>8. \A o \in 0..w.offset : Record(w.part, o) \in done
  <2> SUFFICES ASSUME NEW o \in 0..w.offset, o # w.offset PROVE Record(w.part, o) \in done
    BY <1>6
  <2>1. o \in 0..(w.offset - 1) /\ o \notin Pend(v)
    BY <1>4, <1>5
  <2> QED BY <1>3, <1>7, <2>1
<1>9. WorkerOK(v, done)
  <2>1. \A x \in Pend(v) : \A o \in 0..(x - 1) : Record(v.part, o) \in done \/ o \in Pend(v)
    BY <1>1, <1>3, <1>6, <1>7
  <2>2. /\ v.member \in Members /\ v.part \in Partitions
        /\ \A j, k \in 1..Len(v.queue) : j < k => v.queue[j] < v.queue[k]
        /\ v.revoked => v.cancelled /\ v.queue = <<>>
        /\ Len(v.queue) < 3 * BatchSize /\ (~v.paused => Len(v.queue) < 2 * BatchSize)
    BY <1>1, <1>2 DEF WorkerOK, q
  <2> QED BY <1>1, <1>2, <2>1, <2>2 DEF WorkerOK
<1>10. \A x \in Pend(v) : x \in Nat /\ w.offset + 1 <= x
  BY <1>4, <1>5
<1> QED BY <1>1, <1>3, <1>8, <1>9, <1>10 DEF v

\* Marks do not matter to what was fetched.
LEMMA FetchSame ==
    ASSUME NEW c, NEW d, NEW f, NEW s, NEW ws, NEW W, FetchOK(c, f, s, ws, W),
           d.held = c.held, d.pos = c.pos
    PROVE  FetchOK(d, f, s, ws, W)
<1> SUFFICES ASSUME f # <<>> PROVE FetchOK(d, f, s, ws, W)
  BY DEF FetchOK
<1>1. PICK p \in Partitions, o \in Offsets :
         /\ p \in c.held /\ c.pos[p] = o + Len(f) /\ Len(f) <= BatchSize
         /\ \A k \in 1..Len(f) : f[k] = Record(p, o + k - 1)
         /\ ws[p] # 0 /\ Alive(W[ws[p]]) => ~W[ws[p]].paused
  BY DEF FetchOK
<1>2. p \in d.held /\ d.pos[p] = o + Len(f)
  BY <1>1
<1> QED BY <1>1, <1>2 DEF FetchOK

LEMMA CompleteInv == ASSUME IInv, NEW i \in WorkerIds, Complete(i) PROVE IInv'
<1> DEFINE w == worker[i]
           m == w.member
           p == w.part
           c == client[m]
           v == [w EXCEPT !.pc = "next"]
<1>1. /\ w.pc = "complete" /\ worker' = [worker EXCEPT ![i] = v]
      /\ client' = IF w.revoked THEN client
                   ELSE [client EXCEPT ![m].mark[p] = Max({@, w.offset + 1})]
      /\ Same /\ UNCHANGED <<slots, settled>> /\ Done' = Done /\ orphan' = orphan
  BY DoneSame DEF Complete, Goto, Same, history
<1>2. Alive(w) /\ settled \subseteq [part : Partitions, offset : Offsets] /\ client \in [Members -> Clients]
  BY <1>1 DEF Alive, IInv, TypeOK
<1>3. /\ w \in Jobs /\ i \in 1..made /\ WorkerOK(w, Done) /\ m \in Members /\ p \in Partitions
      /\ c \in Clients
  BY <1>2, HereWorker
<1>4. /\ v \in Jobs /\ v.pc = "next" /\ v.member = w.member /\ v.part = w.part
      /\ v.revoked = w.revoked /\ v.cancelled = w.cancelled /\ v.paused = w.paused
      /\ Pend(v) \subseteq Pend(w) /\ WorkerOK(v, Done)
      /\ \A x \in Pend(w) : x \in Pend(v) \/ x = w.offset
      /\ \A x \in Pend(v) : x \in Nat /\ w.offset + 1 <= x
      /\ \A o \in 0..w.offset : Record(p, o) \in Done
  BY <1>1, <1>3, CompleteFacts
<1> HIDE DEF v
<1>5. Moves(w, v, Done')
  <2>1. \A x \in Pend(w) : x \in Pend(v) \/ Record(w.part, x) \in Done
    BY <1>1, <1>3, <1>4 DEF WorkerOK
  <2> QED BY <1>1, <1>2, <1>4, <2>1 DEF Moves
<1>6. SlotsAccounted' /\ slots' \in [Members -> 0..Concurrency]
  BY <1>1, <1>3, <1>4, SlotsMove DEF Same
<1>7. CASE w.revoked
  BY <1>1, <1>2, <1>4, <1>5, <1>6, <1>7, QuietInv
<1>8. CASE ~w.revoked
  <2> DEFINE new == Max({c.mark[p], w.offset + 1})
             d == [c EXCEPT !.mark[p] = new]
  <2>1. /\ c.mark[p] \in Nat /\ w.offset \in Offsets /\ w.offset \in Nat /\ w.offset + 1 \in Positions
        /\ c.mark[p] \in Positions
    BY <1>3, Constants DEF Clients, Jobs
  <2>2. new \in Positions /\ new \in Nat /\ new \in {c.mark[p], w.offset + 1} /\ w.offset + 1 <= new
    <3>1. c.mark[p] \in Int /\ w.offset + 1 \in Int
      BY <2>1
    <3>2. new \in {c.mark[p], w.offset + 1} /\ w.offset + 1 <= new
      BY <3>1, MaxTwo
    <3> HIDE DEF new
    <3> QED BY <2>1, <3>2
  <2> HIDE DEF new
  <2>3. /\ d \in Clients /\ d.held = c.held /\ d.pos = c.pos /\ d.paused = c.paused
        /\ \A q \in Partitions : d.mark[q] = IF q = p THEN new ELSE c.mark[q]
    BY <1>3, <2>2 DEF Clients
  <2>4. client' = [client EXCEPT ![m] = d]
    BY <1>1, <1>8 DEF new
  <2> HIDE DEF d
  <2>5. client' \in [Members -> Clients] /\ client'[m] = d
        /\ \A n \in Members : n # m => client'[n] = client[n]
    BY <1>2, <1>3, <2>3, <2>4
  <2>6. /\ worker \in [WorkerIds -> Jobs] /\ made \in 0..MaxWorkers /\ 1..made \subseteq WorkerIds
        /\ worker'[i] = v /\ \A k \in WorkerIds : k # i => worker'[k] = worker[k]
    BY <1>1, MadeIds
  <2>7. \A k \in 1..made : Moves(worker[k], worker'[k], Done')
    BY <1>5, <2>6 DEF Moves
  <2>8. MemberOK(m, owner, committed, joined[m], c, fetch[m], callback[m], session[m],
                 workers[m], made, worker', Done', orphan')
    BY <1>1, <1>3, <2>6, <2>7, Here, WorkersMove
  <2>9. Active(w) /\ w.offset \in Pend(w)
    BY <1>1, <1>2, <1>3, <1>8, PendType DEF Active, HasRecord
  <2>10. MarkOK(d, Done')
    <3> SUFFICES ASSUME NEW q \in Partitions, NEW o \in 0..(d.mark[q] - 1)
                 PROVE  Record(q, o) \in Done
      BY <1>1 DEF MarkOK
    <3>1. CASE o \in 0..(c.mark[q] - 1)
      BY <1>3, <3>1, Here DEF MarkOK
    <3>2. CASE q = p /\ d.mark[q] = w.offset + 1
      BY <1>4, <2>1, <3>2
    <3> QED BY <2>2, <2>3, <3>1, <3>2
  <2>11. OwnerOK(m, owner, joined[m], d, fetch[m], callback[m], session[m])
    <3>1. session[m] # "gone"
      BY <1>3, <2>9, Here DEF ActiveOK
    <3> QED BY <2>3, <2>8, <3>1 DEF MemberOK, OwnerOK
  <2>12. LateOK(m, d, made, worker', orphan')
    <3>1. p \in c.held \/ Left(orphan, p)
      <4>1. LateOK(m, c, made, worker, orphan)
        BY <1>3, Here
      <4>2. i \in 1..made /\ i \in WorkerIds /\ Active(worker[i])
        BY <1>3, <2>9
      <4> QED BY <4>1, <4>2 DEF LateOK, Left
    <3> QED BY <1>1, <2>3, <2>8, <3>1 DEF MemberOK, LateOK
  <2>13. \A q \in Partitions : Front(d, fetch[m], q) = Front(c, fetch[m], q)
    BY <2>3 DEF Front
  <2>14. AdvanceOK(m, joined[m], committed, d, fetch[m], workers[m], made, worker', orphan')
    <3> SUFFICES ASSUME joined[m]
                 PROVE  AdvanceOK(m, joined[m], committed, d, fetch[m], workers[m], made, worker', orphan')
      BY DEF AdvanceOK
    <3>0. AdvanceOK(m, joined[m], committed, c, fetch[m], workers[m], made, worker', orphan')
      BY <2>8 DEF MemberOK
    <3>1. ~Left(orphan, p) => committed[p] <= w.offset /\ c.mark[p] <= w.offset
      BY <1>3, <2>9, Here DEF AdvanceOK
    <3>2. ~Left(orphan, p) => new = w.offset + 1
      BY <2>1, <2>2, <3>1
    <3>3. \A q \in Partitions : d.mark[q] # 0 /\ ~Left(orphan, q) => committed[q] <= d.mark[q]
      <4>1. ASSUME NEW q \in Partitions, d.mark[q] # 0, q # p, ~Left(orphan, q)
            PROVE  committed[q] <= d.mark[q]
        BY <1>1, <2>3, <3>0, <4>1 DEF AdvanceOK
      <4>2. committed[p] \in Nat
        BY <1>3, Here, Constants
      <4>3. ~Left(orphan, p) => committed[p] <= new
        BY <2>1, <3>1, <3>2, <4>2
      <4> QED BY <1>3, <2>3, <4>1, <4>3
    <3>4. ASSUME NEW k \in 1..made, Active(worker'[k]), worker'[k].member = m,
                 ~Left(orphan, worker'[k].part), NEW x \in Pend(worker'[k])
          PROVE  committed[worker'[k].part] <= x /\ d.mark[worker'[k].part] <= x
      <4>1. committed[worker'[k].part] <= x /\ c.mark[worker'[k].part] <= x
        BY <1>1, <3>0, <3>4 DEF AdvanceOK
      <4>2. CASE k = i
        <5>1. worker'[k].part = p /\ x \in Pend(v)
          BY <1>4, <2>6, <3>4, <4>2
        <5>2. d.mark[p] = w.offset + 1
          BY <1>3, <2>3, <3>2, <3>4, <5>1
        <5> QED BY <1>4, <4>1, <5>1, <5>2
      <4>3. CASE k # i
        <5>1. worker'[k] = worker[k] /\ k \in WorkerIds
          BY <2>6, <4>3
        <5>2. worker[k].part # p
          BY <1>3, <2>9, <3>4, <4>3, <5>1 DEF IInv, WorkersOK
        <5>3. worker[k].part \in Partitions
          BY <3>4, <5>1, HereWorker DEF Active
        <5> QED BY <2>3, <4>1, <5>1, <5>2, <5>3
      <4> QED BY <4>2, <4>3
    <3>5. ASSUME NEW q \in Partitions, workers[m][q] # 0, Alive(worker'[workers[m][q]]),
                 ~Left(orphan, q)
          PROVE  committed[q] <= Front(d, fetch[m], q) /\ d.mark[q] <= Front(d, fetch[m], q)
      <4>1. committed[q] <= Front(c, fetch[m], q) /\ c.mark[q] <= Front(c, fetch[m], q)
        BY <1>1, <3>0, <3>5 DEF AdvanceOK
      <4>2. CASE q # p
        BY <2>3, <2>13, <4>1, <4>2
      <4>3. CASE q = p
        <5>1. workers[m][p] = i
          BY <2>9, <3>5, <4>3, OnlyWorker
        <5>2. w.offset < Front(c, fetch[m], p)
          BY <1>2, <1>3, <2>9, <3>5, <4>3, <5>1, Here DEF FrontOK
        <5>3. Front(c, fetch[m], p) \in Nat
          BY <1>3, Here, FrontType
        <5>4. w.offset + 1 <= Front(c, fetch[m], p)
          BY <2>1, <5>2, <5>3
        <5>5. d.mark[p] = w.offset + 1
          BY <1>3, <2>3, <3>2, <3>5, <4>3
        <5> QED BY <2>13, <4>1, <4>3, <5>4, <5>5
      <4> QED BY <4>2, <4>3
    <3> QED BY <1>1, <3>3, <3>4, <3>5 DEF AdvanceOK
  <2>15. MemberOK(m, owner, committed, joined[m], d, fetch[m], callback[m], session[m],
                  workers[m], made, worker', Done', orphan')
    <3>1. /\ MapOK(m, d, session[m], workers[m], made, worker')
          /\ CallbackOK(m, d, fetch[m], callback[m], workers[m], made, worker')
          /\ ActiveOK(m, session[m], callback[m], workers[m], made, worker')
      BY <2>3, <2>8 DEF MemberOK, MapOK, CallbackOK
    <3>2. FetchOK(d, fetch[m], session[m], workers[m], worker')
      <4>1. FetchOK(c, fetch[m], session[m], workers[m], worker')
        BY <2>8 DEF MemberOK
      <4> QED BY <2>3, <4>1, FetchSame
    <3>3. FrontOK(d, fetch[m], workers[m], worker', Done')
      BY <2>3, <2>8, <2>13 DEF MemberOK, FrontOK
    <3> QED BY <2>10, <2>11, <2>12, <2>14, <3>1, <3>2, <3>3 DEF MemberOK
  <2> QED BY <1>1, <1>2, <1>4, <1>6, <2>5, <2>15, WorkerInv
<1> QED BY <1>7, <1>8

-------------------------------------------------------------------------------
(* Steps of a member that change no worker. *)

LEMMA MemberInv ==
    ASSUME IInv, NEW m \in Members, TypeOK', CommittedDone',
           UNCHANGED <<worker, slots, settled, start, made>>,
           \A n \in Members : n # m =>
             /\ joined'[n] = joined[n] /\ client'[n] = client[n] /\ fetch'[n] = fetch[n]
             /\ callback'[n] = callback[n] /\ session'[n] = session[n] /\ workers'[n] = workers[n],
           \A p \in Partitions : \A n \in Members : n # m => (owner'[p] = n <=> owner[p] = n),
           \A p \in Partitions : committed'[p] = committed[p] \/ Left(orphan', p) \/ owner[p] = m,
           \A i \in WorkerIds : orphan'[i] = orphan[i] \/ (orphan[i] = 0 /\ worker[i].member = m),
           MemberOK(m, owner', committed', joined'[m], client'[m], fetch'[m], callback'[m],
                    session'[m], workers'[m], made, worker, Done, orphan')
    PROVE  IInv'
<1>1. SlotsAccounted'
  BY SlotsKept
<1>2. \A i \in WorkerIds : Keeps(m, worker[i], worker'[i]) /\ worker'[i] = worker[i]
  BY DEF Keeps
<1>3. MemberOK(m, owner', committed', joined'[m], client'[m], fetch'[m], callback'[m],
               session'[m], workers'[m], made', worker', Done', orphan')
  BY DoneSame
<1>4. Done \subseteq Done'
  BY DoneSame
<1> QED BY <1>1, <1>2, <1>3, <1>4, StepInv

\* What is committed stays done when nothing is committed.
LEMMA CommittedKept ==
    ASSUME IInv, committed' = committed, settled' = settled, start' = start PROVE CommittedDone'
BY DoneSame DEF IInv, CommittedDone

\* Moves are counted.
LEMMA MoveType == ASSUME IInv, NEW m \in Members, Move(m) PROVE moves' \in 0..(MaxMoves + MaxLate)
<1>1. moves \in 0..(MaxMoves + MaxLate)
  BY DEF IInv, TypeOK
<1> QED BY <1>1, Constants DEF Move

\* Stop and Abort.
LEMMA StopInv == ASSUME IInv, NEW m \in Members, Stop(m) \/ Abort(m) PROVE IInv'
<1>1. /\ UNCHANGED <<owner, committed, joined, client, fetch, callback, session, workers>>
      /\ UNCHANGED <<end, worker, slots, settled, start, orphan, made>>
      /\ moves' \in 0..(MaxMoves + MaxLate)
      /\ \/ sub' = [sub EXCEPT ![m] = "stopped"]
         \/ sub' = [sub EXCEPT ![m] = "aborted"]
  <2>1. CASE Stop(m)
    BY <2>1, MoveType DEF Stop, broker, history
  <2>2. CASE Abort(m)
    BY <2>2 DEF Abort, broker, history, IInv, TypeOK
  <2> QED BY <2>1, <2>2
<1>2. sub' \in [Members -> {"open", "stopped", "aborted"}]
  BY <1>1 DEF IInv, TypeOK
<1>3. TypeOK'
  BY <1>1, <1>2 DEF IInv, TypeOK
<1>4. MemberOK(m, owner', committed', joined'[m], client'[m], fetch'[m], callback'[m],
               session'[m], workers'[m], made, worker, Done, orphan')
  BY <1>1, Here
<1> QED BY <1>1, <1>3, <1>4, CommittedKept, MemberInv

\* m is removed from the group; nobody else's partitions change hands.
LEMMA RemovedFacts ==
    ASSUME IInv, NEW m \in Members, Removed(m)
    PROVE  /\ joined' \in [Members -> BOOLEAN] /\ owner' \in [Partitions -> Members \cup {0}]
           /\ ~joined'[m] /\ \A p \in Partitions : owner'[p] # m
           /\ \A n \in Members : n # m => joined'[n] = joined[n]
           /\ \A p \in Partitions : \A n \in Members : n # m => (owner'[p] = n <=> owner[p] = n)
<1>1. /\ joined \in [Members -> BOOLEAN] /\ owner \in [Partitions -> Members \cup {0}]
      /\ joined' = [joined EXCEPT ![m] = FALSE]
      /\ owner' = [p \in Partitions |-> IF owner[p] = m THEN 0 ELSE owner[p]]
  BY DEF IInv, TypeOK, Removed
<1>2. m # 0 /\ \A n \in Members : n # 0
  BY Constants
<1>3. owner' \in [Partitions -> Members \cup {0}]
  BY <1>1
<1>4. \A p \in Partitions : owner'[p] = IF owner[p] = m THEN 0 ELSE owner[p]
  BY <1>1
<1> QED BY <1>1, <1>2, <1>3, <1>4

\* A member that is no longer in the group is as it should be.
LEMMA LeftOK ==
    ASSUME NEW m, NEW own, NEW own2, NEW com, NEW j, NEW c, NEW f, NEW cb, NEW s, NEW ws, NEW n,
           NEW W, NEW done, NEW O,
           MemberOK(m, own, com, j, c, f, cb, s, ws, n, W, done, O),
           NEW j2, ~j2, \A p \in Partitions : own2[p] # m
    PROVE  MemberOK(m, own2, com, j2, c, f, cb, s, ws, n, W, done, O)
<1>1. OwnerOK(m, own2, j2, c, f, cb, s)
  BY DEF MemberOK, OwnerOK
<1>2. AdvanceOK(m, j2, com, c, f, ws, n, W, O)
  BY DEF AdvanceOK
<1> QED BY <1>1, <1>2 DEF MemberOK

\* The broker removes m.
LEMMA KickInv == ASSUME IInv, NEW m \in Members, Kick(m) PROVE IInv'
<1>1. /\ UNCHANGED <<committed, client, fetch, callback, session, sub, workers>>
      /\ UNCHANGED <<end, worker, slots, settled, start, orphan, made>> /\ Removed(m) /\ moves' \in 0..(MaxMoves + MaxLate)
  BY MoveType DEF Kick, history
<1>2. TypeOK'
  BY <1>1, RemovedFacts DEF IInv, TypeOK
<1>3. MemberOK(m, owner', committed, joined'[m], client[m], fetch[m], callback[m],
               session[m], workers[m], made, worker, Done, orphan)
  BY <1>1, Here, RemovedFacts, LeftOK
<1>4. MemberOK(m, owner', committed', joined'[m], client'[m], fetch'[m], callback'[m],
               session'[m], workers'[m], made, worker, Done, orphan')
  BY <1>1, <1>3
<1> QED BY <1>1, <1>2, <1>4, CommittedKept, RemovedFacts, MemberInv

\* A member that holds nothing joins.
LEMMA JoinInv ==
    ASSUME IInv, NEW m \in Members, ~joined[m], client[m].held = {}, callback[m] = NoCallback,
           joined' = [joined EXCEPT ![m] = TRUE],
           UNCHANGED <<owner, committed, end, client, fetch, callback, sub, workers, worker, slots,
                       settled, start, orphan, made, moves>>,
           \/ session' = session /\ session[m] # "gone"
           \/ session[m] = "gone" /\ session' = [session EXCEPT ![m] = "run"]
    PROVE  IInv'
<1>1. /\ joined \in [Members -> BOOLEAN]
      /\ session \in [Members -> {"run", "shutdown", "closed", "leaving", "gone"}]
      /\ client[m] \in Clients
  BY DEF IInv, TypeOK
<1>2. /\ joined'[m] /\ joined' \in [Members -> BOOLEAN]
      /\ session' \in [Members -> {"run", "shutdown", "closed", "leaving", "gone"}]
      /\ \A n \in Members : n # m => joined'[n] = joined[n] /\ session'[n] = session[n]
      /\ session'[m] # "gone"
      /\ session'[m] = session[m] \/ (session[m] = "gone" /\ session'[m] = "run")
  BY <1>1
<1>3. TypeOK'
  BY <1>2 DEF IInv, TypeOK
<1> DEFINE c == client[m]
           f == fetch[m]
           cb == callback[m]
           s == session'[m]
           ws == workers[m]
<1>4. \A p \in Partitions : ws[p] = 0
  BY Here DEF MapOK
<1>5. MapOK(m, c, s, ws, made, worker) /\ FrontOK(c, f, ws, worker, Done)
  BY <1>4 DEF MapOK, FrontOK
<1>6. CallbackOK(m, c, f, cb, ws, made, worker) /\ MarkOK(c, Done)
  BY Here
<1>7. ActiveOK(m, s, cb, ws, made, worker)
  <2>1. ActiveOK(m, session[m], cb, ws, made, worker)
    BY Here
  <2> QED BY <1>2, <2>1 DEF ActiveOK
<1>8. FetchOK(c, f, s, ws, worker)
  <2>1. session[m] = "gone" => f = <<>>
    BY Here DEF OwnerOK
  <2> QED BY <1>2, <2>1, Here DEF FetchOK
<1>9. OwnerOK(m, owner, joined'[m], c, f, cb, s)
  BY <1>2, Here, Fresh DEF OwnerOK
<1>10. LateOK(m, c, made, worker, orphan)
  BY Here
<1>11. AdvanceOK(m, joined'[m], committed, c, f, ws, made, worker, orphan)
  <2>1. 1..made \subseteq WorkerIds
    BY Here DEF WorkerIds
  <2>2. \A i \in 1..made : Active(worker[i]) /\ worker[i].member = m => Left(orphan, worker[i].part)
    BY <1>10, <2>1 DEF LateOK, Left
  <2>3. \A p \in Partitions : c.mark[p] # 0 => Left(orphan, p)
    BY <1>10 DEF LateOK
  <2> QED BY <1>4, <2>2, <2>3 DEF AdvanceOK
<1>12. MemberOK(m, owner', committed', joined'[m], client'[m], fetch'[m], callback'[m],
                session'[m], workers'[m], made, worker, Done, orphan')
  BY <1>5, <1>6, <1>7, <1>8, <1>9, <1>10, <1>11 DEF MemberOK
<1> QED BY <1>2, <1>3, <1>12, CommittedKept, MemberInv

LEMMA RejoinInv == ASSUME IInv, NEW m \in Members, Rejoin(m) PROVE IInv'
<1>1. session[m] # "gone"
  BY DEF Rejoin
<1> QED BY <1>1, JoinInv DEF Rejoin, MayCall, history

LEMMA RebuildInv == ASSUME IInv, NEW m \in Members, Rebuild(m) PROVE IInv'
<1>1. session[m] = "gone"
  BY DEF Rebuild
<1>2. ~joined[m] /\ client[m].held = {} /\ callback[m] = NoCallback
  BY <1>1, Here DEF OwnerOK
<1> QED BY <1>1, <1>2, JoinInv DEF Rebuild, history

-------------------------------------------------------------------------------
(* Commits. *)

\* Only marks are committed: they are settled and, unless they are of orphans,
\* ahead of what was committed, and of partitions that m owns.
LEMMA CommitFacts ==
    ASSUME IInv, NEW m \in Members, (joined[m] /\ CommitMarked(m)) \/ committed' = committed
    PROVE  /\ committed' \in [Partitions -> Positions]
           /\ \A p \in Partitions : \A o \in 0..(committed'[p] - 1) : Record(p, o) \in Done
           /\ \A p \in Partitions : committed'[p] = committed[p] \/ Left(orphan, p) \/ owner[p] = m
           /\ AdvanceOK(m, joined[m], committed', client[m], fetch[m], workers[m], made, worker, orphan)
           /\ \A p \in Partitions : ~Left(orphan, p) => committed'[p] >= committed[p]
<1> DEFINE c == client[m]
<1>0. /\ committed \in [Partitions -> Positions] /\ c \in Clients /\ MarkOK(c, Done)
      /\ OwnerOK(m, owner, joined[m], c, fetch[m], callback[m], session[m])
      /\ LateOK(m, c, made, worker, orphan)
      /\ AdvanceOK(m, joined[m], committed, c, fetch[m], workers[m], made, worker, orphan)
  BY Here
<1>1. \A p \in Partitions : c.mark[p] \in Positions /\ committed[p] \in Positions
  BY <1>0 DEF Clients
<1>2. /\ committed' \in [Partitions -> Positions]
      /\ \A p \in Partitions : \/ committed'[p] = committed[p]
                               \/ joined[m] /\ c.mark[p] # 0 /\ committed'[p] = c.mark[p]
  <2>1. CASE joined[m] /\ CommitMarked(m)
    BY <1>0, <1>1, <2>1 DEF CommitMarked
  <2>2. CASE committed' = committed
    BY <1>0, <2>2
  <2> QED BY <2>1, <2>2
<1>3. \A p \in Partitions : \A o \in 0..(committed'[p] - 1) : Record(p, o) \in Done
  BY <1>0, <1>2 DEF MarkOK, IInv, CommittedDone
<1>4. \A p \in Partitions : committed'[p] = committed[p] \/ Left(orphan, p) \/ owner[p] = m
  BY <1>0, <1>2 DEF LateOK, OwnerOK
<1>5. AdvanceOK(m, joined[m], committed', c, fetch[m], workers[m], made, worker, orphan)
  <2> SUFFICES ASSUME joined[m]
               PROVE  AdvanceOK(m, joined[m], committed', c, fetch[m], workers[m], made, worker, orphan)
    BY DEF AdvanceOK
  <2>1. ASSUME NEW p \in Partitions, c.mark[p] # 0, ~Left(orphan, p)
        PROVE  committed'[p] <= c.mark[p]
    <3>1. committed[p] <= c.mark[p]
      BY <1>0, <2>1 DEF AdvanceOK
    <3>2. c.mark[p] \in Nat
      BY <1>1, Constants
    <3> QED BY <1>2, <3>1, <3>2
  <2>2. ASSUME NEW i \in 1..made, Active(worker[i]), worker[i].member = m,
               ~Left(orphan, worker[i].part), NEW x \in Pend(worker[i])
        PROVE  committed'[worker[i].part] <= x /\ c.mark[worker[i].part] <= x
    <3>1. i \in WorkerIds
      BY Here DEF WorkerIds
    <3>2. worker[i].part \in Partitions
      BY <2>2, <3>1, HereWorker DEF Active
    <3> QED BY <1>0, <1>2, <2>2, <3>2 DEF AdvanceOK
  <2>3. \A p \in Partitions : workers[m][p] # 0 /\ Alive(worker[workers[m][p]])
                               /\ ~Left(orphan, p) =>
          committed'[p] <= Front(c, fetch[m], p) /\ c.mark[p] <= Front(c, fetch[m], p)
    BY <1>0, <1>2 DEF AdvanceOK
  <2> QED BY <2>1, <2>2, <2>3 DEF AdvanceOK
<1>6. ASSUME NEW p \in Partitions, ~Left(orphan, p) PROVE committed'[p] >= committed[p]
  <2>1. committed[p] \in Nat
    BY <1>1, Constants
  <2>2. joined[m] /\ c.mark[p] # 0 => committed[p] <= c.mark[p]
    BY <1>0, <1>6 DEF AdvanceOK
  <2> QED BY <1>2, <2>1, <2>2
<1> QED BY <1>2, <1>3, <1>4, <1>5, <1>6

\* Marks that are gone are no obstacle.
LEMMA AdvanceMarks ==
    ASSUME NEW m, NEW j, NEW com, NEW c, NEW d, NEW f, NEW ws, NEW n \in 0..MaxWorkers, NEW W, NEW O,
           AdvanceOK(m, j, com, c, f, ws, n, W, O), com \in [Partitions -> Positions],
           d.pos = c.pos, \A p \in Partitions : d.mark[p] \in {0, c.mark[p]},
           \A i \in 1..n : Active(W[i]) /\ W[i].member = m =>
             W[i].part \in Partitions /\ Pend(W[i]) \subseteq Nat,
           \A p \in Partitions : Front(c, f, p) \in Nat
    PROVE  AdvanceOK(m, j, com, d, f, ws, n, W, O)
<1> SUFFICES ASSUME j PROVE AdvanceOK(m, j, com, d, f, ws, n, W, O)
  BY DEF AdvanceOK
<1>1. \A p \in Partitions : Front(d, f, p) = Front(c, f, p)
  BY DEF Front
<1>2. \A p \in Partitions : d.mark[p] # 0 /\ ~Left(O, p) => com[p] <= d.mark[p]
  BY DEF AdvanceOK
<1>3. ASSUME NEW i \in 1..n, Active(W[i]), W[i].member = m,
             ~Left(O, W[i].part), NEW x \in Pend(W[i])
      PROVE  com[W[i].part] <= x /\ d.mark[W[i].part] <= x
  <2>1. x \in Nat /\ W[i].part \in Partitions
    BY <1>3
  <2>2. com[W[i].part] <= x /\ c.mark[W[i].part] <= x
    BY <1>3 DEF AdvanceOK
  <2>3. d.mark[W[i].part] = 0 \/ d.mark[W[i].part] = c.mark[W[i].part]
    BY <2>1
  <2> QED BY <2>1, <2>2, <2>3
<1>4. ASSUME NEW p \in Partitions, ws[p] # 0, Alive(W[ws[p]]), ~Left(O, p)
      PROVE  com[p] <= Front(d, f, p) /\ d.mark[p] <= Front(d, f, p)
  <2>1. com[p] <= Front(c, f, p) /\ c.mark[p] <= Front(c, f, p)
    BY <1>4 DEF AdvanceOK
  <2>2. d.mark[p] = 0 \/ d.mark[p] = c.mark[p]
    OBVIOUS
  <2> QED BY <1>1, <2>1, <2>2
<1> QED BY <1>2, <1>3, <1>4 DEF AdvanceOK

\* What AdvanceMarks asks of workers and fronts.
LEMMA MarksHere ==
    ASSUME IInv, NEW m \in Members
    PROVE  /\ \A i \in 1..made : Active(worker[i]) /\ worker[i].member = m =>
                worker[i].part \in Partitions /\ Pend(worker[i]) \subseteq Nat
           /\ \A p \in Partitions : Front(client[m], fetch[m], p) \in Nat
<1>1. 1..made \subseteq WorkerIds
  BY Here DEF WorkerIds
<1>2. ASSUME NEW i \in 1..made, Active(worker[i])
      PROVE  worker[i].part \in Partitions /\ Pend(worker[i]) \subseteq Nat
  BY <1>1, <1>2, HereWorker, PendType, Constants DEF Active
<1> QED BY <1>2, Here, FrontType

\* A client that commits drops marks, and possibly partitions.
LEMMA UnmarkedFacts ==
    ASSUME NEW c \in Clients
    PROVE  LET d == Unmarked(c) IN
           /\ d \in Clients /\ d.held = c.held /\ d.pos = c.pos /\ d.paused = c.paused
           /\ \A p \in Partitions : d.mark[p] = 0
BY Constants DEF Clients, Unmarked

LEMMA DroppedFacts ==
    ASSUME NEW c \in Clients, NEW p \in Partitions
    PROVE  LET d == Dropped(c, p) IN
           /\ d \in Clients /\ d.held = c.held \ {p} /\ d.pos = c.pos /\ d.paused = c.paused \ {p}
           /\ \A q \in Partitions : d.mark[q] = IF q = p THEN 0 ELSE c.mark[q]
BY Constants DEF Clients, Dropped

\* More orphans are no obstacle.
LEMMA AdvanceMore ==
    ASSUME NEW m, NEW j, NEW com, NEW c, NEW f, NEW ws, NEW n, NEW W, NEW O, NEW P,
           AdvanceOK(m, j, com, c, f, ws, n, W, O),
           \A i \in 1..n : Active(W[i]) /\ W[i].member = m => W[i].part \in Partitions,
           \A p \in Partitions : Left(O, p) => Left(P, p)
    PROVE  AdvanceOK(m, j, com, c, f, ws, n, W, P)
BY DEF AdvanceOK

\* A callback gives p up: the workers of p that shutdown waits for become orphans.
LEMMA OrphanedFacts ==
    ASSUME IInv, NEW m \in Members, NEW p \in Partitions, Orphaned(m, p)
    PROVE  /\ orphan' \in [WorkerIds -> Partitions \cup {0}]
           /\ \A i \in WorkerIds :
                orphan'[i] = orphan[i] \/ (orphan[i] = 0 /\ worker[i].member = m)
           /\ \A q \in Partitions : Left(orphan, q) => Left(orphan', q)
           /\ \A d, V :
                /\ d.held = client[m].held \ {p} /\ d.mark[p] = 0
                /\ \A q \in Partitions : d.mark[q] \in {0, client[m].mark[q]}
                /\ \A i \in 1..made : Active(V[i]) /\ V[i].member = m =>
                     V[i] = worker[i] /\ i # callback[m].worker
                => LateOK(m, d, made, V, orphan')
<1> DEFINE c == client[m]
<1>1. /\ orphan \in [WorkerIds -> Partitions \cup {0}] /\ made \in 0..MaxWorkers
      /\ LateOK(m, c, made, worker, orphan) /\ 1..made \subseteq WorkerIds
  BY Here DEF WorkerIds
<1>2. /\ orphan' \in [WorkerIds -> Partitions \cup {0}]
      /\ \A i \in WorkerIds : orphan'[i] =
           IF i \in ShutdownWorkers(m) /\ worker[i].part = p THEN p ELSE orphan[i]
  BY <1>1 DEF Orphaned
<1>3. \A i \in ShutdownWorkers(m) : i \in 1..made /\ worker[i].member = m /\ Active(worker[i])
  BY <1>1, Constants DEF ShutdownWorkers, Active, IInv, WorkersOK, WorkerOK
<1>4. \A i \in WorkerIds : orphan'[i] = orphan[i] \/ (orphan[i] = 0 /\ worker[i].member = m)
  BY <1>1, <1>2, <1>3 DEF LateOK
<1>5. \A q \in Partitions : Left(orphan, q) => Left(orphan', q)
  <2>1. ASSUME NEW q \in Partitions, NEW i \in WorkerIds, orphan[i] = q PROVE orphan'[i] = q
    BY <1>4, <2>1, Constants
  <2> QED BY <2>1 DEF Left
<1>6. ASSUME NEW d, NEW V, d.held = c.held \ {p}, d.mark[p] = 0,
             \A q \in Partitions : d.mark[q] \in {0, c.mark[q]},
             \A i \in 1..made : Active(V[i]) /\ V[i].member = m =>
               V[i] = worker[i] /\ i # callback[m].worker
      PROVE  LateOK(m, d, made, V, orphan')
  <2>1. ASSUME NEW q \in Partitions, d.mark[q] # 0 PROVE q \in d.held \/ Left(orphan', q)
    <3>1. q # p /\ c.mark[q] # 0
      BY <1>6, <2>1
    <3>2. q \in c.held \/ Left(orphan, q)
      BY <1>1, <3>1 DEF LateOK
    <3> QED BY <1>5, <1>6, <3>1, <3>2
  <2>2. ASSUME NEW i \in 1..made, Active(V[i]), V[i].member = m
        PROVE  (orphan'[i] = 0 /\ V[i].part \in d.held) \/ orphan'[i] = V[i].part
    <3>1. V[i] = worker[i] /\ i # callback[m].worker /\ i \in WorkerIds
      BY <1>1, <1>6, <2>2
    <3>2. i \in ShutdownWorkers(m)
      BY <2>2, <3>1 DEF ShutdownWorkers, Active
    <3>3. (orphan[i] = 0 /\ worker[i].part \in c.held) \/ orphan[i] = worker[i].part
      BY <1>1, <2>2, <3>1 DEF LateOK
    <3> QED BY <1>2, <1>6, <3>1, <3>2, <3>3
  <2> QED BY <2>1, <2>2 DEF LateOK
<1> QED BY <1>2, <1>4, <1>5, <1>6

\* The background commit.
LEMMA AutoCommitInv == ASSUME IInv, NEW m \in Members, AutoCommit(m) PROVE IInv'
<1> DEFINE c == client[m]
           d == Unmarked(c)
<1>1. /\ joined[m] /\ CommitMarked(m) /\ client' = [client EXCEPT ![m] = d]
      /\ UNCHANGED <<owner, joined, fetch, callback, session, sub, workers, moves>>
      /\ UNCHANGED <<end, worker, slots, settled, start, orphan, made>>
  BY DEF AutoCommit, history
<1>2. c \in Clients /\ client \in [Members -> Clients] /\ made \in 0..MaxWorkers
  BY DEF IInv, TypeOK
<1>3. /\ d \in Clients /\ d.held = c.held /\ d.pos = c.pos /\ d.paused = c.paused
      /\ \A p \in Partitions : d.mark[p] = 0
  BY <1>2, UnmarkedFacts
<1> HIDE DEF d
<1>4. client' \in [Members -> Clients] /\ client'[m] = d
      /\ \A n \in Members : n # m => client'[n] = client[n]
  BY <1>1, <1>2, <1>3
<1>5. TypeOK' /\ CommittedDone'
  BY <1>1, <1>4, CommitFacts, DoneSame DEF IInv, TypeOK, CommittedDone
<1>6. \A p \in Partitions : Front(d, fetch[m], p) = Front(c, fetch[m], p)
  BY <1>3 DEF Front
<1>7. AdvanceOK(m, joined[m], committed', d, fetch[m], workers[m], made, worker, orphan)
  <2>1. \A p \in Partitions : d.mark[p] \in {0, c.mark[p]}
    BY <1>3
  <2> QED BY <1>1, <1>2, <1>3, <2>1, CommitFacts, MarksHere, AdvanceMarks
<1>8. /\ MapOK(m, d, session[m], workers[m], made, worker)
      /\ CallbackOK(m, d, fetch[m], callback[m], workers[m], made, worker)
      /\ ActiveOK(m, session[m], callback[m], workers[m], made, worker)
  BY <1>3, Here DEF MapOK, CallbackOK
<1>9. FetchOK(d, fetch[m], session[m], workers[m], worker)
  <2>1. FetchOK(c, fetch[m], session[m], workers[m], worker)
    BY Here
  <2> HIDE DEF c
  <2> QED BY <1>3, <2>1 DEF FetchOK
<1>10. FrontOK(d, fetch[m], workers[m], worker, Done)
  BY <1>3, <1>6, Here DEF FrontOK
<1>11. /\ MarkOK(d, Done) /\ OwnerOK(m, owner, joined[m], d, fetch[m], callback[m], session[m])
       /\ LateOK(m, d, made, worker, orphan)
  <2>1. /\ OwnerOK(m, owner, joined[m], c, fetch[m], callback[m], session[m])
        /\ LateOK(m, c, made, worker, orphan)
    BY Here
  <2> HIDE DEF c
  <2>2. MarkOK(d, Done)
    BY <1>3 DEF MarkOK
  <2>3. OwnerOK(m, owner, joined[m], d, fetch[m], callback[m], session[m])
    BY <1>3, <2>1 DEF OwnerOK
  <2>4. LateOK(m, d, made, worker, orphan)
    BY <1>3, <2>1 DEF LateOK
  <2> QED BY <2>2, <2>3, <2>4
<1>12. MemberOK(m, owner', committed', joined'[m], client'[m], fetch'[m], callback'[m],
                session'[m], workers'[m], made, worker, Done, orphan')
  BY <1>1, <1>4, <1>7, <1>8, <1>9, <1>10, <1>11 DEF MemberOK
<1> QED BY <1>1, <1>4, <1>5, <1>12, CommitFacts, MemberInv

\* revoke commits and lets the partition go.
LEMMA RevokeCommitsInv == ASSUME IInv, NEW m \in Members, RevokeCommits(m) PROVE IInv'
<1> DEFINE c == client[m]
           cb == callback[m]
           p == cb.part
           d == client'[m]
           f == fetch[m]
           s == session[m]
           ws == workers[m]
<1>1. /\ cb.at = "commit"
      /\ \/ joined[m] /\ CommitMarked(m) /\ client' = [client EXCEPT ![m] = Dropped(Unmarked(c), p)]
         \/ client' = [client EXCEPT ![m] = Dropped(c, p)] /\ committed' = committed
      /\ owner' = [owner EXCEPT ![p] = IF @ = m THEN 0 ELSE @]
      /\ callback' = [callback EXCEPT ![m] = NoCallback]
      /\ UNCHANGED <<joined, fetch, session, sub, workers, moves>>
      /\ UNCHANGED <<end, worker, slots, settled, start, made>> /\ Orphaned(m, p)
  BY DEF RevokeCommits, Commit
<1>2. /\ c \in Clients /\ client \in [Members -> Clients] /\ made \in 0..MaxWorkers
      /\ owner \in [Partitions -> Members \cup {0}] /\ callback \in [Members -> Callbacks]
  BY DEF IInv, TypeOK
<1>3. p \in Partitions /\ p \in c.held /\ ws[p] = 0 /\ f = <<>>
  BY <1>1, Here DEF CallbackOK
<1>4. /\ d \in Clients /\ d.held = c.held \ {p} /\ d.pos = c.pos /\ d.paused = c.paused \ {p}
      /\ d.mark[p] = 0 /\ \A q \in Partitions : d.mark[q] \in {0, c.mark[q]}
      /\ client' \in [Members -> Clients] /\ \A n \in Members : n # m => client'[n] = client[n]
  <2>1. CASE client' = [client EXCEPT ![m] = Dropped(Unmarked(c), p)]
    <3> DEFINE u == Unmarked(c)
               e == Dropped(u, p)
    <3>1. /\ u \in Clients /\ u.held = c.held /\ u.pos = c.pos /\ u.paused = c.paused
          /\ \A q \in Partitions : u.mark[q] = 0
      BY <1>2, UnmarkedFacts
    <3> HIDE DEF u
    <3>2. /\ e \in Clients /\ e.held = u.held \ {p} /\ e.pos = u.pos /\ e.paused = u.paused \ {p}
          /\ \A q \in Partitions : e.mark[q] = IF q = p THEN 0 ELSE u.mark[q]
      BY <1>3, <3>1, DroppedFacts
    <3>3. client' = [client EXCEPT ![m] = e]
      BY <2>1 DEF u
    <3> HIDE DEF e
    <3>4. d = e
      BY <1>2, <3>3
    <3> QED BY <1>2, <1>3, <3>1, <3>2, <3>3, <3>4
  <2>2. CASE client' = [client EXCEPT ![m] = Dropped(c, p)]
    <3> DEFINE e == Dropped(c, p)
    <3>2. /\ e \in Clients /\ e.held = c.held \ {p} /\ e.pos = c.pos /\ e.paused = c.paused \ {p}
          /\ \A q \in Partitions : e.mark[q] = IF q = p THEN 0 ELSE c.mark[q]
      BY <1>2, <1>3, DroppedFacts
    <3>3. client' = [client EXCEPT ![m] = e]
      BY <2>2
    <3> HIDE DEF e
    <3>4. d = e
      BY <1>2, <3>3
    <3> QED BY <1>2, <1>3, <3>2, <3>3, <3>4
  <2> QED BY <1>1, <2>1, <2>2
<1>5. (joined[m] /\ CommitMarked(m)) \/ committed' = committed
  BY <1>1
<1>6. /\ owner' \in [Partitions -> Members \cup {0}]
      /\ \A q \in Partitions : owner'[q] = IF q = p /\ owner[q] = m THEN 0 ELSE owner[q]
  BY <1>1, <1>2, <1>3
<1>7. /\ callback' \in [Members -> Callbacks] /\ callback'[m] = NoCallback
      /\ \A n \in Members : n # m => callback'[n] = callback[n]
  BY <1>1, <1>2, Fresh
<1>o. /\ orphan' \in [WorkerIds -> Partitions \cup {0}]
      /\ \A i \in WorkerIds : orphan'[i] = orphan[i] \/ (orphan[i] = 0 /\ worker[i].member = m)
      /\ \A q \in Partitions : Left(orphan, q) => Left(orphan', q)
  BY <1>1, <1>3, OrphanedFacts
<1>8. TypeOK' /\ CommittedDone'
  <2>1. TypeOK'
    BY <1>1, <1>4, <1>5, <1>6, <1>7, <1>o, CommitFacts DEF IInv, TypeOK
  <2> QED BY <1>1, <1>5, <2>1, CommitFacts, DoneSame DEF CommittedDone
<1>h. /\ MapOK(m, c, s, ws, made, worker) /\ CallbackOK(m, c, f, cb, ws, made, worker)
      /\ ActiveOK(m, s, cb, ws, made, worker) /\ FrontOK(c, f, ws, worker, Done)
      /\ MarkOK(c, Done) /\ OwnerOK(m, owner, joined[m], c, f, cb, s)
      /\ LateOK(m, c, made, worker, orphan)
  BY Here
<1> HIDE DEF c, cb, p, d, f, s, ws
\* The worker of the callback has been told.
<1>9. \A i \in 1..made : Active(worker[i]) /\ worker[i].member = m => cb.worker # i
  BY <1>1, <1>h DEF CallbackOK, Active
<1>10. AdvanceOK(m, joined[m], committed', d, f, ws, made, worker, orphan')
  <2>1. AdvanceOK(m, joined[m], committed', d, f, ws, made, worker, orphan)
    BY <1>2, <1>4, <1>5, CommitFacts, MarksHere, AdvanceMarks DEF c, f, ws
  <2> QED BY <1>o, <2>1, MarksHere, AdvanceMore
<1>11. MapOK(m, d, s, ws, made, worker)
  BY <1>3, <1>4, <1>h DEF MapOK
<1>12. CallbackOK(m, d, f, NoCallback, ws, made, worker) /\ FetchOK(d, f, s, ws, worker)
  BY <1>3, Fresh DEF CallbackOK, FetchOK
<1>13. ActiveOK(m, s, NoCallback, ws, made, worker)
  BY <1>9, <1>h DEF ActiveOK
<1>14. FrontOK(d, f, ws, worker, Done)
  BY <1>3, <1>4, <1>h DEF FrontOK, Front
<1>15. MarkOK(d, Done)
  BY <1>4, <1>h DEF MarkOK
<1>16. OwnerOK(m, owner', joined[m], d, f, NoCallback, s)
  <2>1. s # "gone"
    BY <1>3, <1>h DEF OwnerOK
  <2>2. m # 0
    BY Constants
  <2> QED BY <1>3, <1>4, <1>6, <1>h, <2>1, <2>2, Fresh DEF OwnerOK
<1>17. LateOK(m, d, made, worker, orphan')
  BY <1>1, <1>3, <1>4, <1>9, OrphanedFacts DEF c, cb
<1>18. MemberOK(m, owner', committed', joined'[m], client'[m], fetch'[m], callback'[m],
                session'[m], workers'[m], made, worker, Done, orphan')
  BY <1>1, <1>7, <1>10, <1>11, <1>12, <1>13, <1>14, <1>15, <1>16, <1>17 DEF MemberOK, d, f, s, ws
<1>19. \A q \in Partitions : \A n \in Members : n # m => (owner'[q] = n <=> owner[q] = n)
  BY <1>6, Constants
<1>20. \A q \in Partitions : committed'[q] = committed[q] \/ Left(orphan', q) \/ owner[q] = m
  BY <1>5, <1>o, CommitFacts
<1> QED BY <1>1, <1>4, <1>7, <1>8, <1>o, <1>18, <1>19, <1>20, MemberInv

\* CloseAllowingRebalance.
LEMMA LeaveInv == ASSUME IInv, NEW m \in Members, Leave(m) PROVE IInv'
<1>1. /\ session[m] = "leaving" /\ callback[m] = NoCallback
      /\ session' = [session EXCEPT ![m] = "gone"]
      /\ client' = [client EXCEPT ![m] = NoClient]
      /\ (joined[m] /\ CommitMarked(m)) \/ committed' = committed
      /\ Removed(m)
      /\ UNCHANGED <<fetch, callback, sub, workers, moves>>
      /\ UNCHANGED <<end, worker, slots, settled, start, orphan, made>>
  BY DEF Leave, Commit, history
<1>2. /\ client \in [Members -> Clients]
      /\ session \in [Members -> {"run", "shutdown", "closed", "leaving", "gone"}]
  BY DEF IInv, TypeOK
<1>3. /\ client' \in [Members -> Clients] /\ client'[m] = NoClient
      /\ session' \in [Members -> {"run", "shutdown", "closed", "leaving", "gone"}] /\ session'[m] = "gone"
      /\ \A n \in Members : n # m => client'[n] = client[n] /\ session'[n] = session[n]
  BY <1>1, <1>2, Fresh
<1>4. TypeOK' /\ CommittedDone'
  BY <1>1, <1>3, RemovedFacts, CommitFacts, DoneSame DEF IInv, TypeOK, CommittedDone
<1>5. /\ \A p \in Partitions : workers[m][p] = 0
      /\ fetch[m] = <<>>
  BY <1>1, Here DEF MapOK, OwnerOK
<1>6. \A i \in 1..made : ~(Active(worker[i]) /\ worker[i].member = m)
  <2>1. \A i \in 1..made : Active(worker[i]) /\ worker[i].member = m => callback[m].worker = i
    BY <1>1, Here DEF ActiveOK
  <2>2. callback[m].worker = 0
    BY <1>1, Fresh
  <2> QED BY <2>1, <2>2
<1>7. /\ MapOK(m, NoClient, "gone", workers[m], made, worker)
      /\ CallbackOK(m, NoClient, fetch[m], NoCallback, workers[m], made, worker)
      /\ ActiveOK(m, "gone", NoCallback, workers[m], made, worker)
      /\ FetchOK(NoClient, fetch[m], "gone", workers[m], worker)
      /\ FrontOK(NoClient, fetch[m], workers[m], worker, Done)
  BY <1>5, <1>6, Fresh DEF MapOK, CallbackOK, ActiveOK, FetchOK, FrontOK
<1>8. MarkOK(NoClient, Done)
  BY Fresh DEF MarkOK
<1>9. OwnerOK(m, owner', joined'[m], NoClient, fetch[m], NoCallback, "gone")
  BY <1>1, <1>5, RemovedFacts, Fresh DEF OwnerOK
<1>10. /\ LateOK(m, NoClient, made, worker, orphan)
       /\ AdvanceOK(m, joined'[m], committed', NoClient, fetch[m], workers[m], made, worker, orphan)
  BY <1>1, <1>6, RemovedFacts, Fresh DEF LateOK, AdvanceOK
<1>11. MemberOK(m, owner', committed', joined'[m], client'[m], fetch'[m], callback'[m],
                session'[m], workers'[m], made, worker, Done, orphan')
  BY <1>1, <1>3, <1>7, <1>8, <1>9, <1>10 DEF MemberOK
<1> QED BY <1>1, <1>3, <1>4, <1>11, RemovedFacts, CommitFacts, MemberInv

\* shutdown has waited for all workers, and commits.
LEMMA ShutdownEndsInv == ASSUME IInv, NEW m \in Members, ShutdownEnds(m) PROVE IInv'
<1> DEFINE c == client[m]
           cb == callback[m]
           d == client'[m]
           f == fetch[m]
           ws == workers[m]
           s == session[m]
<1>1. /\ s \in {"shutdown", "closed"} /\ \A i \in ShutdownWorkers(m) : Ended(i)
      /\ session' = [session EXCEPT ![m] = "leaving"]
      /\ worker' = [i \in WorkerIds |-> IF i \in ShutdownWorkers(m)
                                        THEN RevokedWorker(worker[i]) ELSE worker[i]]
      /\ \/ client' = [client EXCEPT ![m] = Unmarked(c)]
         \/ client' = [client EXCEPT ![m] = c]
      /\ (joined[m] /\ CommitMarked(m)) \/ committed' = committed
      /\ UNCHANGED <<owner, joined, fetch, callback, sub, workers, moves>>
      /\ UNCHANGED <<end, slots, settled, start, orphan, made>>
  BY DEF ShutdownEnds, Commit, history
<1>2. /\ c \in Clients /\ client \in [Members -> Clients] /\ made \in 0..MaxWorkers
      /\ worker \in [WorkerIds -> Jobs]
      /\ session \in [Members -> {"run", "shutdown", "closed", "leaving", "gone"}]
  BY DEF IInv, TypeOK
<1>3. \A i \in ShutdownWorkers(m) : worker[i].pc = "done" /\ RevokedWorker(worker[i]) = worker[i]
  <2>1. \A i \in ShutdownWorkers(m) : i # 0
    BY <1>2 DEF ShutdownWorkers
  <2> QED BY <1>1, <2>1 DEF Ended, RevokedWorker
<1>4. worker' = worker
  BY <1>1, <1>2, <1>3
<1>5. /\ d \in Clients /\ d.held = c.held /\ d.pos = c.pos /\ d.paused = c.paused
      /\ \A p \in Partitions : d.mark[p] \in {0, c.mark[p]}
      /\ client' \in [Members -> Clients] /\ \A n \in Members : n # m => client'[n] = client[n]
  <2>1. CASE client' = [client EXCEPT ![m] = Unmarked(c)]
    <3> DEFINE e == Unmarked(c)
    <3>1. /\ e \in Clients /\ e.held = c.held /\ e.pos = c.pos /\ e.paused = c.paused
          /\ \A p \in Partitions : e.mark[p] = 0
      BY <1>2, UnmarkedFacts
    <3>2. client' = [client EXCEPT ![m] = e]
      BY <2>1
    <3> HIDE DEF e
    <3> QED BY <1>2, <3>1, <3>2
  <2>2. CASE client' = [client EXCEPT ![m] = c]
    BY <1>2, <2>2
  <2> QED BY <1>1, <2>1, <2>2
<1>6. /\ session' \in [Members -> {"run", "shutdown", "closed", "leaving", "gone"}]
      /\ session'[m] = "leaving" /\ \A n \in Members : n # m => session'[n] = session[n]
  BY <1>1, <1>2
<1>7. TypeOK' /\ CommittedDone'
  BY <1>1, <1>4, <1>5, <1>6, CommitFacts, DoneSame DEF IInv, TypeOK, CommittedDone
<1>h. /\ MapOK(m, c, s, ws, made, worker) /\ CallbackOK(m, c, f, cb, ws, made, worker)
      /\ MarkOK(c, Done) /\ OwnerOK(m, owner, joined[m], c, f, cb, s)
      /\ LateOK(m, c, made, worker, orphan)
  BY <1>1, Here
<1>8. AdvanceOK(m, joined[m], committed', d, f, ws, made, worker, orphan)
  BY <1>1, <1>2, <1>5, CommitFacts, MarksHere, AdvanceMarks
<1>9. \A i \in 1..made : Active(worker[i]) /\ worker[i].member = m => cb.worker = i
  BY <1>3 DEF ShutdownWorkers, Active, Alive
<1> HIDE DEF c, cb, d, f, ws, s
<1>10. \A p \in Partitions : ws[p] = 0
  BY <1>1, <1>h DEF MapOK
<1>11. /\ MapOK(m, d, "leaving", ws, made, worker) /\ FrontOK(d, f, ws, worker, Done)
       /\ CallbackOK(m, d, f, cb, ws, made, worker)
  BY <1>5, <1>10, <1>h DEF MapOK, FrontOK, CallbackOK
<1>12. ActiveOK(m, "leaving", cb, ws, made, worker)
  BY <1>9 DEF ActiveOK
<1>13. OwnerOK(m, owner, joined[m], d, f, cb, "leaving") /\ FetchOK(d, f, "leaving", ws, worker)
  BY <1>1, <1>5, <1>h DEF OwnerOK, FetchOK
<1>14. MarkOK(d, Done)
  BY <1>5, <1>h DEF MarkOK
<1>15. LateOK(m, d, made, worker, orphan)
  BY <1>5, <1>h DEF LateOK
<1>16. MemberOK(m, owner', committed', joined'[m], client'[m], fetch'[m], callback'[m],
                session'[m], workers'[m], made, worker, Done, orphan')
  BY <1>1, <1>6, <1>8, <1>11, <1>12, <1>13, <1>14, <1>15 DEF MemberOK, cb, d, f, ws
<1> QED BY <1>1, <1>4, <1>5, <1>6, <1>7, <1>16, CommitFacts, MemberInv

\* A client's positions are numbers.
LEMMA PosType ==
    ASSUME NEW c \in Clients, NEW p \in Partitions PROVE c.pos[p] \in Positions /\ c.pos[p] \in Nat
<1>1. c.pos[p] \in Positions
  BY DEF Clients
<1> QED BY <1>1, Constants

\* What a poll of n records from partition p returns, and leaves.
Polled(c, p, n) == [k \in 1..n |-> Record(p, c.pos[p] + k - 1)]
Advanced(c, p, n) == [c EXCEPT !.pos[p] = @ + n]

LEMMA PollFacts ==
    ASSUME NEW c \in Clients, NEW p \in Partitions, NEW n \in Int, n > 0, n <= BatchSize,
           c.pos[p] + n <= LastOffset + 1
    PROVE  LET f == Polled(c, p, n)
               d == Advanced(c, p, n) IN
           /\ f \in Seq([part : Partitions, offset : Offsets]) /\ f # <<>> /\ Len(f) = n
           /\ c.pos[p] \in Offsets /\ \A k \in 1..Len(f) : f[k] = Record(p, c.pos[p] + k - 1)
           /\ d \in Clients /\ d.held = c.held /\ d.mark = c.mark /\ d.paused = c.paused
           /\ d.pos[p] = c.pos[p] + Len(f)
           /\ \A q \in Partitions : Front(d, f, q) = c.pos[q]
<1> DEFINE from == c.pos[p]
           Rec == [part : Partitions, offset : Offsets]
           f == Polled(c, p, n)
           d == Advanced(c, p, n)
<1>1. from \in Nat /\ n \in Nat /\ LastOffset \in Nat
  BY PosType, Constants
<1>a. from + n <= LastOffset + 1
  OBVIOUS
<1>2. from \in Offsets /\ from + n \in Positions
  <2> HIDE DEF from
  <2> QED BY <1>1, <1>a DEF Offsets, Positions
<1>3. \A k \in 1..n : from + k - 1 \in Offsets
  <2> HIDE DEF from
  <2> QED BY <1>1, <1>a DEF Offsets
<1>4. f \in [1..n -> Rec]
  <2>1. \A k \in 1..n : Record(p, from + k - 1) \in Rec
    BY <1>3 DEF Record
  <2> QED BY <2>1 DEF Polled
<1>5. f \in Seq(Rec) /\ Len(f) = n
  BY <1>1, <1>4, SeqOf
<1>6. f # <<>>
  BY <1>1, <1>5, EmptySeq
<1>7. /\ d \in Clients /\ d.held = c.held /\ d.mark = c.mark /\ d.paused = c.paused
      /\ \A q \in Partitions : d.pos[q] = IF q = p THEN from + n ELSE c.pos[q]
  BY <1>2 DEF Clients, Advanced
<1>8. \A k \in 1..n : f[k] = Record(p, from + k - 1)
  BY DEF Polled
<1>9. f[1].part = p /\ f[1].offset = from
  <2>1. f[1] = Record(p, from + 1 - 1) /\ from + 1 - 1 = from
    BY <1>1, <1>8
  <2> QED BY <2>1 DEF Record
<1> HIDE DEF f, d
<1>10. \A q \in Partitions : Front(d, f, q) = c.pos[q]
  BY <1>6, <1>7, <1>9 DEF Front
<1> QED BY <1>2, <1>5, <1>6, <1>7, <1>8, <1>10 DEF f, d

\* PollRecords.
LEMMA PollInv == ASSUME IInv, NEW m \in Members, Poll(m) PROVE IInv'
<1> DEFINE c == client[m]
           cb == callback[m]
           ws == workers[m]
           d == client'[m]
           f == fetch'[m]
<1>1. /\ session[m] = "run" /\ cb = NoCallback /\ fetch[m] = <<>>
      /\ UNCHANGED <<owner, committed, joined, callback, session, sub, workers, moves>>
      /\ UNCHANGED <<end, worker, slots, settled, start, orphan, made>>
  BY DEF Poll, broker, history, NoFetch
<1>2. /\ c \in Clients /\ client \in [Members -> Clients] /\ made \in 0..MaxWorkers
      /\ fetch \in [Members -> Seq([part : Partitions, offset : Offsets])]
  BY DEF IInv, TypeOK
<1>3. PICK p \in c.held \ c.paused :
        LET n == Min({BatchSize, end[p] - c.pos[p]}) IN
        /\ n > 0
        /\ fetch' = [fetch EXCEPT ![m] = [k \in 1..n |-> Record(p, c.pos[p] + k - 1)]]
        /\ client' = [client EXCEPT ![m].pos[p] = @ + n]
  BY DEF Poll
<1> DEFINE n == Min({BatchSize, end[p] - c.pos[p]})
           g == Polled(c, p, n)
           e == Advanced(c, p, n)
<1>4. p \in Partitions /\ p \in c.held /\ p \notin c.paused
  BY <1>2, <1>3 DEF Clients
<1>5. n \in Int /\ n > 0 /\ n <= BatchSize /\ c.pos[p] + n <= LastOffset + 1
  <2>0. end[p] \in Positions /\ end[p] \in Nat /\ end[p] <= LastOffset + 1
    <3>1. end[p] \in Positions
      BY <1>4 DEF IInv, TypeOK
    <3> QED BY <3>1, Constants DEF Positions
  <2>1. c.pos[p] \in Nat
    BY <1>2, <1>4, PosType
  <2>2. BatchSize \in Int /\ end[p] - c.pos[p] \in Int
    BY <2>0, <2>1, Constants
  <2>3. n \in {BatchSize, end[p] - c.pos[p]} /\ n <= BatchSize
        /\ n <= end[p] - c.pos[p]
    BY <2>2, MinTwo
  <2>4. n > 0
    BY <1>3
  <2> HIDE DEF n, c
  <2> QED BY <2>0, <2>1, <2>2, <2>3, <2>4, Constants
<1>6. fetch' = [fetch EXCEPT ![m] = g] /\ client' = [client EXCEPT ![m] = e]
  BY <1>3 DEF Polled, Advanced
<1> HIDE DEF n, c
<1>7. /\ g \in Seq([part : Partitions, offset : Offsets]) /\ g # <<>> /\ Len(g) = n
      /\ c.pos[p] \in Offsets /\ \A k \in 1..Len(g) : g[k] = Record(p, c.pos[p] + k - 1)
      /\ e \in Clients /\ e.held = c.held /\ e.mark = c.mark /\ e.paused = c.paused
      /\ e.pos[p] = c.pos[p] + Len(g)
      /\ \A q \in Partitions : Front(e, g, q) = c.pos[q]
  BY <1>2, <1>4, <1>5, PollFacts
<1> HIDE DEF g, e
<1>8. /\ f = g /\ d = e
      /\ fetch' \in [Members -> Seq([part : Partitions, offset : Offsets])]
      /\ client' \in [Members -> Clients]
      /\ \A k \in Members : k # m => fetch'[k] = fetch[k] /\ client'[k] = client[k]
  BY <1>2, <1>6, <1>7
<1>9. TypeOK'
  BY <1>1, <1>8 DEF IInv, TypeOK
<1>h. /\ MapOK(m, c, "run", ws, made, worker) /\ ActiveOK(m, "run", cb, ws, made, worker)
      /\ FrontOK(c, <<>>, ws, worker, Done)
      /\ MarkOK(c, Done) /\ OwnerOK(m, owner, joined[m], c, <<>>, cb, "run")
      /\ LateOK(m, c, made, worker, orphan)
      /\ AdvanceOK(m, joined[m], committed, c, <<>>, ws, made, worker, orphan)
  BY <1>1, Here DEF c
<1> HIDE DEF cb, ws, d, f
<1>10. \A q \in Partitions : Front(e, g, q) = Front(c, <<>>, q)
  BY <1>7 DEF Front
<1>11. MapOK(m, e, "run", ws, made, worker) /\ MarkOK(e, Done)
  BY <1>7, <1>h DEF MapOK, MarkOK
<1>12. CallbackOK(m, e, g, cb, ws, made, worker)
  BY <1>1, Fresh DEF CallbackOK
<1>13. FrontOK(e, g, ws, worker, Done)
  BY <1>7, <1>10, <1>h DEF FrontOK
<1>14. FetchOK(e, g, "run", ws, worker)
  <2>1. ws[p] # 0 /\ Alive(worker[ws[p]]) => ~worker[ws[p]].paused
    BY <1>4, <1>h DEF FrontOK
  <2>2. p \in e.held /\ Len(g) <= BatchSize
    BY <1>4, <1>5, <1>7
  <2> QED BY <1>4, <1>7, <2>1, <2>2 DEF FetchOK
<1>15. /\ OwnerOK(m, owner, joined[m], e, g, cb, "run")
       /\ LateOK(m, e, made, worker, orphan)
  BY <1>7, <1>h DEF OwnerOK, LateOK
<1>16. AdvanceOK(m, joined[m], committed, e, g, ws, made, worker, orphan)
  BY <1>7, <1>10, <1>h DEF AdvanceOK
<1>17. MemberOK(m, owner', committed', joined'[m], client'[m], fetch'[m], callback'[m],
                session'[m], workers'[m], made, worker, Done, orphan')
  BY <1>1, <1>8, <1>11, <1>12, <1>13, <1>14, <1>15, <1>16, <1>h DEF MemberOK, cb, d, f, ws
<1> QED BY <1>1, <1>8, <1>9, <1>17, CommittedKept, MemberInv

\* Arithmetic of a queue of l records to which n are added, those from o on.
LEMMA After ==
    ASSUME NEW a \in Int, NEW o \in Int, NEW k \in Int, NEW l \in Int, a < o, ~(k <= l)
    PROVE  a < o + (k - l) - 1
OBVIOUS

LEMMA Between ==
    ASSUME NEW y \in Int, NEW x \in Int, NEW o \in Int, NEW n \in Int,
           0 <= y, y <= x - 1, x <= o + n - 1
    PROVE  y \in 0..(o - 1) \/ y \in o..(o + n - 1)
OBVIOUS

LEMMA Behind ==
    ASSUME NEW o \in Int, NEW l \in Int, NEW n \in Int, NEW x \in Int,
           l >= 0, o <= x, x <= o + n - 1
    PROVE  LET k == l + (x - o) + 1 IN
           k \in 1..(l + n) /\ ~(k <= l) /\ o + (k - l) - 1 = x
OBVIOUS

\* enqueue: records that follow all that has been dispatched join the worker's.
LEMMA QueuedFacts ==
    ASSUME NEW w \in Jobs, NEW done, Alive(w), ~w.revoked, ~w.paused, WorkerOK(w, done),
           NEW f \in Seq([part : Partitions, offset : Offsets]), f # <<>>, Len(f) <= BatchSize,
           NEW o \in Offsets, \A k \in 1..Len(f) : f[k] = Record(w.part, o + k - 1),
           \A x \in Pend(w) : x < o,
           \A x \in 0..(o - 1) : Record(w.part, x) \in done \/ x \in Pend(w)
    PROVE  LET v == Queued(w, f) IN
           /\ v \in Jobs /\ v.pc = w.pc /\ v.member = w.member /\ v.part = w.part
           /\ v.revoked = w.revoked /\ v.cancelled = w.cancelled
           /\ Pend(w) \subseteq Pend(v)
           /\ \A x \in Pend(v) : x \in Pend(w) \/ x \in o..(o + Len(f) - 1)
           /\ \A x \in o..(o + Len(f) - 1) : x \in Pend(v)
           /\ WorkerOK(v, done)
<1> DEFINE a == [k \in DOMAIN f |-> f[k].offset]
           q == w.queue
           n == Len(f)
           l == Len(q)
           r == q \o a
           v == Queued(w, f)
<1>1. n \in Nat /\ n >= 1 /\ DOMAIN f = 1..n /\ n <= BatchSize
  BY FetchType
<1>2. o \in Nat /\ q \in Seq(Offsets) /\ l \in Nat
  BY Constants, LenProperties DEF Jobs
<1>3. a \in [1..n -> Offsets] /\ \A k \in 1..n : a[k] = o + k - 1
  <2>1. \A k \in 1..n : f[k] \in [part : Partitions, offset : Offsets]
    BY ElementOfSeq
  <2>2. ASSUME NEW k \in 1..n PROVE f[k].offset \in Offsets /\ f[k].offset = o + k - 1
    <3>1. f[k] = Record(w.part, o + k - 1)
      OBVIOUS
    <3> QED BY <2>1, <3>1 DEF Record
  <2> QED BY <1>1, <2>1, <2>2
<1>4. a \in Seq(Offsets) /\ Len(a) = n
  BY <1>1, <1>3, SeqOf
<1> HIDE DEF a
<1>5. /\ r \in Seq(Offsets) /\ Len(r) = l + n
      /\ \A k \in 1..(l + n) : r[k] = IF k <= l THEN q[k] ELSE a[k - l]
  <2>1. /\ r \in Seq(Offsets) /\ Len(r) = Len(q) + Len(a)
        /\ \A k \in 1..(Len(q) + Len(a)) : r[k] = IF k <= Len(q) THEN q[k] ELSE a[k - Len(q)]
    <3>1. q \in Seq(Offsets) /\ a \in Seq(Offsets)
      BY <1>2, <1>4
    <3> HIDE DEF q
    <3> QED BY <3>1, ConcatProperties
  <2> HIDE DEF q, r
  <2> QED BY <1>4, <2>1
<1>6. \A k \in 1..(l + n) : IF k <= l THEN r[k] = q[k] ELSE r[k] = o + (k - l) - 1
  <2> SUFFICES ASSUME NEW k \in 1..(l + n), ~(k <= l) PROVE r[k] = o + (k - l) - 1
    BY <1>5
  <2>1. k - l \in 1..n
    BY <1>1, <1>2
  <2> QED BY <1>3, <1>5, <2>1
<1>7. /\ v \in Jobs /\ v.pc = w.pc /\ v.member = w.member /\ v.part = w.part
      /\ v.revoked = w.revoked /\ v.cancelled = w.cancelled /\ v.offset = w.offset
      /\ v.attempt = w.attempt /\ v.queue = r /\ (v.paused <=> l + n >= 2 * BatchSize)
  <2>1. (w.paused \/ Len(r) >= 2 * BatchSize) \in BOOLEAN
    OBVIOUS
  <2>2. v = [w EXCEPT !.queue = r, !.paused = @ \/ Len(r) >= 2 * BatchSize]
    BY DEF Queued, a
  <2> HIDE DEF r, v, l, n
  <2> QED BY <1>5, <2>1, <2>2 DEF Jobs
<1>8. (HasRecord(v) <=> HasRecord(w)) /\ Alive(v)
  BY <1>7 DEF HasRecord, Alive
<1>w. /\ \A j, k \in 1..l : j < k => q[j] < q[k]
      /\ HasRecord(w) => \A k \in 1..l : w.offset < q[k]
      /\ \A x \in Pend(w) : \A y \in 0..(x - 1) : Record(w.part, y) \in done \/ y \in Pend(w)
      /\ w.member \in Members /\ w.part \in Partitions
      /\ w.pc = "complete" => Record(w.part, w.offset) \in done
      /\ w.pc = "backoff" => w.attempt < MaxRetries
      /\ l < 2 * BatchSize
  BY DEF WorkerOK
<1>p. /\ Pend(w) \subseteq Nat /\ \A k \in 1..l : q[k] \in Pend(w)
      /\ HasRecord(w) => w.offset \in Pend(w)
      /\ \A x \in Pend(w) : (\E k \in 1..l : x = q[k]) \/ (HasRecord(w) /\ x = w.offset)
  BY PendType, Constants
<1>v. /\ \A k \in 1..(l + n) : r[k] \in Pend(v)
      /\ HasRecord(v) => w.offset \in Pend(v)
      /\ \A x \in Pend(v) : (\E k \in 1..(l + n) : x = r[k]) \/ (HasRecord(v) /\ x = w.offset)
  <2> HIDE DEF l, n, r, v
  <2>1. v \in Jobs /\ Len(v.queue) = l + n
    BY <1>5, <1>7
  <2> QED BY <1>7, <2>1, PendType
<1> HIDE DEF q, n, l, r, v
<1>9. ASSUME NEW x \in Pend(w) PROVE x \in Pend(v)
  <2>1. CASE HasRecord(w) /\ x = w.offset
    BY <1>8, <1>v, <2>1
  <2>2. ASSUME NEW k \in 1..l, x = q[k] PROVE x \in Pend(v)
    <3>1. k \in 1..(l + n) /\ r[k] = q[k]
      BY <1>1, <1>2, <1>6
    <3> QED BY <1>v, <2>2, <3>1
  <2> QED BY <1>p, <2>1, <2>2
<1>10. ASSUME NEW x \in Pend(v) PROVE x \in Pend(w) \/ x \in o..(o + n - 1)
  <2>1. CASE HasRecord(v) /\ x = w.offset
    BY <1>8, <1>p, <2>1
  <2>2. ASSUME NEW k \in 1..(l + n), x = r[k] PROVE x \in Pend(w) \/ x \in o..(o + n - 1)
    <3>1. CASE k <= l
      <4>1. k \in 1..l /\ r[k] = q[k]
        BY <1>2, <1>6, <3>1
      <4> QED BY <1>p, <2>2, <4>1
    <3>2. CASE ~(k <= l)
      <4>1. x = o + (k - l) - 1
        BY <1>6, <2>2, <3>2
      <4>2. k \in Int /\ l \in Int /\ o \in Int /\ k <= l + n /\ n \in Int
        BY <1>1, <1>2
      <4>3. x \in o..(o + n - 1)
        BY <3>2, <4>1, <4>2
      <4> QED BY <4>3
    <3> QED BY <3>1, <3>2
  <2> QED BY <1>v, <2>1, <2>2
<1>11. ASSUME NEW x \in o..(o + n - 1) PROVE x \in Pend(v)
  <2> DEFINE k == l + (x - o) + 1
  <2>1. k \in 1..(l + n) /\ ~(k <= l) /\ o + (k - l) - 1 = x
    <3>1. o \in Nat /\ l \in Nat /\ n \in Nat /\ x \in Int /\ o <= x /\ x <= o + n - 1
      BY <1>1, <1>2
    <3> QED BY <3>1, Behind
  <2>2. r[k] = x
    BY <1>6, <2>1
  <2> QED BY <1>v, <2>1, <2>2
<1>12. ASSUME NEW j \in 1..(l + n), NEW k \in 1..(l + n), j < k PROVE r[j] < r[k]
  <2>1. CASE k <= l
    <3>1. j \in 1..l /\ k \in 1..l /\ j <= l
      <4>1. j \in Int /\ k \in Int /\ l \in Int /\ 1 <= j /\ 1 <= k
        BY <1>2
      <4> QED BY <1>12, <2>1, <4>1
    <3>2. r[j] = q[j] /\ r[k] = q[k]
      BY <1>6, <2>1, <3>1
    <3> QED BY <1>12, <1>w, <3>1, <3>2
  <2>2. CASE j <= l /\ ~(k <= l)
    <3>1. r[j] = q[j] /\ r[k] = o + (k - l) - 1 /\ j \in 1..l
      BY <1>1, <1>2, <1>6, <2>2
    <3>2. q[j] < o /\ q[j] \in Int
      BY <1>p, <3>1
    <3>3. o \in Int /\ k \in Int /\ l \in Int
      BY <1>1, <1>2
    <3>4. q[j] < o + (k - l) - 1
      BY <2>2, <3>2, <3>3, After
    <3> QED BY <3>1, <3>4
  <2>3. CASE ~(j <= l)
    <3>1. ~(k <= l)
      BY <1>1, <1>2, <1>12, <2>3
    <3>2. r[j] = o + (j - l) - 1 /\ r[k] = o + (k - l) - 1
      BY <1>6, <2>3, <3>1
    <3> QED BY <1>1, <1>2, <1>12, <3>2
  <2> QED BY <2>1, <2>2, <2>3
<1>13. ASSUME HasRecord(v), NEW k \in 1..(l + n) PROVE w.offset < r[k]
  <2>1. HasRecord(w) /\ w.offset \in Pend(w) /\ w.offset \in Nat /\ w.offset < o
    BY <1>8, <1>13, <1>p
  <2>2. CASE k <= l
    BY <1>2, <1>6, <1>w, <2>1, <2>2
  <2>3. CASE ~(k <= l)
    <3>1. r[k] = o + (k - l) - 1
      BY <1>6, <2>3
    <3>2. k \in Int /\ l \in Int /\ o \in Int /\ w.offset \in Int
      BY <1>1, <1>2, <2>1
    <3>3. w.offset < o + (k - l) - 1
      BY <2>1, <2>3, <3>2, After
    <3> QED BY <3>1, <3>3
  <2> QED BY <2>2, <2>3
<1>14. ASSUME NEW x \in Pend(v), NEW y \in 0..(x - 1)
       PROVE  Record(w.part, y) \in done \/ y \in Pend(v)
  <2>1. x \in Nat
    BY <1>2, <1>10, <1>p
  <2>2. CASE x \in Pend(w)
    BY <1>9, <1>w, <2>2
  <2>3. CASE x \in o..(o + n - 1)
    <3>1. y \in 0..(o - 1) \/ y \in o..(o + n - 1)
      <4>1. y \in Int /\ x \in Int /\ o \in Int /\ n \in Int
        BY <1>1, <1>2, <2>1
      <4>2. 0 <= y /\ y <= x - 1 /\ x <= o + n - 1
        BY <2>1, <2>3, <4>1
      <4> QED BY <4>1, <4>2, Between
    <3> QED BY <1>9, <1>11, <3>1
  <2> QED BY <1>10, <2>2, <2>3
<1>15. Len(v.queue) < 3 * BatchSize /\ (~v.paused => Len(v.queue) < 2 * BatchSize)
  <2>1. BatchSize \in Nat /\ Len(v.queue) = l + n
    BY <1>5, <1>7, Constants
  <2> QED BY <1>1, <1>2, <1>7, <1>w, <2>1
<1>16. WorkerOK(v, done)
  <2>1. v.member \in Members /\ v.part \in Partitions
    BY <1>7, <1>w
  <2>2. \A j, k \in 1..Len(v.queue) : j < k => v.queue[j] < v.queue[k]
    BY <1>5, <1>7, <1>12
  <2>3. HasRecord(v) => \A k \in 1..Len(v.queue) : v.offset < v.queue[k]
    BY <1>5, <1>7, <1>13
  <2>4. \A x \in Pend(v) : \A y \in 0..(x - 1) : Record(v.part, y) \in done \/ y \in Pend(v)
    BY <1>7, <1>14
  <2>5. /\ v.pc = "complete" => Record(v.part, v.offset) \in done
        /\ v.pc = "backoff" => v.attempt < MaxRetries
        /\ ~v.revoked
    BY <1>7, <1>w
  <2> QED BY <1>8, <1>15, <2>1, <2>2, <2>3, <2>4, <2>5 DEF WorkerOK
<1> QED BY <1>7, <1>9, <1>10, <1>11, <1>16 DEF v, n

\* dispatch.
LEMMA DispatchInv == ASSUME IInv, NEW m \in Members, Dispatch(m) PROVE IInv'
<1> DEFINE c == client[m]
           f == fetch[m]
           cb == callback[m]
           ws == workers[m]
           d == client'[m]
           n == Len(f)
           To == {k \in {ws[f[1].part]} \ {0} : ~worker[k].revoked /\ ~Ended(k)}
           X == {f[1].part : k \in {j \in To : worker'[j].paused}}
<1>1. /\ session[m] = "run" /\ f # <<>> /\ fetch' = [fetch EXCEPT ![m] = <<>>]
      /\ worker' = [k \in WorkerIds |-> IF k \in To THEN Queued(worker[k], f) ELSE worker[k]]
      /\ client' = [client EXCEPT ![m].paused = @ \cup X]
      /\ UNCHANGED <<owner, committed, joined, callback, session, sub, workers, moves>>
      /\ UNCHANGED <<end, slots, settled, start, orphan, made>> /\ Done' = Done
  BY DoneSame DEF Dispatch, broker, history, NoFetch
<1>2. /\ c \in Clients /\ client \in [Members -> Clients] /\ made \in 0..MaxWorkers
      /\ worker \in [WorkerIds -> Jobs] /\ 1..made \subseteq WorkerIds
      /\ f \in Seq([part : Partitions, offset : Offsets])
      /\ fetch \in [Members -> Seq([part : Partitions, offset : Offsets])]
  <2>1. /\ client \in [Members -> Clients] /\ worker \in [WorkerIds -> Jobs]
        /\ fetch \in [Members -> Seq([part : Partitions, offset : Offsets])]
    BY DEF IInv, TypeOK
  <2>2. made \in 0..MaxWorkers /\ 1..made \subseteq WorkerIds
    BY MadeIds
  <2> QED BY <2>1, <2>2
<1>h. /\ MapOK(m, c, "run", ws, made, worker) /\ CallbackOK(m, c, f, cb, ws, made, worker)
      /\ ActiveOK(m, "run", cb, ws, made, worker) /\ FetchOK(c, f, "run", ws, worker)
      /\ FrontOK(c, f, ws, worker, Done)
      /\ MarkOK(c, Done) /\ OwnerOK(m, owner, joined[m], c, f, cb, "run")
      /\ LateOK(m, c, made, worker, orphan)
      /\ AdvanceOK(m, joined[m], committed, c, f, ws, made, worker, orphan)
  BY <1>1, Here
<1>3. n \in Nat /\ n >= 1 /\ 1 \in 1..n
  <2>1. n \in Nat /\ n >= 1
    BY <1>1, <1>2, FetchType DEF n
  <2> QED BY <2>1
<1> HIDE DEF c, f, cb, ws, d, n
<1>4. PICK p \in Partitions, o \in Offsets :
        /\ p \in c.held /\ c.pos[p] = o + n /\ n <= BatchSize
        /\ \A k \in 1..n : f[k] = Record(p, o + k - 1)
        /\ ws[p] # 0 /\ Alive(worker[ws[p]]) => ~worker[ws[p]].paused
  BY <1>1, <1>h DEF FetchOK, n
<1>5. o \in Nat /\ f[1].part = p /\ f[1].offset = o
  <2>1. o \in Nat /\ o + 1 - 1 = o
    BY Constants
  <2>2. f[1] = Record(p, o + 1 - 1)
    BY <1>3, <1>4
  <2> QED BY <2>1, <2>2 DEF Record
<1>6. \A q \in Partitions : Front(c, f, q) = IF q = p THEN o ELSE c.pos[q]
  BY <1>1, <1>5 DEF Front
\* The worker that gets the records.
<1>7. ASSUME NEW k \in To
      PROVE  /\ k = ws[p] /\ k # 0 /\ k \in 1..made /\ Alive(worker[k]) /\ worker[k].part = p
             /\ worker'[k] = Queued(worker[k], f) /\ WorkerOK(worker[k], Done)
             /\ ~worker[k].revoked
  <2>1. k = ws[p] /\ k # 0 /\ k \in 1..made /\ worker[k].pc # "done" /\ ~worker[k].revoked
    BY <1>5, <1>7, <1>h DEF MapOK, Ended
  <2>2. k \in WorkerIds /\ ~(k > made) /\ WorkerOK(worker[k], Done)
    BY <1>2, <2>1 DEF IInv, WorkersOK
  <2>3. Alive(worker[k])
    BY <2>1, <2>2 DEF IInv, WorkersOK, Alive
  <2>4. worker'[k] = Queued(worker[k], f)
    BY <1>1, <1>7, <2>2
  <2> QED BY <1>h, <2>1, <2>2, <2>3, <2>4 DEF MapOK
<1>8. ASSUME ws[p] # 0, Alive(worker[ws[p]]) PROVE ws[p] \in To
  <2>1. ~worker[ws[p]].revoked
    BY <1>8, <1>h DEF MapOK
  <2> QED BY <1>5, <1>8, <2>1 DEF Ended, Alive
<1>9. \A k \in WorkerIds : k \notin To => worker'[k] = worker[k]
  BY <1>1
<1>10. ASSUME NEW k \in To
       PROVE  LET w == worker[k]
                  v == worker'[k] IN
              /\ v \in Jobs /\ v.pc = w.pc /\ v.member = w.member /\ v.part = w.part
              /\ v.revoked = w.revoked /\ v.cancelled = w.cancelled
              /\ Pend(w) \subseteq Pend(v)
              /\ \A x \in Pend(v) : x \in Pend(w) \/ x \in o..(o + n - 1)
              /\ \A x \in o..(o + n - 1) : x \in Pend(v)
              /\ WorkerOK(v, Done)
  <2> DEFINE w == worker[k]
  <2>1. /\ k = ws[p] /\ k # 0 /\ Alive(w) /\ w.part = p /\ WorkerOK(w, Done) /\ ~w.revoked
        /\ worker'[k] = Queued(w, f) /\ w \in Jobs
    BY <1>2, <1>7
  <2>2. /\ ~w.paused /\ \A x \in Pend(w) : x < o
        /\ \A x \in 0..(o - 1) : Record(p, x) \in Done \/ x \in Pend(w)
    BY <1>4, <1>6, <1>h, <2>1 DEF FrontOK
  <2> HIDE DEF w
  <2>3. /\ \A j \in 1..Len(f) : f[j] = Record(w.part, o + j - 1)
        /\ \A x \in 0..(o - 1) : Record(w.part, x) \in Done \/ x \in Pend(w)
        /\ Len(f) <= BatchSize
    BY <1>4, <2>1, <2>2 DEF n
  <2> DEFINE v == Queued(w, f)
  <2>4. /\ v \in Jobs /\ v.pc = w.pc /\ v.member = w.member /\ v.part = w.part
        /\ v.revoked = w.revoked /\ v.cancelled = w.cancelled
        /\ Pend(w) \subseteq Pend(v)
        /\ \A x \in Pend(v) : x \in Pend(w) \/ x \in o..(o + Len(f) - 1)
        /\ \A x \in o..(o + Len(f) - 1) : x \in Pend(v)
        /\ WorkerOK(v, Done)
    BY <1>1, <1>2, <2>1, <2>2, <2>3, QueuedFacts
  <2>5. worker'[k] = v
    BY <2>1
  <2> HIDE DEF v
  <2> QED BY <2>4, <2>5 DEF n, w
<1> HIDE DEF To
\* Workers stay what they are, and one has more to do.
<1>11. \A k \in 1..made :
         /\ worker'[k].pc = worker[k].pc /\ worker'[k].member = worker[k].member
         /\ worker'[k].part = worker[k].part /\ worker'[k].revoked = worker[k].revoked
         /\ worker'[k].cancelled = worker[k].cancelled
         /\ k \notin To => worker'[k] = worker[k]
         /\ k \in To => k = ws[p] /\ k # 0 /\ worker[k].part = p
         /\ \A x \in Pend(worker'[k]) :
              x \in Pend(worker[k]) \/ (k \in To /\ x \in o..(o + n - 1))
  BY <1>2, <1>7, <1>9, <1>10
<1>12. \A k \in 1..made : /\ Alive(worker'[k]) <=> Alive(worker[k])
                          /\ Active(worker'[k]) <=> Active(worker[k])
  BY <1>11 DEF Alive, Active
<1>13. worker' \in [WorkerIds -> Jobs] /\ \A k \in WorkerIds : Len(worker'[k].queue) < 3 * BatchSize
  <2>1. \A k \in WorkerIds : worker'[k] \in Jobs
    BY <1>2, <1>9, <1>10
  <2>2. \A k \in WorkerIds : WorkerOK(worker'[k], Done)
    BY <1>9, <1>10 DEF IInv, WorkersOK
  <2> QED BY <1>1, <2>1, <2>2 DEF WorkerOK
<1>14. X \subseteq {p} /\ \A k \in To : worker'[k].paused => p \in X
  BY <1>5
<1> HIDE DEF X
<1>15. /\ d \in Clients /\ d.held = c.held /\ d.pos = c.pos /\ d.mark = c.mark
       /\ d.paused = c.paused \cup X /\ client' \in [Members -> Clients]
       /\ \A k \in Members : k # m => client'[k] = client[k]
  BY <1>1, <1>2, <1>14 DEF c, d, Clients
<1>16. /\ fetch' \in [Members -> Seq([part : Partitions, offset : Offsets])] /\ fetch'[m] = <<>>
       /\ \A k \in Members : k # m => fetch'[k] = fetch[k]
  <2>1. <<>> \in Seq([part : Partitions, offset : Offsets])
    BY EmptySeq
  <2> QED BY <1>1, <1>2, <2>1
<1>17. TypeOK'
  BY <1>1, <1>13, <1>15, <1>16 DEF IInv, TypeOK
<1>18. SlotsAccounted'
  BY <1>1, <1>11, SlotsKept
<1>19. \A q \in Partitions : ws[q] # 0 => ws[q] \in 1..made
  BY <1>h DEF MapOK
<1>20. MapOK(m, d, "run", ws, made, worker')
  BY <1>11, <1>12, <1>15, <1>19, <1>h DEF MapOK
<1>21. CallbackOK(m, d, <<>>, cb, ws, made, worker')
  <2>1. cb.worker # 0 => cb.worker \in 1..made
    <3>1. CASE cb.at = "none"
      BY <1>h, <3>1, Fresh DEF CallbackOK
    <3>2. CASE cb.at # "none"
      BY <1>2, <1>h, <3>2 DEF CallbackOK
    <3> QED BY <3>1, <3>2
  <2> QED BY <1>11, <1>12, <1>15, <1>h, <2>1 DEF CallbackOK
<1>22. ActiveOK(m, "run", cb, ws, made, worker')
  BY <1>11, <1>12, <1>h DEF ActiveOK
<1>23. \A q \in Partitions : Front(d, <<>>, q) = IF q = p THEN o + n ELSE Front(c, f, q)
  BY <1>4, <1>6, <1>15 DEF Front
<1>24. ASSUME NEW q \in Partitions, ws[q] # 0, Alive(worker'[ws[q]])
       PROVE  /\ ws[q] \in 1..made /\ Alive(worker[ws[q]]) /\ worker[ws[q]].part = q
              /\ q = p <=> ws[q] \in To
  BY <1>8, <1>11, <1>12, <1>19, <1>24, <1>h DEF MapOK
<1>25. FrontOK(d, <<>>, ws, worker', Done)
  <2> SUFFICES ASSUME NEW q \in Partitions, ws[q] # 0, Alive(worker'[ws[q]])
               PROVE  /\ \A x \in Pend(worker'[ws[q]]) : x < Front(d, <<>>, q)
                      /\ \A x \in 0..(Front(d, <<>>, q) - 1) :
                           Record(q, x) \in Done \/ x \in Pend(worker'[ws[q]])
                      /\ worker'[ws[q]].paused => q \in d.paused
    BY DEF FrontOK
  <2> DEFINE w == worker[ws[q]]
             v == worker'[ws[q]]
  <2>1. /\ \A x \in Pend(w) : x < Front(c, f, q)
        /\ \A x \in 0..(Front(c, f, q) - 1) : Record(q, x) \in Done \/ x \in Pend(w)
        /\ w.paused => q \in c.paused
    BY <1>24, <1>h DEF FrontOK
  <2>2. CASE q # p
    <3>1. v = w
      BY <1>11, <1>24, <2>2
    <3> QED BY <1>15, <1>23, <2>1, <2>2, <3>1
  <2>3. CASE q = p
    <3>1. ws[q] \in To /\ Front(c, f, q) = o /\ Front(d, <<>>, q) = o + n
      BY <1>6, <1>23, <1>24, <2>3
    <3>2. /\ Pend(w) \subseteq Pend(v) /\ \A x \in Pend(v) : x \in Pend(w) \/ x \in o..(o + n - 1)
          /\ \A x \in o..(o + n - 1) : x \in Pend(v)
      BY <1>10, <3>1
    <3>3. Pend(w) \subseteq Nat
      <4>1. w \in Jobs
        BY <1>2, <1>24
      <4> QED BY <4>1, PendType, Constants
    <3> HIDE DEF w, v
    <3>4. ASSUME NEW x \in Pend(v) PROVE x < o + n
      <4>1. CASE x \in Pend(w)
        <5>1. x < o /\ x \in Nat
          BY <2>1, <3>1, <3>3, <4>1
        <5> QED BY <1>3, <1>5, <5>1
      <4>2. CASE x \in o..(o + n - 1)
        BY <1>3, <1>5, <4>2
      <4> QED BY <3>2, <4>1, <4>2
    <3>5. ASSUME NEW x \in 0..(o + n - 1) PROVE Record(q, x) \in Done \/ x \in Pend(v)
      <4>1. x \in 0..(o - 1) \/ x \in o..(o + n - 1)
        BY <1>3, <1>5
      <4> QED BY <2>1, <3>1, <3>2, <4>1
    <3>6. v.paused => q \in d.paused
      BY <1>14, <1>15, <2>3, <3>1 DEF v
    <3>7. /\ \A x \in Pend(v) : x < Front(d, <<>>, q)
          /\ \A x \in 0..(Front(d, <<>>, q) - 1) : Record(q, x) \in Done \/ x \in Pend(v)
      <4> DEFINE F == Front(d, <<>>, q)
      <4>1. F = o + n
        BY <3>1
      <4> HIDE DEF F
      <4>2. \A x \in Pend(v) : x < F
        BY <3>4, <4>1
      <4>3. \A x \in 0..(F - 1) : Record(q, x) \in Done \/ x \in Pend(v)
        BY <1>3, <1>5, <3>5, <4>1
      <4> QED BY <4>2, <4>3 DEF F
    <3> QED BY <3>6, <3>7 DEF v
  <2> QED BY <2>2, <2>3
<1>26. FetchOK(d, <<>>, "run", ws, worker') /\ MarkOK(d, Done)
       /\ OwnerOK(m, owner, joined[m], d, <<>>, cb, "run")
  BY <1>15, <1>h DEF FetchOK, MarkOK, OwnerOK
<1>27. LateOK(m, d, made, worker', orphan)
  BY <1>11, <1>12, <1>15, <1>h DEF LateOK
<1>28. AdvanceOK(m, joined[m], committed, d, <<>>, ws, made, worker', orphan)
  <2> SUFFICES ASSUME joined[m]
               PROVE  AdvanceOK(m, joined[m], committed, d, <<>>, ws, made, worker', orphan)
    BY DEF AdvanceOK
  <2>0. committed[p] \in Nat /\ c.mark[p] \in Nat
    <3>1. committed[p] \in Positions /\ c.mark[p] \in Positions
      BY <1>2, Here DEF Clients
    <3> QED BY <3>1, Constants
  <2>1. \A q \in Partitions : d.mark[q] # 0 /\ ~Left(orphan, q) => committed[q] <= d.mark[q]
    BY <1>15, <1>h DEF AdvanceOK
  <2>2. ASSUME ws[p] # 0, Alive(worker[ws[p]]), ~Left(orphan, p)
        PROVE  committed[p] <= o /\ c.mark[p] <= o
    BY <1>6, <1>h, <2>2 DEF AdvanceOK
  <2>3. ASSUME NEW k \in 1..made, Active(worker'[k]), worker'[k].member = m,
               ~Left(orphan, worker'[k].part), NEW x \in Pend(worker'[k])
        PROVE  committed[worker'[k].part] <= x /\ d.mark[worker'[k].part] <= x
    <3>1. Active(worker[k]) /\ worker[k].member = m /\ worker'[k].part = worker[k].part
      BY <1>11, <1>12, <2>3
    <3>2. CASE x \in Pend(worker[k])
      BY <1>15, <1>h, <2>3, <3>1, <3>2 DEF AdvanceOK
    <3>3. CASE k \in To /\ x \in o..(o + n - 1)
      <4>1. worker[k].part = p /\ k = ws[p] /\ k # 0 /\ Alive(worker[k])
        BY <1>7, <3>3
      <4>2. committed[p] <= o /\ c.mark[p] <= o
        BY <2>2, <2>3, <3>1, <4>1
      <4>3. x \in Int /\ o <= x
        BY <1>3, <1>5, <3>3
      <4> QED BY <1>5, <1>15, <2>0, <3>1, <4>1, <4>2, <4>3
    <3> QED BY <1>11, <2>3, <3>2, <3>3
  <2>4. ASSUME NEW q \in Partitions, ws[q] # 0, Alive(worker'[ws[q]]), ~Left(orphan, q)
        PROVE  committed[q] <= Front(d, <<>>, q) /\ d.mark[q] <= Front(d, <<>>, q)
    <3>1. committed[q] <= Front(c, f, q) /\ c.mark[q] <= Front(c, f, q)
      BY <1>24, <1>h, <2>4 DEF AdvanceOK
    <3>2. CASE q # p
      BY <1>15, <1>23, <3>1, <3>2
    <3>3. CASE q = p
      <4>1. committed[p] <= o /\ c.mark[p] <= o
        BY <1>6, <3>1, <3>3
      <4>2. committed[p] <= o + n /\ c.mark[p] <= o + n
        BY <1>3, <1>5, <2>0, <4>1
      <4> QED BY <1>15, <1>23, <3>3, <4>2
    <3> QED BY <3>2, <3>3
  <2> QED BY <2>1, <2>3, <2>4 DEF AdvanceOK
<1>29. MemberOK(m, owner', committed', joined'[m], client'[m], fetch'[m], callback'[m],
                session'[m], workers'[m], made', worker', Done', orphan')
  BY <1>1, <1>16, <1>20, <1>21, <1>22, <1>25, <1>26, <1>27, <1>28 DEF MemberOK, cb, ws, d
<1>30. \A k \in WorkerIds : /\ Keeps(m, worker[k], worker'[k])
                            /\ worker'[k] # worker[k] =>
                                 /\ k <= made /\ worker'[k].pc # "none"
                                 /\ WorkerOK(worker'[k], Done')
  <2> SUFFICES ASSUME NEW k \in To
               PROVE  /\ Keeps(m, worker[k], worker'[k]) /\ k <= made /\ worker'[k].pc # "none"
                      /\ WorkerOK(worker'[k], Done')
    BY <1>9 DEF Keeps
  <2>1. /\ k = ws[p] /\ k # 0 /\ k \in 1..made /\ Alive(worker[k]) /\ worker[k].member = m
    BY <1>7, <1>h DEF MapOK
  <2>2. k <= made /\ worker'[k].pc # "none"
    <3>1. worker[k].pc # "none" /\ worker'[k].pc = worker[k].pc
      BY <1>11, <2>1 DEF Alive
    <3>2. k <= made
      BY <1>2, <2>1
    <3> QED BY <3>1, <3>2
  <2>3. WorkerOK(worker'[k], Done') /\ Keeps(m, worker[k], worker'[k])
    <3>1. /\ worker'[k].pc = worker[k].pc /\ worker'[k].member = worker[k].member
          /\ worker'[k].part = worker[k].part /\ worker'[k].revoked = worker[k].revoked
          /\ worker'[k].cancelled = worker[k].cancelled /\ Pend(worker[k]) \subseteq Pend(worker'[k])
          /\ WorkerOK(worker'[k], Done)
      BY <1>10
    <3> QED BY <1>1, <2>1, <3>1 DEF Keeps
  <2> QED BY <2>2, <2>3
<1> QED BY <1>1, <1>15, <1>16, <1>17, <1>18, <1>29, <1>30, CommittedKept, StepInv

-------------------------------------------------------------------------------
(* Steps of a member that tell its workers to stop. *)

\* A worker that is told to stop, or cancelled, is what it was otherwise.
LEMMA ToldFacts ==
    ASSUME NEW w \in Jobs, NEW v \in Jobs, NEW done, WorkerOK(w, done),
           v.pc = w.pc, v.member = w.member, v.part = w.part, v.queue = w.queue,
           v.offset = w.offset, v.attempt = w.attempt, v.paused = w.paused,
           v.revoked = w.revoked, w.cancelled => v.cancelled
    PROVE  WorkerOK(v, done) /\ Moves(w, v, done)
<1>1. /\ Alive(v) <=> Alive(w)
      /\ HasRecord(v) <=> HasRecord(w)
  BY DEF Alive, HasRecord
<1>2. Pend(v) = Pend(w)
  BY <1>1 DEF Pend
<1>3. WorkerOK(v, done)
  BY <1>1, <1>2 DEF WorkerOK
<1> QED BY <1>1, <1>2, <1>3 DEF Moves

\* A step of m that tells workers to stop: what is left to prove is about m.
LEMMA ToldInv ==
    ASSUME IInv, NEW m \in Members, NEW S \in SUBSET (1..made),
           worker' \in [WorkerIds -> Jobs],
           \A k \in WorkerIds : k \notin S => worker'[k] = worker[k],
           \A k \in S : LET w == worker[k]
                            v == worker'[k] IN
             /\ v.pc = w.pc /\ v.member = w.member /\ v.part = w.part /\ v.queue = w.queue
             /\ v.offset = w.offset /\ v.attempt = w.attempt /\ v.paused = w.paused
             /\ v.revoked = w.revoked /\ (w.cancelled => v.cancelled)
             /\ Alive(w) => w.member = m,
           UNCHANGED <<slots, settled, start, made>>
    PROVE  /\ SlotsAccounted'
           /\ \A k \in WorkerIds : Len(worker'[k].queue) < 3 * BatchSize
           /\ \A k \in WorkerIds : /\ Keeps(m, worker[k], worker'[k])
                                   /\ worker'[k] # worker[k] =>
                                        /\ k <= made /\ worker'[k].pc # "none"
                                        /\ WorkerOK(worker'[k], Done')
           /\ MemberOK(m, owner, committed, joined[m], client[m], fetch[m], callback[m], session[m],
                       workers[m], made, worker', Done, orphan)
<1>1. /\ worker \in [WorkerIds -> Jobs] /\ made \in 0..MaxWorkers /\ 1..made \subseteq WorkerIds
      /\ \A k \in 1..made : k <= made
  BY MadeIds
<1>d. Done' = Done
  BY DoneSame
<1>2. \A k \in WorkerIds : WorkerOK(worker[k], Done) /\ (k > made <=> worker[k].pc = "none")
  BY DEF IInv, WorkersOK
<1>3. ASSUME NEW k \in S
      PROVE  WorkerOK(worker'[k], Done) /\ Moves(worker[k], worker'[k], Done)
  <2>1. k \in WorkerIds /\ worker[k] \in Jobs /\ worker'[k] \in Jobs /\ WorkerOK(worker[k], Done)
    BY <1>1, <1>2
  <2> QED BY <1>3, <2>1, ToldFacts
<1>4. \A k \in WorkerIds : /\ worker'[k].pc = worker[k].pc /\ worker'[k].member = worker[k].member
                           /\ worker'[k].queue = worker[k].queue
  BY <1>1
<1>5. SlotsAccounted'
  BY <1>1, <1>4, SlotsKept
<1>6. \A k \in WorkerIds : Len(worker'[k].queue) < 3 * BatchSize
  BY <1>4 DEF IInv, TypeOK
<1>7. \A k \in WorkerIds : /\ Keeps(m, worker[k], worker'[k])
                           /\ worker'[k] # worker[k] =>
                                /\ k <= made /\ worker'[k].pc # "none"
                                /\ WorkerOK(worker'[k], Done')
  <2> SUFFICES ASSUME NEW k \in S
               PROVE  /\ Keeps(m, worker[k], worker'[k]) /\ k <= made /\ worker'[k].pc # "none"
                      /\ WorkerOK(worker'[k], Done)
    BY <1>d DEF Keeps
  <2>0. made \in Nat
    BY <1>1, Constants
  <2>1. k \in 1..made /\ k \in WorkerIds /\ k <= made /\ ~(k > made)
    BY <1>1, <2>0
  <2>2. worker'[k].pc # "none"
    BY <1>2, <1>4, <2>1
  <2>3. Alive(worker'[k]) <=> Alive(worker[k])
    BY <1>4, <2>1 DEF Alive
  <2>4. Keeps(m, worker[k], worker'[k])
    BY <2>3 DEF Keeps
  <2> QED BY <1>3, <1>d, <2>1, <2>2, <2>4
<1>8. \A k \in 1..made : Moves(worker[k], worker'[k], Done)
  BY <1>1, <1>3 DEF Moves
<1>9. MemberOK(m, owner, committed, joined[m], client[m], fetch[m], callback[m], session[m],
               workers[m], made, worker', Done, orphan)
  BY <1>1, <1>8, Here, WorkersMove
<1> QED BY <1>5, <1>6, <1>7, <1>9

\* The graceful deadline passes.
LEMMA CancelWorkersInv == ASSUME IInv, NEW m \in Members, CancelWorkers(m) PROVE IInv'
<1> DEFINE cb == callback[m]
           i == cb.worker
           d == callback'[m]
<1>1. /\ cb.at = "graceful" /\ i # 0
      /\ callback' = [callback EXCEPT ![m].at = "forced"]
      /\ worker' = [worker EXCEPT ![i].cancelled = TRUE]
      /\ UNCHANGED <<owner, committed, joined, client, fetch, session, sub, workers, moves>>
      /\ UNCHANGED <<end, slots, settled, start, orphan, made>> /\ Done' = Done
  BY DoneSame DEF CancelWorkers, Ended, broker, history
<1>2. /\ worker \in [WorkerIds -> Jobs] /\ made \in 0..MaxWorkers /\ 1..made \subseteq WorkerIds
      /\ callback \in [Members -> Callbacks] /\ cb \in Callbacks
  <2>1. callback \in [Members -> Callbacks] /\ cb \in Callbacks
    BY DEF IInv, TypeOK
  <2> QED BY <2>1, MadeIds
<1>3. i \in 1..made /\ i \in WorkerIds
  <2>1. CallbackOK(m, client[m], fetch[m], cb, workers[m], made, worker)
    BY Here
  <2>2. i \in 1..made
    BY <1>1, <2>1 DEF CallbackOK
  <2> QED BY <1>2, <2>2
<1>4. /\ d \in Callbacks /\ d.at = "forced" /\ d.part = cb.part /\ d.worker = i
      /\ callback' \in [Members -> Callbacks]
      /\ \A n \in Members : n # m => callback'[n] = callback[n]
  BY <1>1, <1>2 DEF Callbacks
<1>5. /\ worker' \in [WorkerIds -> Jobs] /\ \A k \in WorkerIds : k \notin {i} => worker'[k] = worker[k]
      /\ LET w == worker[i]
             v == worker'[i] IN
         /\ v.pc = w.pc /\ v.member = w.member /\ v.part = w.part /\ v.queue = w.queue
         /\ v.offset = w.offset /\ v.attempt = w.attempt /\ v.paused = w.paused
         /\ v.revoked = w.revoked /\ v.cancelled
  <2> DEFINE v == [worker[i] EXCEPT !.cancelled = TRUE]
  <2>1. worker' = [worker EXCEPT ![i] = v]
    BY <1>1
  <2> HIDE DEF i
  <2>2. LET w == worker[i] IN
        /\ v \in Jobs /\ v.pc = w.pc /\ v.member = w.member /\ v.part = w.part /\ v.queue = w.queue
        /\ v.offset = w.offset /\ v.attempt = w.attempt /\ v.paused = w.paused
        /\ v.revoked = w.revoked /\ v.cancelled
    <3>1. worker[i] \in Jobs
      BY <1>2, <1>3
    <3> QED BY <3>1 DEF Jobs
  <2> HIDE DEF v
  <2> QED BY <1>2, <1>3, <2>1, <2>2
<1>6. Alive(worker[i]) => worker[i].member = m
  BY <1>1, Here DEF CallbackOK
<1>7. /\ SlotsAccounted'
      /\ \A k \in WorkerIds : Len(worker'[k].queue) < 3 * BatchSize
      /\ \A k \in WorkerIds : /\ Keeps(m, worker[k], worker'[k])
                              /\ worker'[k] # worker[k] =>
                                   /\ k <= made /\ worker'[k].pc # "none"
                                   /\ WorkerOK(worker'[k], Done')
      /\ MemberOK(m, owner, committed, joined[m], client[m], fetch[m], cb, session[m],
                  workers[m], made, worker', Done, orphan)
  <2>1. {i} \in SUBSET (1..made)
    BY <1>3
  <2>2. \A k \in {i} : LET w == worker[k]
                          v == worker'[k] IN
             /\ v.pc = w.pc /\ v.member = w.member /\ v.part = w.part /\ v.queue = w.queue
             /\ v.offset = w.offset /\ v.attempt = w.attempt /\ v.paused = w.paused
             /\ v.revoked = w.revoked /\ (w.cancelled => v.cancelled)
             /\ Alive(w) => w.member = m
    BY <1>5, <1>6
  <2> HIDE DEF i
  <2> QED BY <1>1, <1>5, <2>1, <2>2, ToldInv
<1> HIDE DEF cb, d
<1>8. /\ CallbackOK(m, client[m], fetch[m], d, workers[m], made, worker')
  BY <1>1, <1>4, <1>5, <1>7 DEF MemberOK, CallbackOK
<1>9. /\ ActiveOK(m, session[m], d, workers[m], made, worker')
      /\ OwnerOK(m, owner, joined[m], client[m], fetch[m], d, session[m])
      /\ LateOK(m, client[m], made, worker', orphan)
  <2>1. session[m] # "gone"
    BY <1>1, <1>7, Fresh DEF MemberOK, OwnerOK
  <2> QED BY <1>1, <1>4, <1>7, <2>1 DEF MemberOK, ActiveOK, OwnerOK, LateOK
<1>10. MemberOK(m, owner', committed', joined'[m], client'[m], fetch'[m], callback'[m],
                session'[m], workers'[m], made', worker', Done', orphan')
  BY <1>1, <1>7, <1>8, <1>9 DEF MemberOK, d
<1>11. TypeOK'
  BY <1>1, <1>4, <1>5, <1>7 DEF IInv, TypeOK
<1> QED BY <1>1, <1>4, <1>7, <1>10, <1>11, CommittedKept, StepInv

\* detach takes the worker of p out of the map, and tells it to stop.
LEMMA DetachInv ==
    ASSUME IInv, NEW m \in Members, NEW p \in Partitions, p \in client[m].held, MayCall(m),
           NEW at \in {"graceful", "lost"}, NEW cancel \in BOOLEAN, Detach(m, p, at, cancel),
           at = "lost" => cancel /\ ~joined[m],
           UNCHANGED <<owner, committed, joined, client, fetch, session, sub>>,
           UNCHANGED <<end, slots, settled, start, orphan, made>>, moves' \in 0..(MaxMoves + MaxLate)
    PROVE  IInv'
<1> DEFINE c == client[m]
           f == fetch[m]
           s == session[m]
           cb == callback'[m]
           ws == workers[m]
           i == ws[p]
           us == workers'[m]
<1>1. /\ callback[m] = NoCallback /\ f = <<>>
      /\ callback' = [callback EXCEPT ![m] = [at |-> at, part |-> p, worker |-> i]]
      /\ workers' = [workers EXCEPT ![m][p] = 0]
      /\ worker' = IF i = 0 THEN worker
                   ELSE [worker EXCEPT ![i] =
                           [worker[i] EXCEPT !.stopping = TRUE, !.cancelled = @ \/ cancel]]
  BY DEF MayCall, NoFetch, Detach
<1>d. Done' = Done
  BY DoneSame
<1>2. /\ worker \in [WorkerIds -> Jobs] /\ made \in 0..MaxWorkers /\ 1..made \subseteq WorkerIds
      /\ callback \in [Members -> Callbacks] /\ workers \in [Members -> [Partitions -> 0..MaxWorkers]]
      /\ i \in 0..MaxWorkers
  <2>1. /\ callback \in [Members -> Callbacks]
        /\ workers \in [Members -> [Partitions -> 0..MaxWorkers]]
    BY DEF IInv, TypeOK
  <2>2. i \in 0..MaxWorkers
    BY <2>1
  <2> QED BY <2>1, <2>2, MadeIds
<1>3. i # 0 => /\ i \in 1..made /\ i \in WorkerIds
               /\ Alive(worker[i]) => worker[i].member = m /\ worker[i].part = p
  BY <1>2, Here DEF MapOK
<1>4. /\ callback' \in [Members -> Callbacks] /\ cb.at = at /\ cb.part = p /\ cb.worker = i
      /\ \A n \in Members : n # m => callback'[n] = callback[n]
  <2> DEFINE b == [at |-> at, part |-> p, worker |-> i]
  <2>1. b \in Callbacks /\ b.at = at /\ b.part = p /\ b.worker = i
    BY <1>2 DEF Callbacks
  <2>2. callback' = [callback EXCEPT ![m] = b]
    BY <1>1
  <2> HIDE DEF b, i
  <2> QED BY <1>2, <2>1, <2>2
<1>5. /\ workers' \in [Members -> [Partitions -> 0..MaxWorkers]]
      /\ \A q \in Partitions : us[q] = IF q = p THEN 0 ELSE ws[q]
      /\ \A n \in Members : n # m => workers'[n] = workers[n]
  BY <1>1, <1>2, Constants
<1>6. /\ worker' \in [WorkerIds -> Jobs] /\ \A k \in WorkerIds : k \notin {i} => worker'[k] = worker[k]
      /\ i # 0 =>
           LET w == worker[i]
               v == worker'[i] IN
           /\ v.pc = w.pc /\ v.member = w.member /\ v.part = w.part /\ v.queue = w.queue
           /\ v.offset = w.offset /\ v.attempt = w.attempt /\ v.paused = w.paused
           /\ v.revoked = w.revoked /\ (w.cancelled => v.cancelled) /\ (cancel => v.cancelled)
  <2>1. CASE i = 0
    BY <1>1, <1>2, <2>1
  <2>2. CASE i # 0
    <3> DEFINE v == [worker[i] EXCEPT !.stopping = TRUE, !.cancelled = @ \/ cancel]
    <3>1. worker' = [worker EXCEPT ![i] = v] /\ i \in WorkerIds
      BY <1>1, <1>3, <2>2
    <3> HIDE DEF i
    <3>2. worker[i] \in Jobs /\ (worker[i].cancelled \/ cancel) \in BOOLEAN
      BY <1>2, <3>1
    <3>3. LET w == worker[i] IN
          /\ v \in Jobs /\ v.pc = w.pc /\ v.member = w.member /\ v.part = w.part
          /\ v.queue = w.queue /\ v.offset = w.offset /\ v.attempt = w.attempt
          /\ v.paused = w.paused /\ v.revoked = w.revoked
          /\ v.cancelled = (w.cancelled \/ cancel)
      BY <3>2 DEF Jobs
    <3> HIDE DEF v
    <3>4. worker' \in [WorkerIds -> Jobs] /\ worker'[i] = v
          /\ \A k \in WorkerIds : k \notin {i} => worker'[k] = worker[k]
      BY <1>2, <3>1, <3>3
    <3>5. (worker[i].cancelled => v.cancelled) /\ (cancel => v.cancelled)
      BY <3>3, Zenon
    <3> QED BY <3>3, <3>4, <3>5
  <2> QED BY <2>1, <2>2
<1>7. /\ SlotsAccounted'
      /\ \A k \in WorkerIds : Len(worker'[k].queue) < 3 * BatchSize
      /\ \A k \in WorkerIds : /\ Keeps(m, worker[k], worker'[k])
                              /\ worker'[k] # worker[k] =>
                                   /\ k <= made /\ worker'[k].pc # "none"
                                   /\ WorkerOK(worker'[k], Done')
      /\ MemberOK(m, owner, committed, joined[m], c, f, callback[m], s, ws, made, worker', Done, orphan)
  <2> DEFINE S == {i} \ {0}
  <2>1. S \in SUBSET (1..made)
    BY <1>3
  <2>2. \A k \in S : LET w == worker[k]
                         v == worker'[k] IN
             /\ v.pc = w.pc /\ v.member = w.member /\ v.part = w.part /\ v.queue = w.queue
             /\ v.offset = w.offset /\ v.attempt = w.attempt /\ v.paused = w.paused
             /\ v.revoked = w.revoked /\ (w.cancelled => v.cancelled)
             /\ Alive(w) => w.member = m
    BY <1>3, <1>6
  <2>3. \A k \in WorkerIds : k \notin S => worker'[k] = worker[k]
    BY <1>6 DEF WorkerIds
  <2> HIDE DEF S, i
  <2> QED BY <1>6, <2>1, <2>2, <2>3, ToldInv
<1>8. TypeOK'
  BY <1>4, <1>5, <1>6, <1>7 DEF IInv, TypeOK
<1>h. /\ MapOK(m, c, s, ws, made, worker') /\ ActiveOK(m, s, NoCallback, ws, made, worker')
      /\ FrontOK(c, f, ws, worker', Done) /\ MarkOK(c, Done)
      /\ OwnerOK(m, owner, joined[m], c, f, NoCallback, s)
      /\ LateOK(m, c, made, worker', orphan)
      /\ AdvanceOK(m, joined[m], committed, c, f, ws, made, worker', orphan)
  BY <1>1, <1>7 DEF MemberOK
<1>9. p \in c.held /\ i \in 0..made
  BY <1>2, <1>3
<1> HIDE DEF c, f, s, cb, ws, us
<1>10. MapOK(m, c, s, us, made, worker')
  BY <1>5, <1>h DEF MapOK
<1>11. CallbackOK(m, c, f, cb, us, made, worker')
  <2>1. i # 0 /\ Alive(worker'[i]) => worker'[i].member = m /\ worker'[i].part = p
    BY <1>h DEF MapOK
  <2>2. i # 0 /\ at = "lost" => worker'[i].cancelled
    BY <1>6
  <2> QED BY <1>1, <1>4, <1>5, <1>9, <2>1, <2>2 DEF CallbackOK
<1>12. ASSUME NEW k \in 1..made, Active(worker'[k]), worker'[k].member = m, s = "run"
       PROVE  ws[worker'[k].part] = k
  <2>1. k # 0 /\ NoCallback.worker = 0
    BY <1>2, Fresh
  <2> QED BY <1>12, <1>h, <2>1 DEF ActiveOK
<1>13. ActiveOK(m, s, cb, us, made, worker')
  <2> SUFFICES ASSUME NEW k \in 1..made, Active(worker'[k]), worker'[k].member = m
               PROVE  /\ s = "run" => us[worker'[k].part] = k \/ cb.worker = k
                      /\ s = "leaving" => cb.worker = k
                      /\ s # "gone"
    BY DEF ActiveOK
  <2>1. k # 0 /\ NoCallback.worker = 0 /\ k \in WorkerIds
    BY <1>2, Fresh
  <2>2. s # "leaving" /\ s # "gone"
    BY <1>h, <2>1 DEF ActiveOK
  <2>3. worker'[k].part \in Partitions
    <3>1. Alive(worker[k]) /\ worker'[k].part = worker[k].part
      BY <1>6, <2>1 DEF Active, Alive
    <3> QED BY <2>1, <3>1, HereWorker
  <2> QED BY <1>4, <1>5, <1>12, <2>2, <2>3
<1>14. FetchOK(c, f, s, us, worker')
  BY <1>1 DEF FetchOK
<1>15. FrontOK(c, f, us, worker', Done)
  BY <1>5, <1>h DEF FrontOK
<1>16. OwnerOK(m, owner, joined[m], c, f, cb, s)
  <2>1. s # "gone"
    BY <1>9, <1>h DEF OwnerOK
  <2>2. cb.at = "lost" => ~joined[m]
    BY <1>4
  <2> QED BY <1>h, <2>1, <2>2 DEF OwnerOK
<1>18. AdvanceOK(m, joined[m], committed, c, f, us, made, worker', orphan)
  BY <1>5, <1>h DEF AdvanceOK
<1>19. MemberOK(m, owner', committed', joined'[m], client'[m], fetch'[m], callback'[m],
                session'[m], workers'[m], made', worker', Done', orphan')
  BY <1>h, <1>10, <1>11, <1>13, <1>14, <1>15, <1>16, <1>18, <1>d DEF MemberOK, c, f, s, cb, us
<1> QED BY <1>4, <1>5, <1>7, <1>8, <1>19, <1>d, CommittedKept, StepInv

\* revoke begins.
LEMMA RevokeBeginsInv ==
    ASSUME IInv, NEW m \in Members, NEW p \in Partitions, RevokeBegins(m, p) PROVE IInv'
<1>1. /\ p \in client[m].held /\ MayCall(m) /\ moves' \in 0..(MaxMoves + MaxLate)
      /\ Detach(m, p, "graceful", FALSE)
      /\ UNCHANGED <<owner, committed, joined, client, fetch, session, sub>>
      /\ UNCHANGED <<end, slots, settled, start, orphan, made>>
  BY MoveType DEF RevokeBegins, broker, history
<1> QED BY <1>1, DetachInv

\* lose begins.
LEMMA LoseBeginsInv ==
    ASSUME IInv, NEW m \in Members, NEW p \in Partitions, LoseBegins(m, p) PROVE IInv'
<1>1. /\ ~joined[m] /\ p \in client[m].held /\ MayCall(m) /\ moves' \in 0..(MaxMoves + MaxLate)
      /\ Detach(m, p, "lost", TRUE)
      /\ UNCHANGED <<owner, committed, joined, client, fetch, session, sub>>
      /\ UNCHANGED <<end, slots, settled, start, orphan, made>>
  BY DEF LoseBegins, broker, history, IInv, TypeOK
<1> QED BY <1>1, DetachInv

\* shutdown tells all workers in the map to stop.
LEMMA ShutdownBeginsInv == ASSUME IInv, NEW m \in Members, ShutdownBegins(m) PROVE IInv'
<1> DEFINE c == client[m]
           cb == callback[m]
           ws == workers[m]
           us == workers'[m]
           t == session'[m]
           S == {ws[p] : p \in Partitions} \ {0}
<1>1. /\ session[m] = "run"
      /\ \E x \in {"shutdown", "closed"} : session' = [session EXCEPT ![m] = x]
      /\ fetch' = [fetch EXCEPT ![m] = <<>>]
      /\ workers' = [workers EXCEPT ![m] = [p \in Partitions |-> 0]]
      /\ worker' = [i \in WorkerIds |-> IF i \in Range(ws)
                                        THEN [worker[i] EXCEPT !.stopping = TRUE] ELSE worker[i]]
      /\ UNCHANGED <<committed, client, callback, sub>>
      /\ UNCHANGED <<end, slots, settled, start, orphan, made>> /\ Done' = Done
  BY DoneSame DEF ShutdownBegins, history, NoFetch
<1>2. /\ UNCHANGED <<owner, joined, moves>> \/ (Removed(m) /\ moves' \in 0..(MaxMoves + MaxLate))
  BY MoveType DEF ShutdownBegins
<1>3. /\ worker \in [WorkerIds -> Jobs] /\ made \in 0..MaxWorkers /\ 1..made \subseteq WorkerIds
      /\ workers \in [Members -> [Partitions -> 0..MaxWorkers]] /\ moves \in 0..(MaxMoves + MaxLate)
      /\ session \in [Members -> {"run", "shutdown", "closed", "leaving", "gone"}]
  <2>1. /\ workers \in [Members -> [Partitions -> 0..MaxWorkers]]
        /\ moves \in 0..(MaxMoves + MaxLate)
        /\ session \in [Members -> {"run", "shutdown", "closed", "leaving", "gone"}]
    BY DEF IInv, TypeOK
  <2> QED BY <2>1, MadeIds
<1>4. fetch \in [Members -> Seq([part : Partitions, offset : Offsets])]
      /\ <<>> \in Seq([part : Partitions, offset : Offsets])
  BY EmptySeq DEF IInv, TypeOK
<1>5. /\ session' \in [Members -> {"run", "shutdown", "closed", "leaving", "gone"}]
      /\ t \in {"shutdown", "closed"} /\ \A n \in Members : n # m => session'[n] = session[n]
      /\ workers' \in [Members -> [Partitions -> 0..MaxWorkers]]
      /\ \A p \in Partitions : us[p] = 0
      /\ \A n \in Members : n # m => workers'[n] = workers[n]
  BY <1>1, <1>3, Constants
<1>6. /\ fetch' \in [Members -> Seq([part : Partitions, offset : Offsets])]
      /\ fetch'[m] = <<>> /\ \A n \in Members : n # m => fetch'[n] = fetch[n]
  BY <1>1, <1>4
<1>7. \A k \in WorkerIds : k \in Range(ws) <=> k \in S
  <2>1. Range(ws) = {ws[p] : p \in Partitions}
    BY <1>3 DEF Range
  <2> QED BY <2>1 DEF WorkerIds
<1>8. \A k \in S : k \in 1..made /\ (Alive(worker[k]) => worker[k].member = m)
  <2>1. MapOK(m, client[m], session[m], ws, made, worker)
    BY Here
  <2> QED BY <2>1 DEF MapOK
<1> HIDE DEF S
<1>9. ASSUME NEW k \in WorkerIds, k \in S
      PROVE  LET w == worker[k]
                 v == worker'[k] IN
             /\ v \in Jobs /\ v.pc = w.pc /\ v.member = w.member /\ v.part = w.part
             /\ v.queue = w.queue /\ v.offset = w.offset /\ v.attempt = w.attempt
             /\ v.paused = w.paused /\ v.revoked = w.revoked /\ v.cancelled = w.cancelled
  <2>1. worker'[k] = [worker[k] EXCEPT !.stopping = TRUE] /\ worker[k] \in Jobs
    BY <1>1, <1>3, <1>7, <1>9
  <2> QED BY <2>1 DEF Jobs
<1>10. /\ worker' \in [WorkerIds -> Jobs]
       /\ \A k \in WorkerIds : k \notin S => worker'[k] = worker[k]
  <2>1. \A k \in WorkerIds : k \notin S => worker'[k] = worker[k]
    BY <1>1, <1>7
  <2>2. \A k \in WorkerIds : worker'[k] \in Jobs
    BY <1>3, <1>9, <2>1
  <2> QED BY <1>1, <2>1, <2>2
<1>11. /\ SlotsAccounted'
       /\ \A k \in WorkerIds : Len(worker'[k].queue) < 3 * BatchSize
       /\ \A k \in WorkerIds : /\ Keeps(m, worker[k], worker'[k])
                               /\ worker'[k] # worker[k] =>
                                    /\ k <= made /\ worker'[k].pc # "none"
                                    /\ WorkerOK(worker'[k], Done')
       /\ MemberOK(m, owner, committed, joined[m], c, fetch[m], cb, session[m], ws, made, worker',
                   Done, orphan)
  <2>1. S \in SUBSET (1..made)
    BY <1>8
  <2>2. \A k \in S : LET w == worker[k]
                         v == worker'[k] IN
             /\ v.pc = w.pc /\ v.member = w.member /\ v.part = w.part /\ v.queue = w.queue
             /\ v.offset = w.offset /\ v.attempt = w.attempt /\ v.paused = w.paused
             /\ v.revoked = w.revoked /\ (w.cancelled => v.cancelled)
             /\ Alive(w) => w.member = m
    BY <1>3, <1>8, <1>9
  <2> QED BY <1>1, <1>10, <2>1, <2>2, ToldInv
<1>h. /\ CallbackOK(m, c, fetch[m], cb, ws, made, worker') /\ MarkOK(c, Done)
      /\ OwnerOK(m, owner, joined[m], c, fetch[m], cb, "run")
      /\ LateOK(m, c, made, worker', orphan)
      /\ AdvanceOK(m, joined[m], committed, c, fetch[m], ws, made, worker', orphan)
  BY <1>1, <1>11 DEF MemberOK
<1> HIDE DEF c, cb, ws, us, t
<1>12. /\ MapOK(m, c, t, us, made, worker') /\ FetchOK(c, <<>>, t, us, worker')
       /\ FrontOK(c, <<>>, us, worker', Done) /\ ActiveOK(m, t, cb, us, made, worker')
  BY <1>5 DEF MapOK, FetchOK, FrontOK, ActiveOK
<1>13. CallbackOK(m, c, <<>>, cb, us, made, worker')
  BY <1>5, <1>h DEF CallbackOK
<1>14. OwnerOK(m, owner, joined[m], c, <<>>, cb, t)
  BY <1>5, <1>h DEF OwnerOK
<1>15. LateOK(m, c, made, worker', orphan)
  BY <1>h DEF LateOK
<1>16. AdvanceOK(m, joined[m], committed, c, <<>>, us, made, worker', orphan)
  BY <1>5, <1>h DEF AdvanceOK
<1>17. MemberOK(m, owner, committed, joined[m], c, <<>>, cb, t, us, made, worker', Done, orphan)
  BY <1>h, <1>12, <1>13, <1>14, <1>15, <1>16 DEF MemberOK
\* m may have left the group on the way.
<1>18. /\ joined' \in [Members -> BOOLEAN] /\ owner' \in [Partitions -> Members \cup {0}]
       /\ moves' \in 0..(MaxMoves + MaxLate) /\ \A n \in Members : n # m => joined'[n] = joined[n]
       /\ \A p \in Partitions : \A n \in Members : n # m => (owner'[p] = n <=> owner[p] = n)
       /\ MemberOK(m, owner', committed, joined'[m], c, <<>>, cb, t, us, made, worker',
                   Done, orphan)
  <2>1. CASE UNCHANGED <<owner, joined, moves>>
    BY <1>17, <2>1 DEF IInv, TypeOK
  <2>2. CASE Removed(m) /\ moves' \in 0..(MaxMoves + MaxLate)
    BY <1>17, <2>2, RemovedFacts, LeftOK
  <2> QED BY <1>2, <2>1, <2>2
<1>19. TypeOK'
  BY <1>1, <1>5, <1>6, <1>10, <1>11, <1>18 DEF IInv, TypeOK
<1>20. MemberOK(m, owner', committed', joined'[m], client'[m], fetch'[m], callback'[m],
                session'[m], workers'[m], made', worker', Done', orphan')
  BY <1>1, <1>5, <1>6, <1>18 DEF c, cb, us, t
<1> QED BY <1>1, <1>5, <1>6, <1>11, <1>18, <1>19, <1>20, CommittedKept, StepInv

-------------------------------------------------------------------------------
(* Partitions are handed over, and taken. *)

\* markRevoked leaves a worker at most the record it has.
LEMMA RevokedFacts ==
    ASSUME NEW w \in Jobs, NEW done, Alive(w), w.cancelled, WorkerOK(w, done)
    PROVE  LET v == RevokedWorker(w) IN
           /\ v \in Jobs /\ v.pc = w.pc /\ v.member = w.member /\ v.part = w.part
           /\ v.revoked /\ v.cancelled /\ WorkerOK(v, done)
<1> DEFINE v == RevokedWorker(w)
<1>1. v = [w EXCEPT !.revoked = TRUE, !.queue = <<>>]
  BY DEF RevokedWorker, Alive
<1>2. /\ v \in Jobs /\ v.pc = w.pc /\ v.member = w.member /\ v.part = w.part
      /\ v.revoked /\ v.cancelled /\ v.queue = <<>> /\ v.offset = w.offset /\ v.attempt = w.attempt
  <2> HIDE DEF v
  <2>1. <<>> \in Seq(Offsets)
    BY EmptySeq
  <2> QED BY <1>1, <2>1 DEF Jobs
<1> HIDE DEF v
<1>3. (HasRecord(v) <=> HasRecord(w)) /\ Alive(v) /\ Len(v.queue) = 0
  BY <1>2, EmptySeq DEF HasRecord, Alive
<1>4. Pend(v) = IF HasRecord(w) THEN {w.offset} ELSE {}
  BY <1>2, <1>3 DEF Pend
<1>5. ASSUME HasRecord(w), NEW o \in 0..(w.offset - 1) PROVE Record(w.part, o) \in done
  <2>1. w.offset \in Pend(w) /\ w.offset \in Nat /\ Pend(w) \subseteq Nat
    BY <1>5, PendType, Constants
  <2>2. Record(w.part, o) \in done \/ o \in Pend(w)
    BY <2>1 DEF WorkerOK
  <2>3. ASSUME o \in Pend(w) PROVE FALSE
    <3>1. CASE o = w.offset
      BY <2>1, <3>1
    <3>2. ASSUME NEW k \in 1..Len(w.queue), o = w.queue[k] PROVE FALSE
      <4>1. w.offset < o
        BY <1>5, <3>2 DEF WorkerOK
      <4>2. o < w.offset /\ o \in Nat
        BY <2>1
      <4> QED BY <2>1, <4>1, <4>2
    <3> QED BY <2>3, <3>1, <3>2, PendType
  <2> QED BY <2>2, <2>3
<1>6. WorkerOK(v, done)
  <2>1. v.member \in Members /\ v.part \in Partitions
    BY <1>2 DEF WorkerOK
  <2>2. /\ v.pc = "complete" => Record(v.part, v.offset) \in done
        /\ v.pc = "backoff" => v.attempt < MaxRetries
    BY <1>2 DEF WorkerOK
  <2>3. \A x \in Pend(v) : \A o \in 0..(x - 1) : Record(v.part, o) \in done \/ o \in Pend(v)
    BY <1>2, <1>4, <1>5
  <2>4. Len(v.queue) < 3 * BatchSize /\ Len(v.queue) < 2 * BatchSize
    BY <1>3, Constants
  <2>5. \A j, k \in 1..Len(v.queue) : FALSE
    BY <1>3
  <2> QED BY <1>2, <1>3, <2>1, <2>2, <2>3, <2>4, <2>5 DEF WorkerOK
<1> QED BY <1>2, <1>6 DEF v

\* stopWorkers ends, and the partition is given up.
LEMMA HandOverInv == ASSUME IInv, NEW m \in Members, HandOver(m) PROVE IInv'
<1> DEFINE cb == callback[m]
           i == cb.worker
           p == cb.part
           c == client[m]
           f == fetch[m]
           s == session[m]
           ws == workers[m]
           d == client'[m]
           b == callback'[m]
<1>1. /\ cb.at \in {"graceful", "forced", "lost"}
      /\ cb.at = "graceful" => Ended(i)
      /\ worker' = IF i = 0 THEN worker ELSE [worker EXCEPT ![i] = RevokedWorker(@)]
      /\ IF cb.at = "lost"
         THEN /\ client' = [client EXCEPT ![m] = Dropped(c, p)]
              /\ callback' = [callback EXCEPT ![m] = NoCallback] /\ Orphaned(m, p)
         ELSE /\ client' = [client EXCEPT ![m].paused = @ \ {p}]
              /\ callback' = [callback EXCEPT ![m].at = "commit"] /\ orphan' = orphan
      /\ UNCHANGED <<owner, committed, joined, fetch, session, sub, workers, moves>>
      /\ UNCHANGED <<end, slots, settled, start, made>> /\ Done' = Done
  BY DoneSame DEF HandOver, StopWaited, broker
<1>2. /\ worker \in [WorkerIds -> Jobs] /\ made \in 0..MaxWorkers /\ 1..made \subseteq WorkerIds
      /\ callback \in [Members -> Callbacks] /\ client \in [Members -> Clients]
      /\ c \in Clients /\ cb \in Callbacks
  <2>1. /\ callback \in [Members -> Callbacks] /\ client \in [Members -> Clients]
        /\ c \in Clients /\ cb \in Callbacks
    BY DEF IInv, TypeOK
  <2> QED BY <2>1, MadeIds
<1>h. /\ MapOK(m, c, s, ws, made, worker) /\ CallbackOK(m, c, f, cb, ws, made, worker)
      /\ ActiveOK(m, s, cb, ws, made, worker) /\ FrontOK(c, f, ws, worker, Done)
      /\ MarkOK(c, Done) /\ OwnerOK(m, owner, joined[m], c, f, cb, s)
      /\ LateOK(m, c, made, worker, orphan)
      /\ AdvanceOK(m, joined[m], committed, c, f, ws, made, worker, orphan)
  BY Here
<1>3. p \in Partitions /\ p \in c.held /\ ws[p] = 0 /\ f = <<>> /\ i \in 0..made
  BY <1>1, <1>h DEF CallbackOK
<1>o. /\ orphan' \in [WorkerIds -> Partitions \cup {0}]
      /\ \A k \in WorkerIds : orphan'[k] = orphan[k] \/ (orphan[k] = 0 /\ worker[k].member = m)
      /\ \A q \in Partitions : Left(orphan, q) => Left(orphan', q)
  <2>1. CASE cb.at = "lost"
    BY <1>1, <1>3, <2>1, OrphanedFacts
  <2>2. CASE cb.at # "lost"
    BY <1>1, <2>2 DEF IInv, TypeOK
  <2> QED BY <2>1, <2>2
<1>4. /\ d \in Clients /\ d.pos = c.pos /\ d.paused = c.paused \ {p}
      /\ d.held = IF cb.at = "lost" THEN c.held \ {p} ELSE c.held
      /\ \A q \in Partitions : d.mark[q] = IF cb.at = "lost" /\ q = p THEN 0 ELSE c.mark[q]
      /\ client' \in [Members -> Clients] /\ \A n \in Members : n # m => client'[n] = client[n]
  <2>1. CASE cb.at = "lost"
    <3> DEFINE e == Dropped(c, p)
    <3>1. /\ e \in Clients /\ e.held = c.held \ {p} /\ e.pos = c.pos /\ e.paused = c.paused \ {p}
          /\ \A q \in Partitions : e.mark[q] = IF q = p THEN 0 ELSE c.mark[q]
      BY <1>2, <1>3, DroppedFacts
    <3>2. client' = [client EXCEPT ![m] = e]
      BY <1>1, <2>1
    <3> HIDE DEF e, p, cb
    <3> QED BY <1>2, <2>1, <3>1, <3>2
  <2>2. CASE cb.at # "lost"
    <3>1. client' = [client EXCEPT ![m].paused = @ \ {p}]
      BY <1>1, <2>2
    <3> HIDE DEF p, cb
    <3> QED BY <1>2, <2>2, <3>1 DEF Clients
  <2> QED BY <2>1, <2>2
<1>5. /\ callback' \in [Members -> Callbacks]
      /\ IF cb.at = "lost" THEN b = NoCallback
         ELSE b.at = "commit" /\ b.part = p /\ b.worker = i
      /\ \A n \in Members : n # m => callback'[n] = callback[n]
  <2>1. CASE cb.at = "lost"
    BY <1>1, <1>2, <2>1, Fresh
  <2>2. CASE cb.at # "lost"
    <3> DEFINE e == [cb EXCEPT !.at = "commit"]
    <3>1. e \in Callbacks /\ e.at = "commit" /\ e.part = p /\ e.worker = i
      BY <1>2 DEF Callbacks
    <3>2. callback' = [callback EXCEPT ![m] = e]
      BY <1>1, <2>2
    <3> HIDE DEF e, p, i, cb
    <3> QED BY <1>2, <2>2, <3>1, <3>2
  <2> QED BY <2>1, <2>2
<1>6. \A k \in WorkerIds : WorkerOK(worker[k], Done) /\ (k > made <=> worker[k].pc = "none")
  BY DEF IInv, WorkersOK
\* The worker, when it still lives, is cancelled and learns of it.
<1>7. ASSUME i # 0
      PROVE  /\ i \in 1..made /\ i \in WorkerIds /\ i <= made /\ worker[i].pc # "none"
             /\ \A k \in WorkerIds : k # i => worker'[k] = worker[k]
             /\ ~Alive(worker[i]) => worker'[i] = worker[i]
             /\ Alive(worker[i]) => /\ worker[i].member = m /\ worker[i].part = p
                                    /\ worker[i].cancelled
                                    /\ worker'[i] = RevokedWorker(worker[i])
  <2>0. made \in Nat
    BY <1>2, Constants
  <2>1. i \in 1..made /\ i \in WorkerIds /\ i <= made /\ ~(i > made)
    BY <1>2, <1>3, <1>7, <2>0
  <2>2. worker[i].pc # "none"
    BY <1>6, <2>1
  <2>3. /\ worker'[i] = RevokedWorker(worker[i])
        /\ \A k \in WorkerIds : k # i => worker'[k] = worker[k]
    <3> HIDE DEF i
    <3> QED BY <1>1, <1>2, <1>7, <2>1
  <2>4. ~Alive(worker[i]) => worker'[i] = worker[i]
    BY <2>2, <2>3 DEF Alive, RevokedWorker
  <2>5. Alive(worker[i]) => cb.at \in {"forced", "lost"}
    BY <1>1, <1>7 DEF Alive, Ended
  <2>6. Alive(worker[i]) => worker[i].member = m /\ worker[i].part = p /\ worker[i].cancelled
    BY <1>7, <1>h, <2>5 DEF CallbackOK
  <2> QED BY <2>1, <2>2, <2>3, <2>4, <2>6
<1> HIDE DEF i, p, cb, b, d
<1>8. ASSUME i # 0, Alive(worker[i])
      PROVE  LET v == worker'[i] IN
             /\ v \in Jobs /\ v.pc = worker[i].pc /\ v.member = m /\ v.part = p
             /\ v.revoked /\ v.cancelled /\ WorkerOK(v, Done)
  <2>1. worker[i] \in Jobs /\ WorkerOK(worker[i], Done)
    BY <1>2, <1>6, <1>7, <1>8
  <2> QED BY <1>7, <1>8, <2>1, RevokedFacts
<1>9. \A k \in WorkerIds : \/ worker'[k] = worker[k]
                           \/ k = i /\ i # 0 /\ Alive(worker[i])
  BY <1>1, <1>7
<1>10. /\ worker' \in [WorkerIds -> Jobs] /\ \A k \in WorkerIds : WorkerOK(worker'[k], Done)
       /\ \A k \in WorkerIds : worker'[k].pc = worker[k].pc
       /\ \A k \in WorkerIds : Alive(worker[k]) => worker'[k].member = worker[k].member
  <2>1. \A k \in WorkerIds : worker'[k] \in Jobs
    BY <1>2, <1>8, <1>9
  <2>2. worker' \in [WorkerIds -> Jobs]
    <3>1. worker' = [k \in WorkerIds |-> worker'[k]]
      BY <1>1, <1>2
    <3> QED BY <2>1, <3>1
  <2>3. \A k \in WorkerIds : /\ WorkerOK(worker'[k], Done) /\ worker'[k].pc = worker[k].pc
                             /\ Alive(worker[k]) => worker'[k].member = worker[k].member
    BY <1>6, <1>7, <1>8, <1>9
  <2> QED BY <2>2, <2>3
<1>11. SlotsAccounted'
  <2>1. \A k \in WorkerIds : worker[k].pc \in {"handle", "backoff", "dlq", "dlqwait"} =>
          Alive(worker[k])
    BY DEF Alive
  <2> QED BY <1>1, <1>2, <1>10, <2>1, SlotsKept
<1>12. TypeOK'
  <2>1. \A k \in WorkerIds : Len(worker'[k].queue) < 3 * BatchSize
    BY <1>10 DEF WorkerOK
  <2> QED BY <1>1, <1>4, <1>5, <1>10, <1>o, <2>1 DEF IInv, TypeOK
<1>13. \A k \in WorkerIds : /\ Keeps(m, worker[k], worker'[k])
                            /\ worker'[k] # worker[k] =>
                                 /\ k <= made /\ worker'[k].pc # "none"
                                 /\ WorkerOK(worker'[k], Done')
  <2>1. ASSUME i # 0, Alive(worker[i])
        PROVE  Keeps(m, worker[i], worker'[i]) /\ worker'[i].pc # "none" /\ i <= made
    BY <1>7, <1>8, <2>1 DEF Keeps
  <2> QED BY <1>1, <1>9, <1>10, <2>1 DEF Keeps
<1> HIDE DEF c, f, s, ws
\* Workers that are in the map, and those that may mark records, do not change.
<1>14. ASSUME NEW q \in Partitions, ws[q] # 0
       PROVE  q # p /\ ws[q] \in 1..made /\ worker'[ws[q]] = worker[ws[q]]
  <2>1. q # p /\ ws[q] \in 1..made /\ ws[q] \in WorkerIds
    BY <1>2, <1>3, <1>14, <1>h DEF MapOK
  <2>2. Alive(worker[ws[q]]) => worker[ws[q]].part = q
    BY <1>14, <1>h DEF MapOK
  <2> QED BY <1>7, <1>9, <2>1, <2>2
<1>15. ASSUME NEW k \in 1..made, Active(worker'[k])
       PROVE  k # i /\ worker'[k] = worker[k]
  <2>1. k \in WorkerIds /\ k # 0
    BY <1>2
  <2> QED BY <1>7, <1>8, <1>9, <1>15, <2>1 DEF Active
<1>16. MapOK(m, d, s, ws, made, worker')
  BY <1>4, <1>14, <1>h DEF MapOK
<1>17. CallbackOK(m, d, f, b, ws, made, worker')
  <2>1. CASE cb.at = "lost"
    BY <1>5, <2>1, Fresh DEF CallbackOK
  <2>2. CASE cb.at # "lost"
    <3>1. b.at = "commit" /\ b.part = p /\ b.worker = i /\ p \in d.held
      BY <1>3, <1>4, <1>5, <2>2
    <3>2. i # 0 /\ Alive(worker'[i]) =>
            worker'[i].member = m /\ worker'[i].part = p /\ worker'[i].revoked
      BY <1>7, <1>8
    <3> QED BY <1>3, <3>1, <3>2 DEF CallbackOK
  <2> QED BY <2>1, <2>2
<1>18. ASSUME NEW k \in 1..made, Active(worker'[k]), worker'[k].member = m
       PROVE  /\ s = "run" => ws[worker'[k].part] = k
              /\ s # "leaving" /\ s # "gone"
  <2>1. worker'[k] = worker[k] /\ Active(worker[k]) /\ worker[k].member = m /\ cb.worker # k
    BY <1>15, <1>18 DEF i
  <2> QED BY <1>h, <2>1 DEF ActiveOK
<1>19. ActiveOK(m, s, b, ws, made, worker')
  BY <1>18 DEF ActiveOK
<1>20. FetchOK(d, f, s, ws, worker')
  BY <1>3 DEF FetchOK
<1>21. \A q \in Partitions : Front(d, f, q) = Front(c, f, q)
  BY <1>4 DEF Front
<1>22. FrontOK(d, f, ws, worker', Done)
  BY <1>4, <1>14, <1>21, <1>h DEF FrontOK
<1>23. MarkOK(d, Done)
  BY <1>4, <1>h DEF MarkOK
<1>24. OwnerOK(m, owner, joined[m], d, f, b, s)
  <2>1. s # "gone"
    BY <1>3, <1>h DEF OwnerOK
  <2>2. b.at # "lost"
    BY <1>5, Fresh
  <2>3. \A q \in Partitions : owner[q] = m <=> joined[m] /\ q \in d.held
    BY <1>4, <1>h DEF OwnerOK
  <2> QED BY <1>h, <2>1, <2>2, <2>3 DEF OwnerOK
<1>25. LateOK(m, d, made, worker', orphan')
  <2>1. \A k \in 1..made : Active(worker'[k]) /\ worker'[k].member = m =>
          worker'[k] = worker[k] /\ k # cb.worker
    BY <1>15 DEF i
  <2>2. CASE cb.at = "lost"
    <3>1. d.held = c.held \ {p} /\ d.mark[p] = 0 /\ \A q \in Partitions : d.mark[q] \in {0, c.mark[q]}
      BY <1>3, <1>4, <2>2
    <3>2. Orphaned(m, p) /\ made' = made
      BY <1>1, <2>2
    <3>3. \A e, V :
            /\ e.held = client[m].held \ {p} /\ e.mark[p] = 0
            /\ \A q \in Partitions : e.mark[q] \in {0, client[m].mark[q]}
            /\ \A k \in 1..made : Active(V[k]) /\ V[k].member = m =>
                 V[k] = worker[k] /\ k # callback[m].worker
            => LateOK(m, e, made, V, orphan')
      BY <1>3, <3>2, OrphanedFacts
    <3> QED BY <2>1, <3>1, <3>3 DEF c, cb
  <2>3. CASE cb.at # "lost"
    BY <1>1, <1>4, <1>h, <2>1, <2>3 DEF LateOK
  <2> QED BY <2>2, <2>3
<1>26. AdvanceOK(m, joined[m], committed, d, f, ws, made, worker', orphan')
  <2>p. \A k \in 1..made : Active(worker'[k]) /\ worker'[k].member = m =>
          worker'[k] = worker[k] /\ worker[k].part \in Partitions
    BY <1>2, <1>15, HereWorker DEF Active
  <2> SUFFICES ASSUME joined[m]
               PROVE  AdvanceOK(m, joined[m], committed, d, f, ws, made, worker', orphan)
    BY <1>o, <2>p, AdvanceMore DEF AdvanceOK
  <2>1. \A q \in Partitions : d.mark[q] = c.mark[q]
    BY <1>4, <1>h DEF OwnerOK
  <2>2. \A q \in Partitions : d.mark[q] # 0 /\ ~Left(orphan, q) => committed[q] <= d.mark[q]
    BY <1>h, <2>1 DEF AdvanceOK
  <2>3. ASSUME NEW k \in 1..made, Active(worker'[k]), worker'[k].member = m,
               ~Left(orphan, worker'[k].part), NEW x \in Pend(worker'[k])
        PROVE  committed[worker'[k].part] <= x /\ d.mark[worker'[k].part] <= x
    <3>1. worker'[k] = worker[k] /\ worker[k].part \in Partitions
      BY <2>3, <2>p
    <3> QED BY <1>h, <2>1, <2>3, <3>1 DEF AdvanceOK
  <2>4. \A q \in Partitions : ws[q] # 0 /\ Alive(worker'[ws[q]]) /\ ~Left(orphan, q) =>
          committed[q] <= Front(d, f, q) /\ d.mark[q] <= Front(d, f, q)
    BY <1>14, <1>21, <1>h, <2>1 DEF AdvanceOK
  <2> QED BY <2>2, <2>3, <2>4 DEF AdvanceOK
<1>27. MemberOK(m, owner', committed', joined'[m], client'[m], fetch'[m], callback'[m],
                session'[m], workers'[m], made', worker', Done', orphan')
  BY <1>1, <1>16, <1>17, <1>19, <1>20, <1>22, <1>23, <1>24, <1>25, <1>26
     DEF MemberOK, d, b, f, s, ws
<1> QED BY <1>1, <1>4, <1>5, <1>11, <1>12, <1>13, <1>27, <1>o, CommittedKept, StepInv

\* The client gets a partition, and is to read it from com on.
Gets(c, d, p, com) ==
    /\ d \in Clients /\ d.held = c.held \cup {p} /\ d.paused = c.paused \ {p}
    /\ \A q \in Partitions : d.pos[q] = IF q = p THEN com ELSE c.pos[q]
    /\ \A q \in Partitions : d.mark[q] = IF q = p THEN 0 ELSE c.mark[q]

LEMMA HeldFacts ==
    ASSUME IInv, NEW m \in Members, NEW p \in Partitions
    PROVE  StartOf(m, p) \in Positions /\ Gets(client[m], Held(m, p), p, StartOf(m, p))
<1>1. committed[p] \in Positions /\ end[p] \in Positions /\ 0 \in Positions /\ client[m] \in Clients
  BY Constants DEF IInv, TypeOK
<1>2. StartOf(m, p) \in Positions
  BY <1>1 DEF StartOf
<1> HIDE DEF StartOf
<1> QED BY <1>1, <1>2 DEF Clients, Held, Gets

\* What a worker begins above counts as done from then on.
LEMMA StartFacts ==
    ASSUME IInv, NEW m \in Members, NEW p \in Partitions, Assign(m, p), session[m] = "run"
    PROVE  /\ start' \in [Partitions -> Positions \cup {NoStart}] /\ Done \subseteq Done'
           /\ \A o \in 0..(StartOf(m, p) - 1) : Record(p, o) \in Done'
           /\ committed[p] <= StartOf(m, p)
<1> DEFINE k == StartOf(m, p)
<1>1. /\ committed[p] \in Positions /\ k \in Positions /\ Positions \subseteq Nat
      /\ start \in [Partitions -> Positions \cup {NoStart}]
      /\ committed[p] # 0 => k = committed[p]
      /\ \A o \in 0..(committed[p] - 1) : Record(p, o) \in Done
  BY HeldFacts, Constants DEF IInv, TypeOK, CommittedDone, StartOf
<1> SUFFICES /\ start' \in [Partitions -> Positions \cup {NoStart}] /\ Done \subseteq Done'
             /\ \A o \in 0..(k - 1) : Record(p, o) \in Done'
             /\ committed[p] <= k
  OBVIOUS
<1>2. /\ settled' = settled
      /\ start' = IF committed[p] # 0 THEN start ELSE [start EXCEPT ![p] = Max({@, k})]
  BY DEF Assign
<1> HIDE DEF k
<1>3. CASE committed[p] # 0
  <2>1. start' = start /\ k = committed[p]
    BY <1>1, <1>2, <1>3
  <2>2. Done' = Done
    BY <1>2, <2>1, DoneSame
  <2>3. committed[p] <= k
    BY <1>1, <2>1
  <2> QED BY <1>1, <2>1, <2>2, <2>3
<1>4. CASE committed[p] = 0
  <2> DEFINE x == Max({start[p], k})
  <2>1. start' = [start EXCEPT ![p] = x]
    BY <1>2, <1>4
  <2>2. x \in {start[p], k} /\ start[p] <= x /\ k <= x
    <3>1. start[p] \in Int /\ k \in Int
      <4>1. start[p] \in Positions \cup {NoStart}
        BY <1>1
      <4>2. NoStart \in Int
        BY DEF NoStart
      <4>3. Positions \subseteq Int
        BY <1>1
      <4> QED BY <1>1, <4>1, <4>2, <4>3
    <3> QED BY <3>1, MaxTwo, Zenon
  <2> HIDE DEF x
  <2>3. /\ start' \in [Partitions -> Positions \cup {NoStart}] /\ start'[p] = x
        /\ \A q \in Partitions : start'[q] = IF q = p THEN x ELSE start[q]
    BY <1>1, <2>1, <2>2
  <2>4. ASSUME NEW r \in Done PROVE r \in Done'
    <3>1. CASE r \in settled
      BY <1>2, <3>1 DEF Done
    <3>2. CASE r \in [part : Partitions, offset : Offsets] /\ r.offset < start[r.part]
      <4>1. r.part \in Partitions /\ r.offset \in Nat /\ start[r.part] \in Int /\ start'[r.part] \in Int
        <5>1. r.part \in Partitions /\ r.offset \in Nat
          BY <3>2, Constants
        <5>2. \A y \in Positions \cup {NoStart} : y \in Int
          <6>1. NoStart \in Int
            BY DEF NoStart
          <6>2. Positions \subseteq Int
            BY <1>1
          <6> QED BY <6>1, <6>2
        <5>3. \A q \in Partitions : start[q] \in Int /\ start'[q] \in Int
          BY <1>1, <2>3, <5>2
        <5> QED BY <5>1, <5>3
      <4>2. start[r.part] <= start'[r.part]
        BY <2>2, <2>3, <4>1
      <4>3. r.offset < start'[r.part]
        BY <3>2, <4>1, <4>2
      <4> QED BY <3>2, <4>3 DEF Done
    <3> QED BY <2>4, <3>1, <3>2 DEF Done
  <2>5. ASSUME NEW o \in 0..(k - 1) PROVE Record(p, o) \in Done'
    <3>1. o \in Offsets /\ o < start'[p]
      BY <1>1, <2>2, <2>3 DEF Offsets, Positions, NoStart
    <3> QED BY <3>1 DEF Done, Record
  <2>6. committed[p] <= k
    BY <1>1, <1>4
  <2> QED BY <2>3, <2>4, <2>5, <2>6
<1> QED BY <1>3, <1>4

\* What assign does to the client and to the owners, whether or not it starts a
\* worker.
LEMMA AssignFacts ==
    ASSUME IInv, NEW m \in Members, NEW p \in Partitions, Assign(m, p)
    PROVE  LET c == client[m]
               d == client'[m] IN
           /\ joined[m] /\ callback[m] = NoCallback /\ fetch[m] = <<>> /\ session[m] # "gone"
           /\ workers[m][p] = 0
           /\ UNCHANGED <<committed, joined, fetch, callback, session, sub, moves>>
           /\ UNCHANGED <<end, slots, settled, orphan>>
           /\ owner' \in [Partitions -> Members \cup {0}]
           /\ \A q \in Partitions : \A n \in Members : n # m => (owner'[q] = n <=> owner[q] = n)
           /\ client' \in [Members -> Clients] /\ \A n \in Members : n # m => client'[n] = client[n]
           /\ Gets(c, d, p, StartOf(m, p)) /\ MarkOK(d, Done)
           /\ OwnerOK(m, owner', TRUE, d, <<>>, NoCallback, session[m])
<1> DEFINE c == client[m]
           d == client'[m]
           e == Held(m, p)
           k == StartOf(m, p)
<1>1. /\ joined[m] /\ owner[p] = 0 /\ callback[m] = NoCallback /\ fetch[m] = <<>>
      /\ session[m] # "gone"
      /\ owner' = [owner EXCEPT ![p] = m] /\ client' = [client EXCEPT ![m] = e]
      /\ UNCHANGED <<committed, joined, fetch, callback, session, sub, moves>>
      /\ UNCHANGED <<end, slots, settled, orphan>>
  BY DEF Assign, MayCall, NoFetch
<1>2. c \in Clients /\ client \in [Members -> Clients] /\ owner \in [Partitions -> Members \cup {0}]
  BY DEF IInv, TypeOK
<1>g. Gets(c, e, p, k)
  BY <1>2, HeldFacts
<1> HIDE DEF e, k
<1>3. /\ e \in Clients /\ e.held = c.held \cup {p}
      /\ \A q \in Partitions : e.mark[q] = IF q = p THEN 0 ELSE c.mark[q]
  BY <1>g DEF Gets
<1>4. /\ d = e /\ client' \in [Members -> Clients]
      /\ \A n \in Members : n # m => client'[n] = client[n]
  BY <1>1, <1>2, <1>3
<1>5. /\ owner' \in [Partitions -> Members \cup {0}]
      /\ \A q \in Partitions : owner'[q] = IF q = p THEN m ELSE owner[q]
  BY <1>1, <1>2
<1>6. \A q \in Partitions : \A n \in Members : n # m => (owner'[q] = n <=> owner[q] = n)
  BY <1>1, <1>5, Constants
<1>h. /\ MapOK(m, c, session[m], workers[m], made, worker) /\ MarkOK(c, Done)
      /\ OwnerOK(m, owner, joined[m], c, fetch[m], callback[m], session[m])
  BY Here
<1> HIDE DEF c
<1>7. p \notin c.held /\ workers[m][p] = 0
  BY <1>1, <1>h, Constants DEF OwnerOK, MapOK
<1>8. MarkOK(e, Done)
  BY <1>3, <1>h DEF MarkOK
<1>9. OwnerOK(m, owner', TRUE, e, <<>>, NoCallback, session[m])
  BY <1>1, <1>3, <1>5, <1>h, Fresh DEF OwnerOK
<1> QED BY <1>1, <1>4, <1>5, <1>6, <1>7, <1>8, <1>9, <1>g DEF c, k

\* A runner that is shutting down is assigned a partition.
LEMMA AssignLateInv ==
    ASSUME IInv, NEW m \in Members, NEW p \in Partitions, Assign(m, p), session[m] # "run"
    PROVE  IInv'
<1> DEFINE c == client[m]
           d == client'[m]
           s == session[m]
           ws == workers[m]
<1>1. UNCHANGED <<worker, made, workers, start>>
  BY DEF Assign
<1>2. /\ joined[m] /\ callback[m] = NoCallback /\ fetch[m] = <<>> /\ s # "gone"
      /\ UNCHANGED <<committed, joined, fetch, callback, session, sub, moves>>
      /\ UNCHANGED <<end, slots, settled, orphan>>
      /\ owner' \in [Partitions -> Members \cup {0}]
      /\ \A q \in Partitions : \A n \in Members : n # m => (owner'[q] = n <=> owner[q] = n)
      /\ client' \in [Members -> Clients] /\ \A n \in Members : n # m => client'[n] = client[n]
      /\ d.held = c.held \cup {p}
      /\ \A q \in Partitions : d.mark[q] = IF q = p THEN 0 ELSE c.mark[q]
      /\ MarkOK(d, Done)
      /\ OwnerOK(m, owner', TRUE, d, <<>>, NoCallback, s)
  <2>1. /\ joined[m] /\ callback[m] = NoCallback /\ fetch[m] = <<>> /\ session[m] # "gone"
        /\ workers[m][p] = 0
    BY AssignFacts, Zenon
  <2>2. /\ UNCHANGED <<committed, joined, fetch, callback, session, sub, moves>>
        /\ UNCHANGED <<end, slots, settled, orphan>>
    BY DEF Assign
  <2>3. /\ owner' \in [Partitions -> Members \cup {0}]
        /\ \A q \in Partitions : \A n \in Members : n # m => (owner'[q] = n <=> owner[q] = n)
        /\ client' \in [Members -> Clients] /\ \A n \in Members : n # m => client'[n] = client[n]
    BY AssignFacts, Zenon
  <2>4. Gets(c, d, p, StartOf(m, p))
    BY AssignFacts, Zenon
  <2>5. MarkOK(d, Done) /\ OwnerOK(m, owner', TRUE, d, <<>>, NoCallback, session[m])
    BY AssignFacts, Zenon
  <2> QED BY <2>1, <2>2, <2>3, <2>4, <2>5 DEF Gets
<1>h. /\ MapOK(m, c, s, ws, made, worker) /\ ActiveOK(m, s, NoCallback, ws, made, worker)
      /\ LateOK(m, c, made, worker, orphan)
      /\ AdvanceOK(m, TRUE, committed, c, <<>>, ws, made, worker, orphan)
  BY <1>2, Here
<1>3. TypeOK'
  BY <1>1, <1>2 DEF IInv, TypeOK
<1> HIDE DEF c, d, s, ws
<1>4. \A q \in Partitions : ws[q] = 0
  BY <1>h DEF MapOK, s
<1>5. /\ MapOK(m, d, s, ws, made, worker) /\ FrontOK(d, <<>>, ws, worker, Done)
      /\ FetchOK(d, <<>>, s, ws, worker) /\ CallbackOK(m, d, <<>>, NoCallback, ws, made, worker)
  BY <1>4, Fresh DEF MapOK, FrontOK, FetchOK, CallbackOK
<1>6. LateOK(m, d, made, worker, orphan)
  BY <1>2, <1>h, Fresh DEF LateOK
<1>7. AdvanceOK(m, TRUE, committed, d, <<>>, ws, made, worker, orphan)
  <2>1. \A q \in Partitions : d.mark[q] # 0 /\ ~Left(orphan, q) => committed[q] <= d.mark[q]
    BY <1>2, <1>h DEF AdvanceOK
  <2>2. ASSUME NEW k \in 1..made, Active(worker[k]), worker[k].member = m,
               ~Left(orphan, worker[k].part), NEW x \in Pend(worker[k])
        PROVE  committed[worker[k].part] <= x /\ d.mark[worker[k].part] <= x
    <3>1. committed[worker[k].part] <= x /\ c.mark[worker[k].part] <= x
      BY <1>h, <2>2 DEF AdvanceOK
    <3>2. worker[k].part \in Partitions /\ x \in Nat
      BY <2>2, MarksHere
    <3> QED BY <1>2, <3>1, <3>2
  <2> QED BY <1>4, <2>1, <2>2 DEF AdvanceOK
<1>8. MemberOK(m, owner', committed', joined'[m], client'[m], fetch'[m], callback'[m],
               session'[m], workers'[m], made, worker, Done, orphan')
  <2>1. joined[m] = TRUE
    BY <1>2, Here
  <2>2. MemberOK(m, owner', committed, TRUE, d, <<>>, NoCallback, s, ws, made, worker, Done, orphan)
    BY <1>2, <1>5, <1>6, <1>7, <1>h DEF MemberOK
  <2> QED BY <1>1, <1>2, <2>1, <2>2 DEF d, s, ws
<1> QED BY <1>1, <1>2, <1>3, <1>8, CommittedKept, MemberInv

\* assign starts a worker.
LEMMA AssignRunInv ==
    ASSUME IInv, NEW m \in Members, NEW p \in Partitions, Assign(m, p), session[m] = "run"
    PROVE  IInv'
<1> DEFINE c == client[m]
           d == client'[m]
           ws == workers[m]
           us == workers'[m]
           i == made + 1
           k == StartOf(m, p)
           v == [NoWorker EXCEPT !.member = m, !.part = p, !.pc = "next"]
<1>1. /\ made < MaxWorkers /\ made' = made + 1
      /\ workers' = [workers EXCEPT ![m][p] = made + 1]
      /\ worker' = [worker EXCEPT ![made + 1] = v]
  BY DEF Assign
<1>2. /\ joined[m] /\ callback[m] = NoCallback /\ fetch[m] = <<>> /\ ws[p] = 0
      /\ UNCHANGED <<committed, joined, fetch, callback, session, sub, moves>>
      /\ UNCHANGED <<end, slots, settled, orphan>>
      /\ owner' \in [Partitions -> Members \cup {0}]
      /\ \A q \in Partitions : \A n \in Members : n # m => (owner'[q] = n <=> owner[q] = n)
      /\ client' \in [Members -> Clients] /\ \A n \in Members : n # m => client'[n] = client[n]
      /\ d \in Clients /\ d.held = c.held \cup {p} /\ d.paused = c.paused \ {p}
      /\ \A q \in Partitions : d.pos[q] = IF q = p THEN k ELSE c.pos[q]
      /\ \A q \in Partitions : d.mark[q] = IF q = p THEN 0 ELSE c.mark[q]
      /\ MarkOK(d, Done)
      /\ OwnerOK(m, owner', TRUE, d, <<>>, NoCallback, "run")
  <2>1. /\ joined[m] /\ callback[m] = NoCallback /\ fetch[m] = <<>> /\ session[m] # "gone"
        /\ workers[m][p] = 0
    BY AssignFacts, Zenon
  <2>2. /\ UNCHANGED <<committed, joined, fetch, callback, session, sub, moves>>
        /\ UNCHANGED <<end, slots, settled, orphan>>
    BY DEF Assign
  <2>3. /\ owner' \in [Partitions -> Members \cup {0}]
        /\ \A q \in Partitions : \A n \in Members : n # m => (owner'[q] = n <=> owner[q] = n)
        /\ client' \in [Members -> Clients] /\ \A n \in Members : n # m => client'[n] = client[n]
    BY AssignFacts, Zenon
  <2>4. Gets(c, d, p, k)
    BY AssignFacts, Zenon
  <2>5. MarkOK(d, Done) /\ OwnerOK(m, owner', TRUE, d, <<>>, NoCallback, session[m])
    BY AssignFacts, Zenon
  <2> QED BY <2>1, <2>2, <2>3, <2>4, <2>5 DEF Gets
<1>s. /\ start' \in [Partitions -> Positions \cup {NoStart}] /\ Done \subseteq Done'
      /\ \A o \in 0..(k - 1) : Record(p, o) \in Done'
      /\ committed[p] \in Nat /\ k \in Nat /\ committed[p] <= k
  <2>1. committed[p] \in Positions /\ k \in Positions
    BY HeldFacts DEF IInv, TypeOK
  <2> QED BY <2>1, StartFacts, Constants
<1> HIDE DEF k
<1>3. /\ worker \in [WorkerIds -> Jobs] /\ made \in 0..MaxWorkers /\ made \in Nat
      /\ 1..made \subseteq WorkerIds
      /\ workers \in [Members -> [Partitions -> 0..MaxWorkers]]
  <2>1. workers \in [Members -> [Partitions -> 0..MaxWorkers]]
    BY DEF IInv, TypeOK
  <2> QED BY <2>1, MadeIds
<1>4. /\ i \in WorkerIds /\ i \in 0..MaxWorkers /\ i > made /\ i # 0 /\ i \in 1..i
      /\ \A n \in 1..i : n = i \/ n \in 1..made
      /\ \A n \in 1..made : n # i /\ n # 0 /\ n \in 1..i
  <2>1. i \in WorkerIds /\ i = made + 1
    <3>1. made \in Nat /\ MaxWorkers \in Nat /\ made < MaxWorkers
      BY <1>1, <1>3, Constants
    <3> QED BY <3>1 DEF WorkerIds
  <2>2. i \in Nat /\ i \in 0..MaxWorkers /\ i > made /\ i # 0
    BY <1>3, <2>1, Constants
  <2>3. /\ i \in 1..i
        /\ \A n \in 1..i : n = i \/ n \in 1..made
        /\ \A n \in 1..made : n # i /\ n # 0 /\ n \in 1..i
    BY <1>3, NextId
  <2> QED BY <2>1, <2>2, <2>3
<1>5. /\ v \in Jobs /\ v.pc = "next" /\ v.member = m /\ v.part = p /\ v.queue = <<>>
      /\ ~v.revoked /\ ~v.paused
  BY Fresh DEF Jobs
<1> HIDE DEF v
<1>6. /\ worker' \in [WorkerIds -> Jobs] /\ worker'[i] = v
      /\ \A n \in WorkerIds : n # i => worker'[n] = worker[n]
      /\ \A n \in 1..made : worker'[n] = worker[n]
  BY <1>1, <1>3, <1>4, <1>5
<1>7. /\ workers' \in [Members -> [Partitions -> 0..MaxWorkers]]
      /\ \A q \in Partitions : us[q] = IF q = p THEN i ELSE ws[q]
      /\ \A n \in Members : n # m => workers'[n] = workers[n]
  BY <1>1, <1>3, <1>4
<1>8. Alive(v) /\ Active(v) /\ Pend(v) = {} /\ Len(v.queue) = 0
  <2>1. Alive(v) /\ ~HasRecord(v)
    BY <1>5 DEF Alive, HasRecord
  <2> QED BY <1>5, <2>1, PendEmpty, EmptySeq DEF Active
<1>9. WorkerOK(v, Done)
  BY <1>5, <1>8, Constants DEF WorkerOK, HasRecord
<1>10. TypeOK'
  <2>1. \A n \in WorkerIds : Len(worker'[n].queue) < 3 * BatchSize
    <3>1. Len(v.queue) < 3 * BatchSize
      BY <1>9 DEF WorkerOK
    <3> QED BY <1>6, <3>1 DEF IInv, TypeOK
  <2> QED BY <1>1, <1>2, <1>4, <1>6, <1>7, <1>s, <2>1 DEF IInv, TypeOK
<1>11. SlotsAccounted'
  <2>1. \A n \in Members : {a \in 1..made' : worker'[a].member = n
                              /\ worker'[a].pc \in {"handle", "backoff", "dlq", "dlqwait"}}
          = {a \in 1..made : worker[a].member = n
                              /\ worker[a].pc \in {"handle", "backoff", "dlq", "dlqwait"}}
    BY <1>1, <1>4, <1>5, <1>6
  <2> QED BY <1>2, <2>1 DEF IInv, SlotsAccounted, InProcess
<1>h. /\ MapOK(m, c, "run", ws, made, worker) /\ ActiveOK(m, "run", NoCallback, ws, made, worker)
      /\ FrontOK(c, <<>>, ws, worker, Done)
      /\ LateOK(m, c, made, worker, orphan)
      /\ AdvanceOK(m, TRUE, committed, c, <<>>, ws, made, worker, orphan)
  <2>1. session[m] = "run" /\ callback[m] = NoCallback /\ fetch[m] = <<>> /\ joined[m] = TRUE
    BY <1>2, Here
  <2>2. /\ MapOK(m, c, session[m], ws, made, worker)
        /\ ActiveOK(m, session[m], callback[m], ws, made, worker)
        /\ FrontOK(c, fetch[m], ws, worker, Done)
        /\ LateOK(m, c, made, worker, orphan)
        /\ AdvanceOK(m, joined[m], committed, c, fetch[m], ws, made, worker, orphan)
    BY Here
  <2> QED BY <2>1, <2>2
<1> HIDE DEF c, d, ws, us, i
\* No worker of m that may mark records is one of p.
<1>12. ASSUME NEW a \in 1..made, Active(worker[a]), worker[a].member = m
       PROVE  worker[a].part # p /\ worker[a].part \in Partitions /\ ws[worker[a].part] = a
  <2>1. a \in WorkerIds /\ a # 0 /\ NoCallback.worker = 0
    BY <1>3, <1>4, Fresh
  <2>2. ws[worker[a].part] = a
    BY <1>12, <1>h, <2>1 DEF ActiveOK
  <2>3. worker[a].part \in Partitions
    BY <1>12, <2>1, HereWorker DEF Active
  <2> QED BY <1>2, <2>1, <2>2, <2>3
<1>13. WorkersOK'
  <2>1. ASSUME NEW a \in WorkerIds
        PROVE  WorkerOK(worker'[a], Done') /\ (a > made' <=> worker'[a].pc = "none")
    <3>1. WorkerOK(worker[a], Done) /\ (a > made <=> worker[a].pc = "none") /\ a \in Nat
      BY DEF IInv, WorkersOK, WorkerIds
    <3>2. WorkerOK(worker[a], Done') /\ WorkerOK(v, Done')
      BY <1>9, <1>s, <3>1, WorkerOKMore
    <3>3. CASE a = i
      <4>1. ~(a > made')
        BY <1>1, <1>3, <3>3 DEF i
      <4> QED BY <1>5, <1>6, <3>2, <3>3, <4>1
    <3>4. CASE a # i
      <4>1. a > made' <=> a > made
        BY <1>1, <1>3, <3>1, <3>4 DEF i
      <4> QED BY <1>6, <3>1, <3>2, <3>4, <4>1
    <3> QED BY <3>3, <3>4
  <2>2. ASSUME NEW a \in 1..i, NEW b \in 1..i, Active(worker'[a]), Active(worker'[b]),
               worker'[a].member = worker'[b].member, worker'[a].part = worker'[b].part
        PROVE  a = b
    <3>1. CASE a \in 1..made /\ b \in 1..made
      BY <1>6, <2>2, <3>1 DEF IInv, WorkersOK
    <3>2. CASE a = i /\ b \in 1..made
      BY <1>5, <1>6, <1>12, <2>2, <3>2
    <3>3. CASE b = i /\ a \in 1..made
      BY <1>5, <1>6, <1>12, <2>2, <3>3
    <3> QED BY <1>4, <3>1, <3>2, <3>3
  <2>3. 1..made' = 1..i
    BY <1>1 DEF i
  <2>4. \A a \in WorkerIds : a > made' => orphan'[a] = 0
    <3>1. \A a \in WorkerIds : a > made' => a > made
      BY <1>1, <1>3 DEF WorkerIds
    <3> QED BY <1>2, <3>1 DEF IInv, WorkersOK
  <2> QED BY <2>1, <2>2, <2>3, <2>4 DEF WorkersOK
\* The member itself.
<1>14. ASSUME NEW q \in Partitions, us[q] # 0
       PROVE  \/ q = p /\ us[q] = i /\ worker'[us[q]] = v
              \/ /\ q # p /\ us[q] = ws[q] /\ ws[q] # 0 /\ ws[q] \in 1..made
                 /\ worker'[us[q]] = worker[ws[q]]
  BY <1>6, <1>7, <1>14, <1>h DEF MapOK
<1>15. ASSUME NEW a \in 1..i, Active(worker'[a]), worker'[a].member = m
       PROVE  \/ a = i /\ worker'[a] = v
              \/ a \in 1..made /\ worker'[a] = worker[a] /\ worker[a].part # p
                 /\ worker[a].part \in Partitions /\ ws[worker[a].part] = a
  BY <1>4, <1>6, <1>12, <1>15
<1>16. MapOK(m, d, "run", us, i, worker')
  <2> SUFFICES ASSUME NEW q \in Partitions, us[q] # 0
               PROVE  /\ q \in d.held /\ us[q] \in 1..i
                      /\ Alive(worker'[us[q]]) => /\ worker'[us[q]].member = m
                                                  /\ worker'[us[q]].part = q
                                                  /\ ~worker'[us[q]].revoked
    BY DEF MapOK
  <2>1. CASE q = p
    BY <1>2, <1>4, <1>5, <1>14, <2>1
  <2>2. CASE q # p
    BY <1>2, <1>4, <1>14, <1>h, <2>2 DEF MapOK
  <2> QED BY <2>1, <2>2
<1>17. CallbackOK(m, d, <<>>, NoCallback, us, i, worker') /\ FetchOK(d, <<>>, "run", us, worker')
  BY Fresh DEF CallbackOK, FetchOK
<1>18. ActiveOK(m, "run", NoCallback, us, i, worker')
  <2>1. ASSUME NEW a \in 1..i, Active(worker'[a]), worker'[a].member = m
        PROVE  us[worker'[a].part] = a
    <3>1. CASE a = i /\ worker'[a] = v
      BY <1>5, <1>7, <3>1
    <3>2. CASE ~(a = i /\ worker'[a] = v)
      BY <1>7, <1>15, <2>1, <3>2
    <3> QED BY <3>1, <3>2
  <2> QED BY <2>1 DEF ActiveOK
<1>19. \A q \in Partitions : Front(d, <<>>, q) = IF q = p THEN k ELSE Front(c, <<>>, q)
  BY <1>2 DEF Front
<1>20. FrontOK(d, <<>>, us, worker', Done')
  <2> SUFFICES ASSUME NEW q \in Partitions, us[q] # 0, Alive(worker'[us[q]])
               PROVE  /\ \A x \in Pend(worker'[us[q]]) : x < Front(d, <<>>, q)
                      /\ \A o \in 0..(Front(d, <<>>, q) - 1) :
                           Record(q, o) \in Done' \/ o \in Pend(worker'[us[q]])
                      /\ worker'[us[q]].paused => q \in d.paused
    BY DEF FrontOK
  <2>1. CASE q = p
    BY <1>5, <1>8, <1>14, <1>19, <1>s, <2>1
  <2>2. CASE q # p
    BY <1>2, <1>14, <1>19, <1>h, <1>s, <2>2 DEF FrontOK
  <2> QED BY <2>1, <2>2
<1>21. LateOK(m, d, i, worker', orphan) /\ MarkOK(d, Done')
  <2>1. \A q \in Partitions : d.mark[q] # 0 => q \in d.held \/ Left(orphan, q)
    BY <1>2, <1>h DEF LateOK
  <2>2. ASSUME NEW a \in 1..i, Active(worker'[a]), worker'[a].member = m
        PROVE  (orphan[a] = 0 /\ worker'[a].part \in d.held) \/ orphan[a] = worker'[a].part
    <3>1. CASE a = i
      <4>1. orphan[i] = 0
        BY <1>4 DEF IInv, WorkersOK
      <4> QED BY <1>2, <1>5, <1>6, <3>1, <4>1
    <3>2. CASE a # i
      BY <1>2, <1>15, <1>h, <2>2, <3>2 DEF LateOK
    <3> QED BY <3>1, <3>2
  <2>3. MarkOK(d, Done')
    BY <1>2, <1>s DEF MarkOK
  <2> QED BY <2>1, <2>2, <2>3 DEF LateOK
<1>22. AdvanceOK(m, TRUE, committed, d, <<>>, us, i, worker', orphan)
  <2>1. \A q \in Partitions : d.mark[q] # 0 /\ ~Left(orphan, q) => committed[q] <= d.mark[q]
    BY <1>2, <1>h DEF AdvanceOK
  <2>2. ASSUME NEW a \in 1..i, Active(worker'[a]), worker'[a].member = m,
               ~Left(orphan, worker'[a].part), NEW x \in Pend(worker'[a])
        PROVE  committed[worker'[a].part] <= x /\ d.mark[worker'[a].part] <= x
    <3>1. a \in 1..made /\ worker'[a] = worker[a] /\ worker[a].part # p /\ worker[a].part \in Partitions
      BY <1>8, <1>15, <2>2
    <3>2. committed[worker[a].part] <= x /\ c.mark[worker[a].part] <= x
      BY <1>h, <2>2, <3>1 DEF AdvanceOK
    <3> QED BY <1>2, <3>1, <3>2
  <2>3. ASSUME NEW q \in Partitions, us[q] # 0, Alive(worker'[us[q]]), ~Left(orphan, q)
        PROVE  committed[q] <= Front(d, <<>>, q) /\ d.mark[q] <= Front(d, <<>>, q)
    <3>1. CASE q = p
      BY <1>2, <1>19, <1>s, <3>1
    <3>2. CASE q # p
      BY <1>2, <1>14, <1>19, <1>h, <2>3, <3>2 DEF AdvanceOK
    <3> QED BY <3>1, <3>2
  <2> QED BY <2>1, <2>2, <2>3 DEF AdvanceOK
<1>23. MembersOK'
  <2> SUFFICES ASSUME NEW n \in Members
               PROVE  MemberOK(n, owner', committed', joined'[n], client'[n], fetch'[n],
                               callback'[n], session'[n], workers'[n], made', worker', Done', orphan')
    BY DEF MembersOK
  <2>1. CASE n = m
    <3>1. joined[m] = TRUE /\ made' = i
      BY <1>1, <1>2, Here DEF i
    <3>2. MemberOK(m, owner', committed, TRUE, d, <<>>, NoCallback, "run", us, i, worker', Done', orphan)
      BY <1>2, <1>16, <1>17, <1>18, <1>20, <1>21, <1>22 DEF MemberOK
    <3> QED BY <1>2, <2>1, <3>1, <3>2 DEF d, us
  <2>2. CASE n # m
    <3>1. /\ \A q \in Partitions : owner'[q] = n <=> owner[q] = n
          /\ \A a \in 1..made : Keeps(m, worker[a], worker'[a])
          /\ i \in made..(made + 1) /\ worker'[i].member = m
      BY <1>2, <1>3, <1>5, <1>6, <2>2 DEF Keeps, i
    <3>2. MemberOK(n, owner', committed, joined[n], client[n], fetch[n], callback[n], session[n],
                   workers[n], i, worker', Done', orphan)
      BY <1>s, <2>2, <3>1, OthersKept
    <3> QED BY <1>1, <1>2, <1>7, <2>2, <3>2 DEF i
  <2> QED BY <2>1, <2>2
<1>24. CommittedDone'
  BY <1>2, <1>s DEF IInv, CommittedDone
<1> QED BY <1>10, <1>11, <1>13, <1>23, <1>24 DEF IInv

-------------------------------------------------------------------------------
(* Every step. *)

\* assign, whatever the state of the runner.
LEMMA AssignInv ==
    ASSUME IInv, NEW m \in Members, NEW p \in Partitions, Assign(m, p) PROVE IInv'
BY AssignLateInv, AssignRunInv

\* A step of a partition worker.
LEMMA WorkerStepInv == ASSUME IInv, NEW i \in WorkerIds, WorkerStep(i) PROVE IInv'
<1>1. CASE TakeNext(i)
  BY <1>1, TakeNextInv
<1>2. CASE WorkerStops(i)
  BY <1>2, WorkerStopsInv
<1>3. CASE Acquire(i)
  BY <1>3, AcquireInv
<1>4. CASE HandlerSucceeds(i)
  BY <1>4, HandlerSucceedsInv
<1>5. CASE HandlerFails(i)
  BY <1>5, HandlerFailsInv
<1>6. CASE Waited(i)
  BY <1>6, WaitedInv
<1>7. CASE WaitStops(i)
  BY <1>7, WaitStopsInv
<1>8. CASE DeadLetter(i)
  BY <1>8, DeadLetterInv
<1>9. CASE DeadLetterFails(i)
  BY <1>9, DeadLetterFailsInv
<1>10. CASE Complete(i)
  BY <1>10, CompleteInv
<1> QED BY <1>1, <1>2, <1>3, <1>4, <1>5, <1>6, <1>7, <1>8, <1>9, <1>10 DEF WorkerStep

\* A step of a member and its client.
LEMMA MemberStepInv == ASSUME IInv, NEW m \in Members, MemberStep(m) PROVE IInv'
<1>1. CASE \E p \in Partitions : Assign(m, p) \/ LoseBegins(m, p)
  BY <1>1, AssignInv, LoseBeginsInv
<1>2. CASE CancelWorkers(m)
  BY <1>2, CancelWorkersInv
<1>3. CASE HandOver(m)
  BY <1>3, HandOverInv
<1>4. CASE RevokeCommits(m)
  BY <1>4, RevokeCommitsInv
<1>5. CASE AutoCommit(m)
  BY <1>5, AutoCommitInv
<1>6. CASE Rejoin(m)
  BY <1>6, RejoinInv
<1>7. CASE Poll(m)
  BY <1>7, PollInv
<1>8. CASE Dispatch(m)
  BY <1>8, DispatchInv
<1>9. CASE ShutdownEnds(m)
  BY <1>9, ShutdownEndsInv
<1>10. CASE Leave(m)
  BY <1>10, LeaveInv
<1>11. CASE Rebuild(m)
  BY <1>11, RebuildInv
<1> QED BY <1>1, <1>2, <1>3, <1>4, <1>5, <1>6, <1>7, <1>8, <1>9, <1>10, <1>11 DEF MemberStep

\* The log grows.
LEMMA EndInv ==
    ASSUME IInv, end' \in [Partitions -> Positions],
           UNCHANGED <<owner, committed, joined, client, fetch, callback, session>>,
           UNCHANGED <<sub, workers, worker, slots, settled, start, orphan, made, moves>>
    PROVE  IInv'
<1>1. Done' = Done
  BY DoneSame
<1>2. TypeOK'
  BY DEF IInv, TypeOK
<1>3. WorkersOK'
  BY <1>1 DEF IInv, WorkersOK
<1>4. MembersOK'
  BY <1>1 DEF IInv, MembersOK
<1>5. SlotsAccounted' /\ CommittedDone'
  BY <1>1 DEF IInv, SlotsAccounted, InProcess, CommittedDone
<1> QED BY <1>2, <1>3, <1>4, <1>5 DEF IInv

LEMMA PublishInv == ASSUME IInv, NEW p \in Partitions, Publish(p) PROVE IInv'
<1>1. end \in [Partitions -> Positions] /\ end[p] \in Positions
  BY DEF IInv, TypeOK
<1>2. end[p] <= LastOffset /\ end' = [end EXCEPT ![p] = @ + 1]
  BY DEF Publish
<1>3. end[p] + 1 \in Positions
  BY <1>1, <1>2, Constants DEF Positions
<1>4. end' \in [Partitions -> Positions]
  BY <1>1, <1>2, <1>3
<1> QED BY <1>4, EndInv DEF Publish, history

\* Nothing happens.
LEMMA StutterInv == ASSUME IInv, UNCHANGED vars PROVE IInv'
<1>1. end' \in [Partitions -> Positions]
  BY DEF vars, IInv, TypeOK
<1> QED BY <1>1, EndInv DEF vars

LEMMA NextInv == ASSUME IInv, [Next]_vars PROVE IInv'
<1>1. CASE \E i \in WorkerIds : WorkerStep(i)
  BY <1>1, WorkerStepInv
<1>2. ASSUME NEW m \in Members,
             \/ MemberStep(m) \/ Kick(m) \/ Stop(m) \/ Abort(m) \/ ShutdownBegins(m)
             \/ \E p \in Partitions : RevokeBegins(m, p)
      PROVE  IInv'
  <2>1. CASE MemberStep(m)
    BY <2>1, MemberStepInv
  <2>2. CASE Kick(m)
    BY <2>2, KickInv
  <2>3. CASE Stop(m) \/ Abort(m)
    BY <2>3, StopInv
  <2>4. CASE ShutdownBegins(m)
    BY <2>4, ShutdownBeginsInv
  <2>5. CASE \E p \in Partitions : RevokeBegins(m, p)
    BY <2>5, RevokeBeginsInv
  <2> QED BY <1>2, <2>1, <2>2, <2>3, <2>4, <2>5
<1>3. CASE \E p \in Partitions : Publish(p)
  BY <1>3, PublishInv
<1>4. CASE UNCHANGED vars
  BY <1>4, StutterInv
<1> QED BY <1>1, <1>2, <1>3, <1>4 DEF Next

-------------------------------------------------------------------------------
(* The theorems. *)

\* The inductive invariant holds in every state of the group.
THEOREM Invariance == Spec => []IInv
BY InitInv, NextInv, PTL DEF Spec

\* The state is well typed, and the backlog of a worker stays below three
\* batches: the partition is paused from two on, and one may be under way.
THEOREM TypeCorrect == Spec => []TypeOK
<1>1. IInv => TypeOK
  BY DEF IInv
<1> QED BY <1>1, Invariance, PTL

\* No record below a committed offset is lost, whatever rebalances, evictions,
\* stops and lost clients there are, during a shutdown too, but for those below
\* the position a worker began at while nothing was committed.
THEOREM NothingLost == Spec => []CommittedIsSettled
<1>1. ASSUME IInv PROVE CommittedIsSettled
  <2> SUFFICES ASSUME NEW p \in Partitions, NEW o \in 0..(committed[p] - 1)
               PROVE  o < start[p] \/ Record(p, o) \in settled
    BY DEF CommittedIsSettled
  <2>1. Record(p, o) \in Done
    BY <1>1 DEF IInv, CommittedDone
  <2> QED BY <2>1 DEF Done, Record
<1> QED BY <1>1, Invariance, PTL

\* Where the start position of a partition comes from.
LEMMA WhoStarts ==
    ASSUME [Next]_vars
    PROVE  \/ start' = start
           \/ \E m \in Members, p \in Partitions :
                committed[p] = 0 /\ start' = [start EXCEPT ![p] = Max({@, StartOf(m, p)})]
<1>1. ASSUME NEW i \in WorkerIds, WorkerStep(i) PROVE start' = start
  BY <1>1 DEF WorkerStep, TakeNext, WorkerStops, Acquire, HandlerSucceeds, HandlerFails, Waited,
              WaitStops, DeadLetter, DeadLetterFails, Complete, Same, history
<1>2. ASSUME NEW m \in Members, NEW p \in Partitions, Assign(m, p)
      PROVE  \/ start' = start
             \/ committed[p] = 0 /\ start' = [start EXCEPT ![p] = Max({@, StartOf(m, p)})]
  BY <1>2 DEF Assign
<1>3. ASSUME NEW m \in Members, MemberStep(m), \A p \in Partitions : ~Assign(m, p)
      PROVE  start' = start
  BY <1>3 DEF MemberStep, LoseBegins, CancelWorkers, HandOver, RevokeCommits, AutoCommit, Rejoin,
              Poll, Dispatch, ShutdownEnds, Leave, Rebuild, history
<1>4. ASSUME NEW m \in Members,
             \/ Kick(m) \/ Stop(m) \/ Abort(m) \/ ShutdownBegins(m)
             \/ \E p \in Partitions : RevokeBegins(m, p)
      PROVE  start' = start
  BY <1>4 DEF Kick, Stop, Abort, ShutdownBegins, RevokeBegins, history
<1>5. ASSUME NEW p \in Partitions, Publish(p) PROVE start' = start
  BY <1>5 DEF Publish, history
<1>6. CASE UNCHANGED vars
  BY <1>6 DEF vars
<1> QED BY <1>1, <1>2, <1>3, <1>4, <1>5, <1>6 DEF Next

\* When every subscription asks for the earliest start, all that lies below a
\* committed offset has been handled or is in the dead letter topic.
THEOREM NothingLostFromEarliest ==
    Earliest = Members =>
      (Spec => [](\A p \in Partitions : \A o \in 0..(committed[p] - 1) : Record(p, o) \in settled))
<1> DEFINE FromZero == \A p \in Partitions : start[p] \in {NoStart, 0}
           Handled == \A p \in Partitions : \A o \in 0..(committed[p] - 1) : Record(p, o) \in settled
<1> SUFFICES ASSUME Earliest = Members PROVE Spec => []Handled
  OBVIOUS
<1>1. Init => FromZero
  BY DEF Init
<1>2. ASSUME IInv, FromZero, [Next]_vars PROVE FromZero'
  <2>1. CASE start' = start
    BY <1>2, <2>1
  <2>2. ASSUME NEW m \in Members, NEW p \in Partitions, committed[p] = 0,
               start' = [start EXCEPT ![p] = Max({@, StartOf(m, p)})]
        PROVE  FromZero'
    <3>1. StartOf(m, p) = 0
      BY <2>2 DEF StartOf
    <3>2. Max({start[p], 0}) \in {start[p], 0}
      <4>1. start[p] \in Int /\ 0 \in Int
        BY <1>2 DEF NoStart
      <4> QED BY <4>1, MaxTwo
    <3>3. /\ start \in [Partitions -> Positions \cup {NoStart}]
          /\ start' = [start EXCEPT ![p] = Max({start[p], 0})]
      BY <1>2, <2>2, <3>1 DEF IInv, TypeOK
    <3>4. \A q \in Partitions : start'[q] \in {start[q], 0}
      BY <3>2, <3>3
    <3> QED BY <1>2, <3>4
  <2> QED BY <1>2, <2>1, <2>2, WhoStarts
<1>3. ASSUME IInv, FromZero PROVE Handled
  <2> SUFFICES ASSUME NEW p \in Partitions, NEW o \in 0..(committed[p] - 1)
               PROVE  Record(p, o) \in settled
    OBVIOUS
  <2>1. Record(p, o) \in Done /\ committed[p] \in Nat
    BY <1>3, Constants DEF IInv, CommittedDone, TypeOK
  <2>2. ~(o < start[p])
    BY <1>3, <2>1 DEF NoStart
  <2> QED BY <2>1, <2>2 DEF Done, Record
<1>4. FromZero /\ IInv /\ [Next]_vars => FromZero'
  BY <1>2
<1>5. FromZero /\ IInv => Handled
  BY <1>3
<1> HIDE DEF FromZero, Handled
<1> QED BY <1>1, <1>4, <1>5, Invariance, PTL DEF Spec

\* The taken slots of a subscription are exactly those of its records in
\* process, across rebalances and clients.
THEOREM SlotsExact == Spec => []SlotsAccounted
<1>1. IInv => SlotsAccounted
  BY DEF IInv
<1> QED BY <1>1, Invariance, PTL

\* A worker in process that is not cancelled, of a member, works on a partition
\* that its member owns, unless a callback gave it up during a shutdown.
LEMMA OwnedInProcess ==
    ASSUME IInv, NEW i \in 1..made, InProcess(i), ~Cancelled(i),
           joined[worker[i].member], orphan[i] = 0
    PROVE  /\ Active(worker[i]) /\ worker[i].member \in Members /\ worker[i].part \in Partitions
           /\ owner[worker[i].part] = worker[i].member
<1>1. Alive(worker[i]) /\ i \in WorkerIds
  <2>1. made \in 0..MaxWorkers
    BY DEF IInv, TypeOK
  <2> QED BY <2>1 DEF InProcess, Alive, WorkerIds
<1>2. worker[i].member \in Members /\ worker[i].part \in Partitions /\ WorkerOK(worker[i], Done)
  BY <1>1, HereWorker
<1>3. Active(worker[i])
  BY <1>1, <1>2 DEF Active, WorkerOK, Cancelled
<1> DEFINE m == worker[i].member
<1>4. /\ LateOK(m, client[m], made, worker, orphan)
      /\ OwnerOK(m, owner, joined[m], client[m], fetch[m], callback[m], session[m])
  BY <1>2, Here
<1>5. worker[i].part \in client[m].held
  BY <1>2, <1>3, <1>4, Constants DEF LateOK
<1>6. owner[worker[i].part] = m
  BY <1>2, <1>4, <1>5 DEF OwnerOK
<1> QED BY <1>2, <1>3, <1>6

\* A partition's records are processed by one worker at a time, unless its
\* context is cancelled, the broker has removed it, or a callback gave the
\* partition up while shutdown was waiting for it.
THEOREM OneAtATime == Spec => []OneWorkerPerPartition
<1>1. IInv => OneWorkerPerPartition
  <2> SUFFICES ASSUME IInv, NEW i \in 1..made, NEW j \in 1..made, i # j, InProcess(i), InProcess(j),
                      worker[i].part = worker[j].part,
                      ~Cancelled(i), joined[worker[i].member], orphan[i] = 0,
                      ~Cancelled(j), joined[worker[j].member], orphan[j] = 0
               PROVE  FALSE
    BY DEF OneWorkerPerPartition
  <2>1. Active(worker[i]) /\ owner[worker[i].part] = worker[i].member
    BY OwnedInProcess
  <2>2. Active(worker[j]) /\ owner[worker[j].part] = worker[j].member
    BY OwnedInProcess
  <2>3. worker[i].member = worker[j].member
    BY <2>1, <2>2
  <2> QED BY <2>1, <2>2, <2>3 DEF IInv, WorkersOK
<1> QED BY <1>1, Invariance, PTL

\* Who commits is a member that commits its marks.
LEMMA WhoCommits ==
    ASSUME [Next]_vars
    PROVE  committed' = committed \/ \E m \in Members : joined[m] /\ CommitMarked(m)
<1>1. ASSUME NEW i \in WorkerIds, WorkerStep(i) PROVE committed' = committed
  BY <1>1 DEF WorkerStep, TakeNext, WorkerStops, Acquire, HandlerSucceeds, HandlerFails, Waited,
              WaitStops, DeadLetter, DeadLetterFails, Complete, Same, broker
<1>2. ASSUME NEW m \in Members, MemberStep(m)
      PROVE  committed' = committed \/ (joined[m] /\ CommitMarked(m))
  <2>1. CASE \E p \in Partitions : Assign(m, p) \/ LoseBegins(m, p)
    BY <2>1 DEF Assign, LoseBegins, broker
  <2>2. CASE CancelWorkers(m) \/ HandOver(m) \/ Rejoin(m) \/ Poll(m) \/ Dispatch(m) \/ Rebuild(m)
    BY <2>2 DEF CancelWorkers, HandOver, Rejoin, Poll, Dispatch, Rebuild, broker
  <2>3. CASE RevokeCommits(m) \/ AutoCommit(m) \/ ShutdownEnds(m) \/ Leave(m)
    BY <2>3 DEF RevokeCommits, AutoCommit, ShutdownEnds, Leave, Commit
  <2> QED BY <1>2, <2>1, <2>2, <2>3 DEF MemberStep
<1>3. ASSUME NEW m \in Members,
             \/ Kick(m) \/ Stop(m) \/ Abort(m) \/ ShutdownBegins(m)
             \/ \E p \in Partitions : RevokeBegins(m, p)
      PROVE  committed' = committed
  BY <1>3 DEF Kick, Stop, Abort, ShutdownBegins, RevokeBegins, broker
<1>4. ASSUME NEW p \in Partitions, Publish(p) PROVE committed' = committed
  BY <1>4 DEF Publish
<1>5. CASE UNCHANGED vars
  BY <1>5 DEF vars
<1> QED BY <1>1, <1>2, <1>3, <1>4, <1>5 DEF Next

\* A committed offset never goes back, unless a callback gave the partition up
\* while shutdown was waiting for its worker.
THEOREM NoCommitBack == Spec => CommitsAdvance
<1>1. ASSUME IInv, [Next]_vars, NEW p \in Partitions, \A i \in WorkerIds : orphan[i] # p
      PROVE  committed'[p] >= committed[p]
  <2>1. CASE committed' = committed
    <3>1. committed[p] \in Nat
      BY <1>1, Constants DEF IInv, TypeOK
    <3> QED BY <2>1, <3>1
  <2>2. CASE \E m \in Members : joined[m] /\ CommitMarked(m)
    BY <1>1, <2>2, CommitFacts DEF Left
  <2> QED BY <1>1, <2>1, <2>2, WhoCommits
<1>2. IInv /\ [Next]_vars =>
        [\A p \in Partitions :
          (\A i \in WorkerIds : orphan[i] # p) => committed'[p] >= committed[p]]_vars
  BY <1>1
<1> QED BY <1>2, Invariance, PTL DEF Spec, CommitsAdvance
===============================================================================
