--------------------------- MODULE RedisStreamProofs ---------------------------
(***************************************************************************)
(* Proofs about RedisStream for any number of clients, workers and         *)
(* entries, any queue depth, batch size and delivery budget, and any       *)
(* number of faults.                                                       *)
(***************************************************************************)
EXTENDS RedisStream, FiniteSetTheorems, SequenceTheorems, TLAPS

(***************************************************************************)
(* The parts of the inductive invariant.  Those about one client are       *)
(* written over the values of its variables.                               *)
(***************************************************************************)

\* What the group has delivered and no longer keeps has been settled, if the
\* group starts at the first entry.
Settled ==
    /\ last <= published
    /\ FromStart /\ group => \A e \in 1..last : Pending(e) \/ e \in handled \/ e \in dlq

\* How the lifecycle and runSubscription go together.
LifeOK(st, os, sb, poll, r) ==
    /\ "subscribe" \in os => sb = "none"
    /\ sb = "tracked" <=> r # "off"
    /\ st = "closed" => os = {} /\ sb # "tracked"
    /\ poll => r = "run"

\* Loops and workers end before the acknowledgement queue is closed, and that is
\* drained before the subscription ends.
EndsOK(r, ls, ws, aq, as) ==
    /\ \A p \in Producers : /\ ls[p].on => r = "run"
                            /\ ~ls[p].on => ls[p] = Off
                            /\ ls[p].marked => ls[p].msgs # {}
    /\ \A w \in Workers : /\ ws[w].pc \in {"idle", "exited"} \/ r = "run"
                          /\ ws[w].e = 0 <=> ws[w].pc \in {"idle", "exited"}
    /\ r = "off" => aq = <<>> /\ as = <<>>

\* What waits for its acknowledgement has been handled, or has a dead letter.
ResultsOK(ws, aq, as, hs, ds) ==
    /\ \A w \in Workers : /\ ws[w].pc = "ack" => ws[w].e \in hs
                          /\ ws[w].pc = "dlqack" => ws[w].e \in ds
    /\ \A i \in 1..Len(aq) : aq[i] \in hs
    /\ \A i \in 1..Len(as) : as[i] \in hs

\* The entries a client holds, by where it holds them.
Waits(ls) == {First(ls[p].msgs) : p \in {q \in Producers : ls[q].marked}}
Elems(s) == {s[i] : i \in 1..Len(s)}
Works(ws) == {ws[w].e : w \in Workers} \ {0}

Once(s) == \A i, j \in 1..Len(s) : s[i] = s[j] => i = j
Apart(A, B, C, D, E) ==
    /\ A \cap B = {} /\ A \cap C = {} /\ A \cap D = {} /\ A \cap E = {}
    /\ B \cap C = {} /\ B \cap D = {} /\ B \cap E = {}
    /\ C \cap D = {} /\ C \cap E = {} /\ D \cap E = {}

\* inFlight is made up of those, each in one place.
HeldOK(ls, fs, q, ws, aq, as) ==
    /\ fs = Waits(ls) \cup Elems(q) \cup Works(ws) \cup Elems(aq) \cup Elems(as)
    /\ Apart(Waits(ls), Elems(q), Works(ws), Elems(aq), Elems(as))
    /\ Once(q) /\ Once(aq) /\ Once(as)
    /\ \A v, w \in Workers : ws[v].e = ws[w].e /\ ws[v].e # 0 => v = w
    /\ \A p, o \in Producers :
         ls[p].marked /\ ls[o].marked /\ First(ls[p].msgs) = First(ls[o].msgs) => p = o

ClientsOK == \A c \in Clients :
    /\ LifeOK(state[c], ops[c], sub[c], pollCtx[c], runner[c])
    /\ EndsOK(runner[c], prod[c], worker[c], ackQueue[c], acks[c])
    /\ ResultsOK(worker[c], ackQueue[c], acks[c], handled, dlq)
    /\ HeldOK(prod[c], inFlight[c], queue[c], worker[c], ackQueue[c], acks[c])

IInv == TypeOK /\ Settled /\ ClientsOK

-------------------------------------------------------------------------------
(* Facts about entries, sequences and sets of them. *)

\* Entries are positive numbers.
LEMMA EntryFacts ==
    /\ MaxEntry \in Nat /\ Entries \subseteq Nat /\ 0 \notin Entries /\ 0 \in 0..MaxEntry
    /\ Entries \subseteq 0..MaxEntry
    /\ MaxDeliveryAttempts \in Nat /\ MaxDeliveryAttempts >= 1
    /\ QueueDepth \in Nat /\ AckBatchSize \in Nat /\ BatchSize \in Nat /\ BatchSize >= 1
BY StreamAssumption DEF Entries

\* A set of numbers that is not empty has a least one.
LEMMA Least == ASSUME NEW T \in SUBSET Nat, T # {} PROVE \E m \in T : \A d \in T : m <= d
<1>1. IsWellFoundedOn(OpToRel(<,Nat), Nat)
  BY NatLessThanWellFounded, Zenon
<1>2. PICK x \in T : \A y \in T : ~ (<<y, x>> \in OpToRel(<,Nat))
  BY <1>1, WFMin, Zenon
<1>3. \A y \in T : ~(y < x)
  BY <1>2 DEF OpToRel
<1> QED BY <1>3

\* First takes an entry of the set.
LEMMA FirstIn == ASSUME NEW es \in SUBSET Entries, es # {} PROVE First(es) \in es /\ First(es) \in Entries
<1>1. \E m \in es : \A d \in es : m <= d
  BY Least, EntryFacts
<1> QED BY <1>1 DEF First

\* A loop that has ended, and a worker without an entry.
LEMMA OffFacts ==
    /\ Off \in Loops /\ ~Off.on /\ Off.msgs = {} /\ ~Off.marked /\ Off.next = 0
    /\ Idle \in Jobs /\ Idle.pc = "idle" /\ Idle.e = 0
BY EntryFacts DEF Off, Idle, Loops, Jobs

\* The empty queue.
LEMMA EmptyElems == Elems(<<>>) = {} /\ Once(<<>>) /\ <<>> \in Seq(Entries) /\ Len(<<>>) = 0
BY DEF Elems, Once

\* An entry is put at the end of a queue.
LEMMA AppendElems ==
    ASSUME NEW s \in Seq(Entries), NEW e \in Entries
    PROVE  /\ Append(s, e) \in Seq(Entries) /\ Len(Append(s, e)) = Len(s) + 1
           /\ Elems(Append(s, e)) = Elems(s) \cup {e}
           /\ Once(s) /\ e \notin Elems(s) => Once(Append(s, e))
<1>1. /\ Append(s, e) \in Seq(Entries) /\ Len(Append(s, e)) = Len(s) + 1 /\ Len(s) \in Nat
      /\ \A i \in 1..Len(s) : Append(s, e)[i] = s[i]
      /\ Append(s, e)[Len(s) + 1] = e
  BY AppendProperties, LenProperties
<1> DEFINE t == Append(s, e)
<1> HIDE DEF t
<1>2. Elems(t) = Elems(s) \cup {e}
  <2>1. ASSUME NEW x \in Elems(t) PROVE x \in Elems(s) \cup {e}
    BY <1>1, <2>1 DEF Elems, t
  <2>2. ASSUME NEW x \in Elems(s) PROVE x \in Elems(t)
    <3>1. PICK i \in 1..Len(s) : x = s[i]
      BY <2>2 DEF Elems
    <3>2. i \in 1..Len(t) /\ t[i] = x
      BY <1>1, <3>1 DEF t
    <3> QED BY <3>2 DEF Elems
  <2>3. e \in Elems(t)
    <3>1. Len(s) + 1 \in 1..Len(t) /\ t[Len(s) + 1] = e
      BY <1>1 DEF t
    <3> QED BY <3>1 DEF Elems
  <2> QED BY <2>1, <2>2, <2>3
<1>3. ASSUME Once(s), e \notin Elems(s) PROVE Once(t)
  <2>1. \A i \in 1..Len(s) : s[i] # e
    BY <1>3 DEF Elems
  <2> QED BY <1>1, <1>3, <2>1 DEF Once, t
<1> QED BY <1>1, <1>2, <1>3 DEF t

\* The head of a queue is taken.
LEMMA TailElems ==
    ASSUME NEW s \in Seq(Entries), s # <<>>, Once(s)
    PROVE  /\ Head(s) \in Elems(s) /\ Head(s) \in Entries
           /\ Tail(s) \in Seq(Entries) /\ Len(Tail(s)) = Len(s) - 1 /\ Len(s) \in Nat
           /\ Elems(Tail(s)) = Elems(s) \ {Head(s)} /\ Once(Tail(s))
<1>1. /\ Head(s) \in Entries /\ Tail(s) \in Seq(Entries) /\ Len(Tail(s)) = Len(s) - 1
      /\ \A i \in 1..Len(Tail(s)) : Tail(s)[i] = s[i + 1]
      /\ Len(s) \in Nat /\ Len(s) >= 1 /\ Head(s) = s[1]
  <2>1. Len(s) \in Nat /\ Len(s) # 0
    BY EmptySeq, LenProperties
  <2>2. Head(s) = s[1]
    OBVIOUS
  <2> QED BY <2>1, <2>2, HeadTailProperties
<1> DEFINE t == Tail(s)
<1> HIDE DEF t
<1>2. Head(s) \in Elems(s)
  BY <1>1 DEF Elems
<1>3. ASSUME NEW x \in Elems(t) PROVE x \in Elems(s) /\ x # Head(s)
  <2>1. PICK i \in 1..Len(t) : x = t[i]
    BY <1>3 DEF Elems
  <2>2. i + 1 \in 1..Len(s) /\ x = s[i + 1] /\ i + 1 # 1 /\ 1 \in 1..Len(s)
    BY <1>1, <2>1 DEF t
  <2>3. x # s[1]
    BY <2>2 DEF Once
  <2> QED BY <1>1, <2>2, <2>3 DEF Elems
<1>4. ASSUME NEW x \in Elems(s), x # Head(s) PROVE x \in Elems(t)
  <2>1. PICK i \in 1..Len(s) : x = s[i]
    BY <1>4 DEF Elems
  <2>2. i - 1 \in 1..Len(t) /\ t[i - 1] = s[(i - 1) + 1] /\ (i - 1) + 1 = i
    BY <1>1, <1>4, <2>1 DEF t
  <2> QED BY <2>1, <2>2 DEF Elems
<1>5. Once(t)
  <2>1. ASSUME NEW i \in 1..Len(t), NEW j \in 1..Len(t), t[i] = t[j] PROVE i = j
    <3>1. s[i + 1] = s[j + 1] /\ i + 1 \in 1..Len(s) /\ j + 1 \in 1..Len(s)
      BY <1>1, <2>1 DEF t
    <3>2. i + 1 = j + 1
      BY <3>1 DEF Once
    <3> QED BY <3>2
  <2> QED BY <2>1 DEF Once
<1> QED BY <1>1, <1>2, <1>3, <1>4, <1>5 DEF t

-------------------------------------------------------------------------------
\* The invariant holds initially.
LEMMA InitInv == Init => IInv
<1> SUFFICES ASSUME Init PROVE IInv
  OBVIOUS
<1>1. LifecycleTypeOK
  BY DEF Init, LifecycleInit, LifecycleTypeOK, Calls
<1>2. StoreTypeOK
  <2>1. scn \in Scenarios /\ scn.first \in 0..MaxEntry /\ 0 \in 0..scn.faults
    BY StreamAssumption DEF Init
  <2>2. NotPending \in [owner : Clients \cup {Nobody}, count : 0..MaxDeliveryAttempts, idle : BOOLEAN]
    BY EntryFacts DEF NotPending
  <2> QED BY <2>1, <2>2, EntryFacts DEF Init, StoreTypeOK
<1>3. LocalTypeOK
  BY OffFacts, EmptyElems, EntryFacts DEF Init, LocalTypeOK
<1>4. Settled
  BY <1>2, StreamAssumption, EntryFacts DEF Init, Settled, StoreTypeOK
<1>5. ASSUME NEW c \in Clients
      PROVE  /\ LifeOK(state[c], ops[c], sub[c], pollCtx[c], runner[c])
             /\ EndsOK(runner[c], prod[c], worker[c], ackQueue[c], acks[c])
             /\ ResultsOK(worker[c], ackQueue[c], acks[c], handled, dlq)
             /\ HeldOK(prod[c], inFlight[c], queue[c], worker[c], ackQueue[c], acks[c])
  <2>1. /\ state[c] = "open" /\ ops[c] = {} /\ sub[c] = "none" /\ pollCtx[c] = FALSE
        /\ runner[c] = "off" /\ ackQueue[c] = <<>> /\ acks[c] = <<>> /\ queue[c] = <<>>
        /\ inFlight[c] = {} /\ \A p \in Producers : prod[c][p] = Off
        /\ \A w \in Workers : worker[c][w] = Idle
    BY DEF Init, LifecycleInit
  <2>2. LifeOK(state[c], ops[c], sub[c], pollCtx[c], runner[c])
    BY <2>1 DEF LifeOK
  <2>3. /\ EndsOK(runner[c], prod[c], worker[c], ackQueue[c], acks[c])
        /\ ResultsOK(worker[c], ackQueue[c], acks[c], handled, dlq)
    BY <2>1, OffFacts, EmptyElems DEF EndsOK, ResultsOK
  <2>4. HeldOK(prod[c], inFlight[c], queue[c], worker[c], ackQueue[c], acks[c])
    <3>1. Waits(prod[c]) = {} /\ Works(worker[c]) = {}
      BY <2>1, OffFacts DEF Waits, Works
    <3> QED BY <2>1, <3>1, OffFacts, EmptyElems DEF HeldOK, Apart
  <2> QED BY <2>2, <2>3, <2>4
<1> QED BY <1>1, <1>2, <1>3, <1>4, <1>5 DEF IInv, TypeOK, ClientsOK

(***************************************************************************)
(* A step that leaves the other clients alone, and settles what it takes   *)
(* away from the group, preserves the invariant if it does so for its      *)
(* client.                                                                 *)
(***************************************************************************)
LEMMA StepInv ==
    ASSUME IInv, NEW c \in Clients, TypeOK', Settled', handled \subseteq handled', dlq \subseteq dlq',
           \A d \in Clients : d # c =>
             /\ state'[d] = state[d] /\ ops'[d] = ops[d] /\ sub'[d] = sub[d]
             /\ pollCtx'[d] = pollCtx[d] /\ runner'[d] = runner[d] /\ prod'[d] = prod[d]
             /\ inFlight'[d] = inFlight[d] /\ queue'[d] = queue[d] /\ worker'[d] = worker[d]
             /\ ackQueue'[d] = ackQueue[d] /\ acks'[d] = acks[d],
           LifeOK(state'[c], ops'[c], sub'[c], pollCtx'[c], runner'[c]),
           EndsOK(runner'[c], prod'[c], worker'[c], ackQueue'[c], acks'[c]),
           ResultsOK(worker'[c], ackQueue'[c], acks'[c], handled', dlq'),
           HeldOK(prod'[c], inFlight'[c], queue'[c], worker'[c], ackQueue'[c], acks'[c])
    PROVE  IInv'
<1>1. ASSUME NEW d \in Clients, d # c
      PROVE  /\ LifeOK(state'[d], ops'[d], sub'[d], pollCtx'[d], runner'[d])
             /\ EndsOK(runner'[d], prod'[d], worker'[d], ackQueue'[d], acks'[d])
             /\ ResultsOK(worker'[d], ackQueue'[d], acks'[d], handled', dlq')
             /\ HeldOK(prod'[d], inFlight'[d], queue'[d], worker'[d], ackQueue'[d], acks'[d])
  <2>1. /\ LifeOK(state[d], ops[d], sub[d], pollCtx[d], runner[d])
        /\ EndsOK(runner[d], prod[d], worker[d], ackQueue[d], acks[d])
        /\ ResultsOK(worker[d], ackQueue[d], acks[d], handled, dlq)
        /\ HeldOK(prod[d], inFlight[d], queue[d], worker[d], ackQueue[d], acks[d])
    BY DEF IInv, ClientsOK
  <2>2. ResultsOK(worker[d], ackQueue[d], acks[d], handled', dlq')
    BY <2>1 DEF ResultsOK
  <2> QED BY <1>1, <2>1, <2>2
<1>2. ClientsOK'
  BY <1>1 DEF ClientsOK
<1> QED BY <1>2 DEF IInv

\* What is known of one client.
LEMMA Here ==
    ASSUME IInv, NEW c \in Clients
    PROVE  /\ LifecycleTypeOK /\ StoreTypeOK /\ LocalTypeOK /\ Settled
           /\ LifeOK(state[c], ops[c], sub[c], pollCtx[c], runner[c])
           /\ EndsOK(runner[c], prod[c], worker[c], ackQueue[c], acks[c])
           /\ ResultsOK(worker[c], ackQueue[c], acks[c], handled, dlq)
           /\ HeldOK(prod[c], inFlight[c], queue[c], worker[c], ackQueue[c], acks[c])
BY DEF IInv, TypeOK, ClientsOK

\* The group keeps its place, and what it no longer keeps is settled.
LEMMA SettledKept ==
    ASSUME IInv, published' \in Nat, published <= published', last' = last, group' = group,
           handled \subseteq handled', dlq \subseteq dlq',
           \A e \in Entries : pel[e].count > 0 =>
             pel'[e].count > 0 \/ e \in handled' \/ e \in dlq'
    PROVE  Settled'
<1>1. last \in 0..MaxEntry /\ published \in 0..MaxEntry /\ Settled
  BY DEF IInv, TypeOK, StoreTypeOK
<1>2. 1..last \subseteq Entries
  BY <1>1, EntryFacts DEF Entries
<1> QED BY <1>1, <1>2, EntryFacts DEF Settled, Pending

\* A step that touches no client's variables but its cursor.
LEMMA StoreInv ==
    ASSUME IInv, StoreTypeOK', Settled', handled \subseteq handled', dlq \subseteq dlq',
           cursor' \in [Clients -> 0..MaxEntry],
           UNCHANGED <<lifecycle, prod, inFlight, queue, worker, ackQueue, acks, runner>>
    PROVE  IInv'
<1>1. UNCHANGED <<state, ops, sub, pollCtx, workCtx>>
  BY DEF lifecycle
<1>2. LifecycleTypeOK'
  BY <1>1 DEF IInv, TypeOK, LifecycleTypeOK
<1>3. LocalTypeOK'
  BY DEF IInv, TypeOK, LocalTypeOK
<1>4. ClientsOK'
  <2> SUFFICES ASSUME NEW c \in Clients
               PROVE  /\ LifeOK(state[c], ops[c], sub[c], pollCtx[c], runner[c])
                      /\ EndsOK(runner[c], prod[c], worker[c], ackQueue[c], acks[c])
                      /\ ResultsOK(worker[c], ackQueue[c], acks[c], handled', dlq')
                      /\ HeldOK(prod[c], inFlight[c], queue[c], worker[c], ackQueue[c], acks[c])
    BY <1>1 DEF ClientsOK
  <2>1. ResultsOK(worker[c], ackQueue[c], acks[c], handled', dlq')
    BY Here DEF ResultsOK
  <2> QED BY <2>1, Here
<1> QED BY <1>2, <1>3, <1>4 DEF IInv, TypeOK

\* What a pending entry may be.
PELs == [owner : Clients \cup {Nobody}, count : 0..MaxDeliveryAttempts, idle : BOOLEAN]

\* An entry that is not pending.
LEMMA NotPendingFacts == NotPending \in PELs /\ NotPending.count = 0
BY EntryFacts DEF NotPending, PELs

\* The store's types, and those of the faults.
LEMMA StoreTypes ==
    ASSUME IInv
    PROVE  /\ scn \in Scenarios /\ published \in 0..MaxEntry /\ group \in BOOLEAN
           /\ last \in 0..MaxEntry /\ pel \in [Entries -> PELs] /\ dlq \subseteq Entries
           /\ handled \subseteq Entries /\ faults \in 0..scn.faults /\ scn.faults \in Nat
           /\ scn.entries \in 0..MaxEntry
BY StreamAssumption DEF IInv, TypeOK, StoreTypeOK, PELs

\* A fault is counted, or there is none.
LEMMA FaultType ==
    ASSUME IInv, scn' = scn, Fault \/ NoFault PROVE faults' \in 0..scn'.faults
<1>1. faults \in 0..scn.faults /\ scn.faults \in Nat
  BY StoreTypes
<1>2. CASE Fault
  BY <1>1, <1>2 DEF Fault
<1>3. CASE NoFault
  BY <1>1, <1>3 DEF NoFault
<1> QED BY <1>2, <1>3

-------------------------------------------------------------------------------
(* Redis and time. *)

\* Time passes.
LEMMA BecomesIdleInv == ASSUME IInv, NEW e \in Entries, BecomesIdle(e) PROVE IInv'
<1>1. /\ pel' = [pel EXCEPT ![e].idle = TRUE]
      /\ UNCHANGED <<scn, published, group, last, dlq, faults, handled, cursor>>
      /\ UNCHANGED <<lifecycle, prod, inFlight, queue, worker, ackQueue, acks, runner>>
  BY DEF BecomesIdle, local
<1>2. pel \in [Entries -> PELs]
  BY StoreTypes
<1>3. pel' \in [Entries -> PELs] /\ \A d \in Entries : pel'[d].count = pel[d].count
  BY <1>1, <1>2 DEF PELs
<1>4. StoreTypeOK'
  BY <1>1, <1>3 DEF IInv, TypeOK, StoreTypeOK, PELs
<1>5. Settled'
  BY <1>1, <1>3, StoreTypes, SettledKept, EntryFacts
<1>6. cursor' \in [Clients -> 0..MaxEntry]
  BY <1>1 DEF IInv, TypeOK, LocalTypeOK
<1> QED BY <1>1, <1>4, <1>5, <1>6, StoreInv

\* The group is lost.
LEMMA LoseGroupInv == ASSUME IInv, LoseGroup PROVE IInv'
<1>1. /\ group' = FALSE /\ last' = 0 /\ pel' = [e \in Entries |-> NotPending] /\ Fault
      /\ UNCHANGED <<scn, published, dlq, handled, cursor>>
      /\ UNCHANGED <<lifecycle, prod, inFlight, queue, worker, ackQueue, acks, runner>>
  BY DEF LoseGroup, local
<1>2. pel' \in [Entries -> PELs]
  BY <1>1, NotPendingFacts
<1>3. StoreTypeOK'
  BY <1>1, <1>2, FaultType, EntryFacts DEF IInv, TypeOK, StoreTypeOK, PELs
<1>4. Settled'
  BY <1>1, StoreTypes, EntryFacts DEF Settled
<1>5. cursor' \in [Clients -> 0..MaxEntry]
  BY <1>1 DEF IInv, TypeOK, LocalTypeOK
<1> QED BY <1>1, <1>3, <1>4, <1>5, StoreInv

\* The group is created where it is not there.
LEMMA EnsureGroupOK ==
    ASSUME IInv, EnsureGroup, UNCHANGED <<scn, published, pel, dlq, handled>>,
           faults' \in 0..scn'.faults
    PROVE  StoreTypeOK' /\ Settled'
<1>1. group' = TRUE /\ last' = IF group THEN last ELSE IF FromStart THEN 0 ELSE published
  BY DEF EnsureGroup
<1>2. last' \in 0..MaxEntry
  BY <1>1, StoreTypes, EntryFacts
<1>3. StoreTypeOK'
  BY <1>1, <1>2 DEF IInv, TypeOK, StoreTypeOK
<1>4. Settled'
  <2>1. CASE group
    BY <1>1, <2>1, StoreTypes, EntryFacts, SettledKept
  <2>2. CASE ~group
    BY <1>1, <2>2, StoreTypes, EntryFacts DEF Settled
  <2> QED BY <2>1, <2>2
<1> QED BY <1>3, <1>4

\* A loop creates it again.
LEMMA RestoreGroupInv == ASSUME IInv, NEW c \in Clients, RestoreGroup(c) PROVE IInv'
<1>1. /\ EnsureGroup /\ UNCHANGED <<scn, published, pel, dlq, handled>> /\ NoFault
      /\ UNCHANGED <<lifecycle, prod, inFlight, queue, worker, ackQueue, acks, runner>>
      /\ cursor' = [cursor EXCEPT ![c] = 0]
  BY DEF RestoreGroup, SetReclaimCursor, NoFault
<1>2. cursor' \in [Clients -> 0..MaxEntry]
  BY <1>1, EntryFacts DEF IInv, TypeOK, LocalTypeOK
<1>3. StoreTypeOK' /\ Settled'
  BY <1>1, FaultType, EnsureGroupOK
<1> QED BY <1>1, <1>2, <1>3, StoreInv

\* Cleaning up consumers that own nothing changes nothing.
LEMMA CleanupOK == ASSUME IInv, NEW targets, CleanupConsumers(targets) PROVE pel' = pel
<1>1. pel \in [Entries -> PELs]
  BY StoreTypes
<1>2. \A e \in Entries : pel'[e] = pel[e]
  BY DEF CleanupConsumers
<1>3. pel' \in [Entries -> {pel'[e] : e \in Entries}]
  BY DEF CleanupConsumers
<1> QED BY <1>1, <1>2, <1>3

\* The reclaim loop cleans up.
LEMMA CleanupStaleInv == ASSUME IInv, NEW c \in Clients, CleanupStale(c) PROVE IInv'
<1>1. /\ pel' = pel /\ UNCHANGED <<scn, published, group, last, dlq, faults, handled, cursor>>
      /\ UNCHANGED <<lifecycle, prod, inFlight, queue, worker, ackQueue, acks, runner>>
  BY CleanupOK DEF CleanupStale, local
<1>2. StoreTypeOK' /\ cursor' \in [Clients -> 0..MaxEntry]
  BY <1>1 DEF IInv, TypeOK, StoreTypeOK, LocalTypeOK
<1>3. Settled'
  BY <1>1, StoreTypes, SettledKept, EntryFacts
<1> QED BY <1>1, <1>2, <1>3, StoreInv

-------------------------------------------------------------------------------
(* The lifecycle. *)

\* A step of the lifecycle of one client.
LEMMA LifecycleInv ==
    ASSUME IInv, NEW c \in Clients, LifecycleTypeOK', StoreTypeOK', Settled',
           UNCHANGED <<local, dlq, handled>>,
           \A d \in Clients : d # c => /\ state'[d] = state[d] /\ ops'[d] = ops[d]
                                       /\ sub'[d] = sub[d] /\ pollCtx'[d] = pollCtx[d],
           LifeOK(state'[c], ops'[c], sub'[c], pollCtx'[c], runner[c])
    PROVE  IInv'
<1>1. UNCHANGED <<prod, cursor, inFlight, queue, worker, ackQueue, acks, runner>>
  BY DEF local
<1>2. TypeOK'
  BY <1>1 DEF IInv, TypeOK, LocalTypeOK
<1> QED BY <1>1, <1>2, Here, StepInv

\* The store as it was, but for the entries published.
LEMMA StoreSame ==
    ASSUME IInv, UNCHANGED <<scn, group, last, pel, dlq, handled>>,
           published' \in 0..MaxEntry, published <= published', faults' \in 0..scn'.faults
    PROVE  StoreTypeOK' /\ Settled'
<1>1. StoreTypeOK'
  BY DEF IInv, TypeOK, StoreTypeOK
<1>2. Settled'
  BY StoreTypes, SettledKept, EntryFacts
<1> QED BY <1>1, <1>2

\* An operation begins.
LEMMA BeginInv == ASSUME IInv, NEW c \in Clients, BeginPublish(c) \/ BeginSubscribe(c) PROVE IInv'
<1>1. PICK call \in Calls : /\ state[c] = "open" /\ ops' = [ops EXCEPT ![c] = @ \cup {call}]
                            /\ call = "subscribe" => sub[c] = "none"
                            /\ UNCHANGED <<state, sub, pollCtx, workCtx>>
  <2>1. CASE BeginPublish(c)
    BY <2>1 DEF BeginPublish, Begin, Calls
  <2>2. CASE BeginSubscribe(c)
    BY <2>2 DEF BeginSubscribe, Begin, Calls
  <2> QED BY <2>1, <2>2
<1>2. UNCHANGED <<scn, published, group, last, pel, dlq, local, faults, handled>>
  BY DEF BeginPublish, BeginSubscribe, redis
<1>3. /\ LifecycleTypeOK /\ ops'[c] = ops[c] \cup {call}
      /\ \A d \in Clients : d # c => ops'[d] = ops[d]
  BY <1>1, Here DEF LifecycleTypeOK
<1>4. LifecycleTypeOK'
  BY <1>1, <1>3 DEF LifecycleTypeOK
<1>5. StoreTypeOK' /\ Settled'
  BY <1>2, StoreSame, StoreTypes
<1>6. LifeOK(state'[c], ops'[c], sub'[c], pollCtx'[c], runner[c])
  BY <1>1, <1>3, Here DEF LifeOK
<1> QED BY <1>1, <1>2, <1>3, <1>4, <1>5, <1>6, LifecycleInv

\* Publish ends, or a Subscribe that failed.
LEMMA EndInv == ASSUME IInv, NEW c \in Clients, Publish(c) \/ SubscribeFails(c) PROVE IInv'
<1>1. PICK call \in Calls : /\ call \in ops[c] /\ ops' = [ops EXCEPT ![c] = @ \ {call}]
                            /\ UNCHANGED <<state, sub, pollCtx, workCtx>>
  BY DEF Publish, SubscribeFails, End, Calls
<1>2. UNCHANGED <<scn, group, last, pel, dlq, local, handled>>
  BY DEF Publish, SubscribeFails, redis
<1>3. /\ LifecycleTypeOK /\ ops'[c] = ops[c] \ {call}
      /\ \A d \in Clients : d # c => ops'[d] = ops[d]
  BY <1>1, Here DEF LifecycleTypeOK
<1>4. LifecycleTypeOK'
  BY <1>1, <1>3 DEF LifecycleTypeOK
<1>5. faults' \in 0..scn'.faults
  BY <1>2, FaultType DEF Publish, SubscribeFails
<1>6. published' \in 0..MaxEntry /\ published <= published'
  <2>1. published' = published \/ (published < scn.entries /\ published' = published + 1)
    BY DEF Publish, SubscribeFails, redis
  <2> QED BY <2>1, StoreTypes, EntryFacts
<1>7. StoreTypeOK' /\ Settled'
  BY <1>2, <1>5, <1>6, StoreSame
<1>8. LifeOK(state'[c], ops'[c], sub'[c], pollCtx'[c], runner[c])
  BY <1>1, <1>3, Here DEF LifeOK
<1> QED BY <1>1, <1>2, <1>3, <1>4, <1>7, <1>8, LifecycleInv

\* Stop, Close, a cancelled context; Close returns.
LEMMA EndsInv ==
    ASSUME IInv, NEW c \in Clients, Stop(c) \/ Close(c) \/ Cancel(c) \/ CloseReleases(c),
           UNCHANGED <<redis, local, faults, handled>>
    PROVE  IInv'
<1>1. UNCHANGED <<scn, published, group, last, pel, dlq, local, faults, handled, ops, sub>>
  BY DEF redis, Stop, Close, Cancel, CloseReleases
<1>2. LifecycleTypeOK
  BY Here
<1>3. /\ \A d \in Clients : d # c => state'[d] = state[d] /\ pollCtx'[d] = pollCtx[d]
      /\ state' \in [Clients -> {"open", "closing", "closed", "crashed"}]
      /\ pollCtx' \in [Clients -> BOOLEAN] /\ workCtx' \in [Clients -> BOOLEAN]
      /\ pollCtx'[c] => pollCtx[c]
      /\ state'[c] = "closed" => state[c] = "closed" \/ (ops[c] = {} /\ sub[c] # "tracked")
  <2>1. CASE Stop(c)
    BY <1>2, <2>1 DEF Stop, LifecycleTypeOK
  <2>2. CASE Close(c)
    BY <1>2, <2>2 DEF Close, LifecycleTypeOK
  <2>3. CASE Cancel(c)
    BY <1>2, <2>3 DEF Cancel, LifecycleTypeOK
  <2>4. CASE CloseReleases(c)
    BY <1>2, <2>4 DEF CloseReleases, Stopped, LifecycleTypeOK
  <2> QED BY <2>1, <2>2, <2>3, <2>4
<1>4. LifecycleTypeOK'
  BY <1>1, <1>2, <1>3 DEF LifecycleTypeOK
<1>5. StoreTypeOK' /\ Settled'
  BY <1>1, StoreSame, StoreTypes
<1>6. LifeOK(state'[c], ops'[c], sub'[c], pollCtx'[c], runner[c])
  BY <1>1, <1>3, Here DEF LifeOK
<1> QED BY <1>1, <1>3, <1>4, <1>5, <1>6, LifecycleInv

\* What a client holds, with no loop waiting.
LEMMA NoWaits ==
    ASSUME NEW ls, \A p \in Producers : ~ls[p].marked PROVE Waits(ls) = {}
BY DEF Waits

\* The goroutines of a subscription start.
LEMMA SubscribeInv == ASSUME IInv, NEW c \in Clients, Subscribe(c) PROVE IInv'
<1>1. /\ "subscribe" \in ops[c] /\ ops' = [ops EXCEPT ![c] = @ \ {"subscribe"}] /\ EnsureGroup
      /\ UNCHANGED <<state, scn, published, pel, dlq, cursor, inFlight, queue,
                     worker, ackQueue, acks, faults, handled>>
      /\ sub' = [sub EXCEPT ![c] = IF state[c] = "open" THEN "tracked" ELSE @]
      /\ pollCtx' = [pollCtx EXCEPT ![c] = (state[c] = "open")]
      /\ workCtx' = [workCtx EXCEPT ![c] = (state[c] = "open")]
  BY DEF Subscribe, End, Track
<1>2. LifecycleTypeOK /\ StoreTypeOK /\ LocalTypeOK
  BY Here
<1>3. sub[c] = "none" /\ runner[c] = "off" /\ state[c] # "closed"
      /\ \A p \in Producers : prod[c][p] = Off
  BY <1>1, Here DEF LifeOK, EndsOK
<1>4. /\ \A d \in Clients : d # c => ops'[d] = ops[d] /\ sub'[d] = sub[d] /\ pollCtx'[d] = pollCtx[d]
      /\ ops'[c] = ops[c] \ {"subscribe"} /\ pollCtx'[c] = (state[c] = "open")
      /\ sub'[c] = IF state[c] = "open" THEN "tracked" ELSE "none"
  BY <1>1, <1>2, <1>3 DEF LifecycleTypeOK
<1>5. LifecycleTypeOK'
  BY <1>1, <1>2 DEF LifecycleTypeOK
<1>6. StoreTypeOK' /\ Settled'
  BY <1>1, StoreTypes, EnsureGroupOK
<1>7. CASE state[c] # "open"
  <2>1. UNCHANGED <<prod, runner>>
    BY <1>4, <1>7 DEF Subscribe
  <2>2. LifeOK(state'[c], ops'[c], sub'[c], pollCtx'[c], runner[c])
    BY <1>1, <1>3, <1>4, <1>7, Here DEF LifeOK
  <2>3. UNCHANGED <<local, dlq, handled>>
    BY <1>1, <2>1 DEF local
  <2> QED BY <1>1, <1>4, <1>5, <1>6, <2>2, <2>3, LifecycleInv
<1>8. CASE state[c] = "open"
  <2> DEFINE new == [Off EXCEPT !.on = TRUE]
  <2>1. prod' = [prod EXCEPT ![c] = [p \in Producers |-> new]] /\ runner' = [runner EXCEPT ![c] = "run"]
    BY <1>4, <1>8 DEF Subscribe
  <2>2. new \in Loops /\ new.on /\ ~new.marked
    BY OffFacts DEF Off, Loops
  <2> HIDE DEF new
  <2>3. /\ \A p \in Producers : prod'[c][p] = new
        /\ runner'[c] = "run" /\ \A d \in Clients : d # c => prod'[d] = prod[d] /\ runner'[d] = runner[d]
    BY <1>2, <2>1 DEF LocalTypeOK
  <2>4. LocalTypeOK'
    BY <1>1, <1>2, <2>1, <2>2 DEF LocalTypeOK
  <2>5. LifeOK(state'[c], ops'[c], sub'[c], pollCtx'[c], runner'[c])
    BY <1>1, <1>4, <1>8, <2>3, Here DEF LifeOK
  <2>6. EndsOK(runner'[c], prod'[c], worker'[c], ackQueue'[c], acks'[c])
    BY <1>1, <2>2, <2>3, Here DEF EndsOK
  <2>7. HeldOK(prod'[c], inFlight'[c], queue'[c], worker'[c], ackQueue'[c], acks'[c])
    <3>1. Waits(prod[c]) = {} /\ Waits(prod'[c]) = {}
      BY <1>3, <2>2, <2>3, NoWaits, OffFacts
    <3>2. \A p \in Producers : ~prod'[c][p].marked
      BY <2>2, <2>3
    <3> QED BY <1>1, <3>1, <3>2, Here DEF HeldOK
  <2>8. ResultsOK(worker'[c], ackQueue'[c], acks'[c], handled', dlq')
    BY <1>1, Here
  <2>9. TypeOK'
    BY <1>5, <1>6, <2>4 DEF TypeOK
  <2> QED BY <1>1, <1>4, <1>6, <2>3, <2>5, <2>6, <2>7, <2>8, <2>9, StepInv, ZenonT(30)
<1> QED BY <1>7, <1>8

\* A process dies.
LEMMA CrashInv == ASSUME IInv, NEW c \in Clients, Crash(c) PROVE IInv'
<1>1. /\ state' = [state EXCEPT ![c] = "crashed"] /\ ops' = [ops EXCEPT ![c] = {}]
      /\ sub' = [sub EXCEPT ![c] = "finished"] /\ pollCtx' = [pollCtx EXCEPT ![c] = FALSE]
      /\ workCtx' = [workCtx EXCEPT ![c] = FALSE] /\ Fault
      /\ UNCHANGED <<scn, published, group, last, pel, dlq, handled>>
  BY DEF Crash, LifecycleCrash, redis
<1>2. /\ prod' = [prod EXCEPT ![c] = [p \in Producers |-> Off]]
      /\ inFlight' = [inFlight EXCEPT ![c] = {}]
      /\ queue' = [queue EXCEPT ![c] = <<>>]
      /\ worker' = [worker EXCEPT ![c] = [w \in Workers |-> Idle]]
      /\ ackQueue' = [ackQueue EXCEPT ![c] = <<>>] /\ acks' = [acks EXCEPT ![c] = <<>>]
      /\ runner' = [runner EXCEPT ![c] = "off"]
      /\ cursor' = [cursor EXCEPT ![c] = 0]
  BY DEF Crash
<1>3. LifecycleTypeOK /\ LocalTypeOK
  BY Here
<1>4. LifecycleTypeOK' /\ LocalTypeOK'
  <2>1. LifecycleTypeOK'
    BY <1>1, <1>3 DEF LifecycleTypeOK
  <2>2. LocalTypeOK'
    BY <1>2, <1>3, OffFacts, EmptyElems, EntryFacts DEF LocalTypeOK
  <2> QED BY <2>1, <2>2
<1>5. StoreTypeOK' /\ Settled'
  BY <1>1, FaultType, StoreSame, StoreTypes, EntryFacts
<1>6. /\ state'[c] = "crashed" /\ ops'[c] = {} /\ sub'[c] = "finished" /\ pollCtx'[c] = FALSE
      /\ \A d \in Clients : d # c => /\ state'[d] = state[d] /\ ops'[d] = ops[d]
                                     /\ sub'[d] = sub[d] /\ pollCtx'[d] = pollCtx[d]
  BY <1>1, <1>3 DEF LifecycleTypeOK
<1>7. /\ runner'[c] = "off" /\ ackQueue'[c] = <<>> /\ acks'[c] = <<>> /\ queue'[c] = <<>>
      /\ inFlight'[c] = {} /\ \A p \in Producers : prod'[c][p] = Off
      /\ \A w \in Workers : worker'[c][w] = Idle
      /\ \A d \in Clients : d # c =>
           /\ runner'[d] = runner[d] /\ prod'[d] = prod[d]
           /\ inFlight'[d] = inFlight[d] /\ queue'[d] = queue[d] /\ worker'[d] = worker[d]
           /\ ackQueue'[d] = ackQueue[d] /\ acks'[d] = acks[d]
  BY <1>2, <1>3 DEF LocalTypeOK
<1>8. LifeOK(state'[c], ops'[c], sub'[c], pollCtx'[c], runner'[c])
  BY <1>6, <1>7 DEF LifeOK
<1>9. /\ EndsOK(runner'[c], prod'[c], worker'[c], ackQueue'[c], acks'[c])
      /\ ResultsOK(worker'[c], ackQueue'[c], acks'[c], handled', dlq')
  BY <1>7, OffFacts, EmptyElems DEF EndsOK, ResultsOK
<1>10. HeldOK(prod'[c], inFlight'[c], queue'[c], worker'[c], ackQueue'[c], acks'[c])
  <2>1. Waits(prod'[c]) = {} /\ Works(worker'[c]) = {}
    BY <1>7, OffFacts DEF Waits, Works
  <2> QED BY <1>7, <2>1, OffFacts, EmptyElems DEF HeldOK, Apart
<1>11. TypeOK' /\ handled \subseteq handled' /\ dlq \subseteq dlq'
  BY <1>1, <1>4, <1>5 DEF TypeOK
<1> QED BY <1>5, <1>6, <1>7, <1>8, <1>9, <1>10, <1>11, StepInv, ZenonT(30)

-------------------------------------------------------------------------------
(***************************************************************************)
(* How what a client holds changes: an entry leaves one place, or comes    *)
(* into one.  The steps of loops, workers and acknowledgements are made up *)
(* of these.                                                               *)
(***************************************************************************)

\* A loop that waits with no entry before or after.
LEMMA LoopKeeps ==
    ASSUME NEW ls \in [Producers -> Loops], NEW fs, NEW q, NEW ws, NEW aq, NEW as,
           HeldOK(ls, fs, q, ws, aq, as), NEW p \in Producers, NEW m, ~ls[p].marked, ~m.marked
    PROVE  HeldOK([ls EXCEPT ![p] = m], fs, q, ws, aq, as)
<1> DEFINE nls == [ls EXCEPT ![p] = m]
<1>1. \A o \in Producers : nls[o] = IF o = p THEN m ELSE ls[o]
  OBVIOUS
<1> HIDE DEF nls
<1>2. Waits(nls) = Waits(ls)
  BY <1>1 DEF Waits
<1>3. \A o \in Producers : nls[o].marked => nls[o] = ls[o] /\ ls[o].marked
  BY <1>1
<1>4. HeldOK(nls, fs, q, ws, aq, as)
  BY <1>2, <1>3 DEF HeldOK
<1> QED BY <1>4 DEF nls

\* A loop marks an entry and waits for room.
LEMMA LoopAdds ==
    ASSUME NEW ls \in [Producers -> Loops], NEW fs, NEW q, NEW ws, NEW aq, NEW as,
           HeldOK(ls, fs, q, ws, aq, as), NEW p \in Producers, NEW m, ~ls[p].marked, m.marked,
           First(m.msgs) \notin fs
    PROVE  HeldOK([ls EXCEPT ![p] = m], fs \cup {First(m.msgs)}, q, ws, aq, as)
<1> DEFINE nls == [ls EXCEPT ![p] = m]
           e == First(m.msgs)
<1>1. \A o \in Producers : nls[o] = IF o = p THEN m ELSE ls[o]
  OBVIOUS
<1> HIDE DEF nls
<1>2. Waits(nls) = Waits(ls) \cup {e}
  BY <1>1 DEF Waits
<1>3. \A o \in Producers : ls[o].marked => First(ls[o].msgs) \in fs
  BY DEF HeldOK, Waits
<1>4. \A p1, p2 \in Producers :
        nls[p1].marked /\ nls[p2].marked /\ First(nls[p1].msgs) = First(nls[p2].msgs) => p1 = p2
  BY <1>1, <1>3 DEF HeldOK
<1> HIDE DEF e
<1>5. e \notin fs
  BY DEF e
<1>6. /\ fs \cup {e} = Waits(nls) \cup Elems(q) \cup Works(ws) \cup Elems(aq) \cup Elems(as)
      /\ Apart(Waits(nls), Elems(q), Works(ws), Elems(aq), Elems(as))
  BY <1>2, <1>5 DEF HeldOK, Apart
<1>7. HeldOK(nls, fs \cup {e}, q, ws, aq, as)
  BY <1>4, <1>6 DEF HeldOK
<1> QED BY <1>7 DEF nls, e

\* It stops waiting.
LEMMA LoopDrops ==
    ASSUME NEW ls \in [Producers -> Loops], NEW fs, NEW q, NEW ws, NEW aq, NEW as,
           HeldOK(ls, fs, q, ws, aq, as), NEW p \in Producers, NEW m, ls[p].marked, ~m.marked
    PROVE  /\ First(ls[p].msgs) \in fs
           /\ HeldOK([ls EXCEPT ![p] = m], fs \ {First(ls[p].msgs)}, q, ws, aq, as)
<1> DEFINE nls == [ls EXCEPT ![p] = m]
           e == First(ls[p].msgs)
<1>1. \A o \in Producers : nls[o] = IF o = p THEN m ELSE ls[o]
  OBVIOUS
<1> HIDE DEF nls
<1>2. \A o \in Producers : ls[o].marked /\ o # p => First(ls[o].msgs) # e
  BY DEF HeldOK
<1>3. Waits(nls) = Waits(ls) \ {e} /\ e \in Waits(ls)
  BY <1>1, <1>2 DEF Waits
<1>4. \A p1, p2 \in Producers :
        nls[p1].marked /\ nls[p2].marked /\ First(nls[p1].msgs) = First(nls[p2].msgs) => p1 = p2
  BY <1>1 DEF HeldOK
<1> HIDE DEF e
<1>6. /\ fs \ {e} = Waits(nls) \cup Elems(q) \cup Works(ws) \cup Elems(aq) \cup Elems(as)
      /\ Apart(Waits(nls), Elems(q), Works(ws), Elems(aq), Elems(as)) /\ e \in fs
  BY <1>3 DEF HeldOK, Apart
<1>7. HeldOK(nls, fs \ {e}, q, ws, aq, as)
  BY <1>4, <1>6 DEF HeldOK
<1> QED BY <1>6, <1>7 DEF nls, e

\* An entry comes into the queue.
LEMMA QueueAdds ==
    ASSUME NEW ls, NEW fs, NEW q \in Seq(Entries), NEW ws, NEW aq, NEW as,
           HeldOK(ls, fs, q, ws, aq, as), NEW e \in Entries, e \notin fs
    PROVE  HeldOK(ls, fs \cup {e}, Append(q, e), ws, aq, as)
<1>1. Elems(Append(q, e)) = Elems(q) \cup {e} /\ Once(Append(q, e))
  BY AppendElems DEF HeldOK
<1> QED BY <1>1 DEF HeldOK, Apart

\* The first entry leaves the queue.
LEMMA QueueDrops ==
    ASSUME NEW ls, NEW fs, NEW q \in Seq(Entries), NEW ws, NEW aq, NEW as,
           HeldOK(ls, fs, q, ws, aq, as), q # <<>>
    PROVE  Head(q) \in fs /\ HeldOK(ls, fs \ {Head(q)}, Tail(q), ws, aq, as)
<1>1. Elems(Tail(q)) = Elems(q) \ {Head(q)} /\ Once(Tail(q)) /\ Head(q) \in Elems(q)
  BY TailElems DEF HeldOK
<1> QED BY <1>1 DEF HeldOK, Apart

\* A worker keeps its entry.
LEMMA WorkerKeeps ==
    ASSUME NEW ls, NEW fs, NEW q, NEW ws \in [Workers -> Jobs], NEW aq, NEW as,
           HeldOK(ls, fs, q, ws, aq, as), NEW w \in Workers, NEW j, j.e = ws[w].e
    PROVE  HeldOK(ls, fs, q, [ws EXCEPT ![w] = j], aq, as)
<1> DEFINE nws == [ws EXCEPT ![w] = j]
<1>1. \A v \in Workers : nws[v].e = ws[v].e
  OBVIOUS
<1> HIDE DEF nws
<1>2. Works(nws) = Works(ws)
  BY <1>1 DEF Works
<1>3. HeldOK(ls, fs, q, nws, aq, as)
  BY <1>1, <1>2 DEF HeldOK
<1> QED BY <1>3 DEF nws

\* An entry comes to a worker that has none.
LEMMA WorkerAdds ==
    ASSUME NEW ls, NEW fs, NEW q, NEW ws \in [Workers -> Jobs], NEW aq, NEW as,
           HeldOK(ls, fs, q, ws, aq, as), NEW w \in Workers, NEW j, ws[w].e = 0,
           j.e \in Entries, j.e \notin fs
    PROVE  HeldOK(ls, fs \cup {j.e}, q, [ws EXCEPT ![w] = j], aq, as)
<1> DEFINE nws == [ws EXCEPT ![w] = j]
           e == j.e
<1>1. \A v \in Workers : nws[v].e = IF v = w THEN e ELSE ws[v].e
  OBVIOUS
<1>2. e \in Entries /\ e \notin fs /\ e # 0
  BY EntryFacts
<1> HIDE DEF nws, e
<1>3. Works(nws) = Works(ws) \cup {e}
  BY <1>1, <1>2 DEF Works
<1>4. \A v \in Workers : ws[v].e # e
  BY <1>2 DEF HeldOK, Works
<1>5. \A u, v \in Workers : nws[u].e = nws[v].e /\ nws[u].e # 0 => u = v
  BY <1>1, <1>4 DEF HeldOK
<1>6. /\ fs \cup {e} = Waits(ls) \cup Elems(q) \cup Works(nws) \cup Elems(aq) \cup Elems(as)
      /\ Apart(Waits(ls), Elems(q), Works(nws), Elems(aq), Elems(as))
  BY <1>2, <1>3 DEF HeldOK, Apart
<1>7. HeldOK(ls, fs \cup {e}, q, nws, aq, as)
  BY <1>5, <1>6 DEF HeldOK
<1> QED BY <1>7 DEF nws, e

\* An entry leaves its worker.
LEMMA WorkerDrops ==
    ASSUME NEW ls, NEW fs, NEW q, NEW ws \in [Workers -> Jobs], NEW aq, NEW as,
           HeldOK(ls, fs, q, ws, aq, as), NEW w \in Workers, NEW j, ws[w].e # 0, j.e = 0
    PROVE  ws[w].e \in fs /\ HeldOK(ls, fs \ {ws[w].e}, q, [ws EXCEPT ![w] = j], aq, as)
<1> DEFINE nws == [ws EXCEPT ![w] = j]
           e == ws[w].e
<1>1. \A v \in Workers : nws[v].e = IF v = w THEN 0 ELSE ws[v].e
  OBVIOUS
<1>2. \A v \in Workers : v # w => ws[v].e # e
  BY DEF HeldOK
<1> HIDE DEF nws
<1>3. Works(nws) = Works(ws) \ {e} /\ e \in Works(ws)
  BY <1>1, <1>2 DEF Works
<1>4. \A u, v \in Workers : nws[u].e = nws[v].e /\ nws[u].e # 0 => u = v
  BY <1>1 DEF HeldOK
<1> HIDE DEF e
<1>5. /\ fs \ {e} = Waits(ls) \cup Elems(q) \cup Works(nws) \cup Elems(aq) \cup Elems(as)
      /\ Apart(Waits(ls), Elems(q), Works(nws), Elems(aq), Elems(as)) /\ e \in fs
  BY <1>3 DEF HeldOK, Apart
<1>6. HeldOK(ls, fs \ {e}, q, nws, aq, as)
  BY <1>4, <1>5 DEF HeldOK
<1> QED BY <1>5, <1>6 DEF nws, e

\* A handled entry comes into the acknowledgement queue.
LEMMA AckQueueAdds ==
    ASSUME NEW ls, NEW fs, NEW q, NEW ws, NEW aq \in Seq(Entries), NEW as,
           HeldOK(ls, fs, q, ws, aq, as), NEW e \in Entries, e \notin fs
    PROVE  HeldOK(ls, fs \cup {e}, q, ws, Append(aq, e), as)
<1>1. Elems(Append(aq, e)) = Elems(aq) \cup {e} /\ Once(Append(aq, e))
  BY AppendElems DEF HeldOK
<1> QED BY <1>1 DEF HeldOK, Apart

\* It goes on to the batch.
LEMMA AckQueueDrops ==
    ASSUME NEW ls, NEW fs, NEW q, NEW ws, NEW aq \in Seq(Entries), NEW as \in Seq(Entries),
           HeldOK(ls, fs, q, ws, aq, as), aq # <<>>
    PROVE  HeldOK(ls, fs, q, ws, Tail(aq), Append(as, Head(aq)))
<1>1. Elems(Tail(aq)) = Elems(aq) \ {Head(aq)} /\ Once(Tail(aq)) /\ Head(aq) \in Elems(aq)
      /\ Head(aq) \in Entries
  BY TailElems DEF HeldOK
<1>2. Head(aq) \notin Elems(as)
  BY <1>1 DEF HeldOK, Apart
<1>3. Elems(Append(as, Head(aq))) = Elems(as) \cup {Head(aq)} /\ Once(Append(as, Head(aq)))
  BY <1>1, <1>2, AppendElems DEF HeldOK
<1> QED BY <1>1, <1>2, <1>3 DEF HeldOK, Apart

\* The batch is flushed.
LEMMA AcksDrop ==
    ASSUME NEW ls, NEW fs, NEW q, NEW ws, NEW aq, NEW as, HeldOK(ls, fs, q, ws, aq, as)
    PROVE  HeldOK(ls, fs \ Elems(as), q, ws, aq, <<>>)
BY EmptyElems DEF HeldOK, Apart

-------------------------------------------------------------------------------
(* The poll and the reclaim loop. *)

(***************************************************************************)
(* A step of one loop: it has other entries, or has ended, and the queue   *)
(* and inFlight of its client may have changed.                            *)
(***************************************************************************)
LEMMA LoopInv ==
    ASSUME IInv, NEW c \in Clients, NEW p \in Producers, NEW m \in Loops,
           ~m.on => m = Off, m.on => prod[c][p].on, m.marked => m.msgs # {},
           prod' = [prod EXCEPT ![c] = [prod[c] EXCEPT ![p] = m]],
           NEW fs \in SUBSET Entries, inFlight' = [inFlight EXCEPT ![c] = fs],
           NEW q \in Seq(Entries), queue' = [queue EXCEPT ![c] = q], Len(q) <= QueueDepth,
           cursor' \in [Clients -> 0..MaxEntry], StoreTypeOK', Settled',
           UNCHANGED <<lifecycle, worker, ackQueue, acks, runner, dlq, handled>>,
           HeldOK([prod[c] EXCEPT ![p] = m], fs, q, worker[c], ackQueue[c], acks[c])
    PROVE  IInv'
<1>0. LifecycleTypeOK /\ LocalTypeOK /\ UNCHANGED <<state, ops, sub, pollCtx, workCtx>>
  BY Here DEF lifecycle
<1>1. LifecycleTypeOK'
  BY <1>0 DEF LifecycleTypeOK
<1>2. /\ prod'[c] = [prod[c] EXCEPT ![p] = m] /\ inFlight'[c] = fs /\ queue'[c] = q
      /\ \A d \in Clients : d # c =>
           prod'[d] = prod[d] /\ inFlight'[d] = inFlight[d] /\ queue'[d] = queue[d]
      /\ \A o \in Producers : prod'[c][o] = IF o = p THEN m ELSE prod[c][o]
  BY <1>0 DEF LocalTypeOK
<1>3. LocalTypeOK'
  <2>1. prod' \in [Clients -> [Producers -> Loops]]
    BY <1>0 DEF LocalTypeOK
  <2>2. inFlight' \in [Clients -> SUBSET Entries] /\ queue' \in [Clients -> Seq(Entries)]
    BY <1>0 DEF LocalTypeOK
  <2>3. \A d \in Clients : Len(queue'[d]) <= QueueDepth
    BY <1>0, <1>2 DEF LocalTypeOK
  <2> QED BY <1>0, <2>1, <2>2, <2>3 DEF LocalTypeOK
<1>4. TypeOK'
  BY <1>1, <1>3 DEF TypeOK
<1>5. EndsOK(runner[c], prod'[c], worker[c], ackQueue[c], acks[c])
  BY <1>2, Here DEF EndsOK
<1>6. HeldOK(prod'[c], fs, q, worker[c], ackQueue[c], acks[c])
  BY <1>2
<1> QED BY <1>0, <1>2, <1>4, <1>5, <1>6, Here, StepInv, ZenonT(30)

\* What is known of one loop.
LEMMA LoopFacts ==
    ASSUME IInv, NEW c \in Clients, NEW p \in Producers
    PROVE  /\ prod \in [Clients -> [Producers -> Loops]] /\ prod[c] \in [Producers -> Loops]
           /\ prod[c][p] \in Loops
           /\ prod[c][p].msgs \subseteq Entries /\ prod[c][p].on \in BOOLEAN
           /\ prod[c][p].marked \in BOOLEAN /\ prod[c][p].next \in 0..MaxEntry
           /\ (~prod[c][p].on => prod[c][p] = Off) /\ (prod[c][p].marked => prod[c][p].msgs # {})
           /\ (prod[c][p].msgs # {} => prod[c][p].on)
           /\ inFlight[c] \subseteq Entries /\ queue[c] \in Seq(Entries) /\ Len(queue[c]) \in Nat
           /\ Len(queue[c]) <= QueueDepth /\ cursor \in [Clients -> 0..MaxEntry]
           /\ inFlight = [inFlight EXCEPT ![c] = inFlight[c]] /\ queue = [queue EXCEPT ![c] = queue[c]]
           /\ HeldOK(prod[c], inFlight[c], queue[c], worker[c], ackQueue[c], acks[c])
<1>1. LocalTypeOK /\ EndsOK(runner[c], prod[c], worker[c], ackQueue[c], acks[c])
  BY Here
<1>2. prod \in [Clients -> [Producers -> Loops]] /\ prod[c] \in [Producers -> Loops] /\ prod[c][p] \in Loops
  BY <1>1 DEF LocalTypeOK
<1>3. /\ prod[c][p].msgs \subseteq Entries /\ prod[c][p].on \in BOOLEAN
      /\ prod[c][p].marked \in BOOLEAN /\ prod[c][p].next \in 0..MaxEntry
  BY <1>2 DEF Loops
<1>4. /\ (~prod[c][p].on => prod[c][p] = Off) /\ (prod[c][p].marked => prod[c][p].msgs # {})
  BY <1>1 DEF EndsOK
<1>5. prod[c][p].msgs # {} => prod[c][p].on
  BY <1>3, <1>4, OffFacts
<1>6. /\ inFlight[c] \subseteq Entries /\ queue[c] \in Seq(Entries)
      /\ Len(queue[c]) <= QueueDepth /\ cursor \in [Clients -> 0..MaxEntry]
      /\ inFlight = [inFlight EXCEPT ![c] = inFlight[c]] /\ queue = [queue EXCEPT ![c] = queue[c]]
  BY <1>1 DEF LocalTypeOK
<1>7. Len(queue[c]) \in Nat
  BY <1>6, LenProperties
<1> QED BY <1>2, <1>3, <1>4, <1>5, <1>6, <1>7, Here

\* A loop that waits has fetched entries, which it does not hold yet.
LEMMA FetchedInv ==
    ASSUME IInv, NEW c \in Clients, NEW p \in Producers, Waiting(c, p),
           NEW es \in SUBSET Entries, NEW next \in 0..MaxEntry, Fetched(c, p, es, next),
           cursor' \in [Clients -> 0..MaxEntry], StoreTypeOK', Settled',
           UNCHANGED <<lifecycle, inFlight, queue, worker, ackQueue, acks, runner, dlq, handled>>
    PROVE  IInv'
<1> DEFINE m == [prod[c][p] EXCEPT !.msgs = es, !.next = next]
<1>1. prod[c][p] \in Loops /\ prod[c][p].on /\ ~prod[c][p].marked
  BY LoopFacts DEF Waiting
<1>2. m \in Loops /\ m.on /\ ~m.marked
  BY <1>1 DEF Loops
<1>3. prod' = [prod EXCEPT ![c] = [prod[c] EXCEPT ![p] = m]]
  BY DEF Fetched
<1> HIDE DEF m
<1>4. HeldOK([prod[c] EXCEPT ![p] = m], inFlight[c], queue[c], worker[c], ackQueue[c], acks[c])
  BY <1>1, <1>2, LoopFacts, LoopKeeps
<1>5. /\ inFlight' = [inFlight EXCEPT ![c] = inFlight[c]] /\ queue' = [queue EXCEPT ![c] = queue[c]]
      /\ inFlight[c] \in SUBSET Entries /\ queue[c] \in Seq(Entries) /\ Len(queue[c]) <= QueueDepth
      /\ UNCHANGED <<lifecycle, worker, ackQueue, acks, runner, dlq, handled>>
  BY LoopFacts
<1> QED BY <1>1, <1>2, <1>3, <1>4, <1>5, LoopInv

\* The entries that a read returns are the ones right after the last.
LEMMA NextEntriesFacts ==
    ASSUME IInv, NextEntries # {}
    PROVE  /\ last + Cardinality(NextEntries) \in 0..MaxEntry
           /\ last + Cardinality(NextEntries) <= published
           /\ \A e \in 1..(last + Cardinality(NextEntries)) : e \in 1..last \/ e \in NextEntries
<1> DEFINE n == IF published < last + BatchSize THEN published ELSE last + BatchSize
<1>1. last \in Nat /\ published \in 0..MaxEntry /\ BatchSize \in Nat /\ last <= published /\ MaxEntry \in Nat
  BY StoreTypes, EntryFacts DEF IInv, Settled
<1>2. n \in Nat /\ n <= published /\ last <= n
  BY <1>1
<1>3. NextEntries = (last + 1)..n
  BY <1>1 DEF NextEntries, Entries
<1> HIDE DEF n
<1>4. Cardinality(NextEntries) = n - last
  <2>1. Cardinality((last + 1)..n) = IF last + 1 > n THEN 0 ELSE n - (last + 1) + 1
    BY <1>1, <1>2, FS_Interval
  <2> QED BY <1>1, <1>2, <1>3, <2>1
<1>5. last + Cardinality(NextEntries) = n
  BY <1>1, <1>2, <1>4
<1> QED BY <1>1, <1>2, <1>3, <1>5

\* One read.
LEMMA PollInv == ASSUME IInv, NEW c \in Clients, Poll(c) PROVE IInv'
<1>0. /\ Waiting(c, "poll") /\ group /\ NextEntries # {} /\ (Fault \/ NoFault)
      /\ last' = last + Cardinality(NextEntries)
      /\ pel' = [e \in Entries |-> IF e \in NextEntries
                                   THEN [owner |-> c, count |-> 1, idle |-> FALSE] ELSE pel[e]]
      /\ UNCHANGED <<scn, published, group, dlq, cursor, handled>>
      /\ UNCHANGED <<lifecycle, inFlight, queue, worker, ackQueue, acks, runner>>
  BY DEF Poll, ReadGroup
<1>1. /\ pel' \in [Entries -> PELs] /\ \A e \in NextEntries : pel'[e].count > 0
      /\ \A e \in Entries : pel[e].count > 0 => pel'[e].count > 0
  <2>1. [owner |-> c, count |-> 1, idle |-> FALSE] \in PELs
    BY EntryFacts DEF PELs
  <2>2. NextEntries \subseteq Entries /\ pel \in [Entries -> PELs]
    BY StoreTypes DEF NextEntries
  <2> QED BY <1>0, <2>1, <2>2
<1>2. StoreTypeOK'
  BY <1>0, <1>1, FaultType, NextEntriesFacts DEF IInv, TypeOK, StoreTypeOK, PELs
<1>3. Settled'
  <2>1. 1..last \subseteq Entries
    BY StoreTypes, EntryFacts DEF Entries
  <2> QED BY <1>0, <1>1, <2>1, NextEntriesFacts DEF IInv, Settled, Pending
<1>4. cursor' \in [Clients -> 0..MaxEntry] /\ NextEntries \in SUBSET Entries
  BY <1>0 DEF IInv, TypeOK, LocalTypeOK, NextEntries
<1>5. CASE Fetched(c, "poll", NextEntries, 0)
  BY <1>0, <1>2, <1>3, <1>4, <1>5, EntryFacts, FetchedInv DEF Producers
<1>6. CASE UNCHANGED prod
  BY <1>0, <1>2, <1>3, <1>4, <1>6, StoreInv
<1> QED BY <1>5, <1>6 DEF Poll

\* Where the scan of pending entries goes on.
LEMMA NextCursorType == ASSUME NEW c \in Clients PROVE NextCursor(c) \in 0..MaxEntry
<1> DEFINE rest == {e \in Entries : Pending(e) /\ \A d \in Claimable(c) : e > d}
<1>1. CASE rest = {}
  BY <1>1, EntryFacts DEF NextCursor
<1>2. CASE rest # {}
  <2>1. \E e \in rest : \A d \in rest : e <= d
    <3>1. rest \in SUBSET Nat
      BY EntryFacts
    <3> HIDE DEF rest
    <3> QED BY <1>2, <3>1, Least
  <2>2. (CHOOSE e \in rest : \A d \in rest : e <= d) \in rest
    BY <2>1
  <2> QED BY <2>2, EntryFacts DEF NextCursor
<1> QED BY <1>1, <1>2

\* One AutoClaim.
LEMMA ReclaimInv == ASSUME IInv, NEW c \in Clients, Reclaim(c) PROVE IInv'
<1>0. /\ Waiting(c, "reclaim") /\ (Fault \/ NoFault)
      /\ pel' = [e \in Entries |-> IF e \in Claimable(c)
                   THEN [owner |-> c, count |-> Delivered(pel[e].count), idle |-> FALSE]
                   ELSE pel[e]]
      /\ UNCHANGED <<scn, published, group, last, dlq, handled>>
      /\ UNCHANGED <<lifecycle, inFlight, queue, worker, ackQueue, acks, runner>>
  BY DEF Reclaim, AutoClaim
<1>1. pel' \in [Entries -> PELs] /\ \A e \in Entries : pel[e].count > 0 => pel'[e].count > 0
  <2>1. pel \in [Entries -> PELs] /\ \A e \in Entries : pel[e].count \in 0..MaxDeliveryAttempts
    BY StoreTypes DEF PELs
  <2>2. \A e \in Entries : /\ Delivered(pel[e].count) \in 0..MaxDeliveryAttempts
                           /\ Delivered(pel[e].count) > 0
    BY <2>1, EntryFacts DEF Delivered
  <2>3. \A e \in Entries : [owner |-> c, count |-> Delivered(pel[e].count), idle |-> FALSE] \in PELs
    BY <2>2 DEF PELs
  <2> QED BY <1>0, <2>1, <2>2, <2>3
<1>2. StoreTypeOK'
  BY <1>0, <1>1, FaultType DEF IInv, TypeOK, StoreTypeOK, PELs
<1>3. Settled'
  BY <1>0, <1>1, StoreTypes, SettledKept, EntryFacts
<1>4. /\ cursor \in [Clients -> 0..MaxEntry] /\ Claimable(c) \in SUBSET Entries
      /\ NextCursor(c) \in 0..MaxEntry
  BY NextCursorType DEF IInv, TypeOK, LocalTypeOK, Claimable
<1>5. CASE SetReclaimCursor(c, NextCursor(c)) /\ UNCHANGED prod
  <2>1. cursor' \in [Clients -> 0..MaxEntry]
    BY <1>4, <1>5 DEF SetReclaimCursor
  <2> QED BY <1>0, <1>2, <1>3, <1>5, <2>1, StoreInv
<1>6. CASE Fetched(c, "reclaim", Claimable(c), NextCursor(c)) /\ UNCHANGED cursor
  BY <1>0, <1>2, <1>3, <1>4, <1>6, FetchedInv DEF Producers
<1>7. CASE UNCHANGED <<prod, cursor>>
  BY <1>0, <1>2, <1>3, <1>4, <1>7, StoreInv
<1> QED BY <1>5, <1>6, <1>7 DEF Reclaim

\* The loop is done with its first entry.
LEMMA AdvancesFacts ==
    ASSUME IInv, NEW c \in Clients, NEW p \in Producers, prod[c][p].msgs # {}, Advances(c, p)
    PROVE  /\ \E m \in Loops : /\ m.on /\ ~m.marked
                               /\ prod' = [prod EXCEPT ![c] = [prod[c] EXCEPT ![p] = m]]
           /\ cursor' \in [Clients -> 0..MaxEntry] /\ prod[c][p].on
<1> DEFINE l == prod[c][p]
           rest == l.msgs \ {First(l.msgs)}
           m == [l EXCEPT !.msgs = rest, !.marked = FALSE, !.next = IF rest = {} THEN 0 ELSE @]
<1>1. l \in Loops /\ l.on /\ l.next \in 0..MaxEntry /\ cursor \in [Clients -> 0..MaxEntry]
  BY LoopFacts
<1>2. /\ prod' = [prod EXCEPT ![c] = [prod[c] EXCEPT ![p] = m]]
      /\ cursor' = cursor \/ cursor' = [cursor EXCEPT ![c] = l.next]
  BY DEF Advances, SetReclaimCursor
<1>3. rest \subseteq Entries
  BY <1>1 DEF Loops
<1>4. m \in Loops /\ m.on /\ ~m.marked
  <2> HIDE DEF rest
  <2> QED BY <1>1, <1>3, EntryFacts DEF Loops
<1>5. cursor' \in [Clients -> 0..MaxEntry]
  BY <1>1, <1>2
<1> HIDE DEF m
<1> QED BY <1>1, <1>2, <1>4, <1>5

\* enqueue.
LEMMA EnqueueInv == ASSUME IInv, NEW c \in Clients, NEW p \in Producers, Enqueue(c, p) PROVE IInv'
<1> DEFINE l == prod[c][p]
           e == First(l.msgs)
<1>1. /\ l.msgs # {} /\ ~l.marked /\ UNCHANGED <<lifecycle, worker, ackQueue, acks, runner, dlq, handled>>
      /\ UNCHANGED <<scn, published, group, last, pel, faults>>
  BY DEF Enqueue, redis
<1>2. e \in Entries /\ e \in l.msgs
  BY <1>1, LoopFacts, FirstIn
<1>3. StoreTypeOK' /\ Settled'
  BY <1>1, StoreSame, StoreTypes
<1>4. /\ inFlight[c] \in SUBSET Entries /\ inFlight[c] \cup {e} \in SUBSET Entries
      /\ queue[c] \in Seq(Entries) /\ Len(queue[c]) <= QueueDepth
      /\ inFlight = [inFlight EXCEPT ![c] = inFlight[c]] /\ queue = [queue EXCEPT ![c] = queue[c]]
      /\ prod[c] \in [Producers -> Loops] /\ l \in Loops /\ l.on
      /\ HeldOK(prod[c], inFlight[c], queue[c], worker[c], ackQueue[c], acks[c])
  BY <1>1, <1>2, LoopFacts
<1>5. CASE Advances(c, p) /\ UNCHANGED <<inFlight, queue>>
  <2>1. PICK m \in Loops : m.on /\ ~m.marked /\ prod' = [prod EXCEPT ![c] = [prod[c] EXCEPT ![p] = m]]
    BY <1>1, <1>5, AdvancesFacts
  <2>2. cursor' \in [Clients -> 0..MaxEntry]
    BY <1>1, <1>5, AdvancesFacts
  <2>3. HeldOK([prod[c] EXCEPT ![p] = m], inFlight[c], queue[c], worker[c], ackQueue[c], acks[c])
    BY <1>1, <1>4, <2>1, LoopKeeps
  <2> QED BY <1>1, <1>3, <1>4, <1>5, <2>1, <2>2, <2>3, LoopInv
<1>6. CASE /\ e \notin inFlight[c] /\ inFlight' = [inFlight EXCEPT ![c] = inFlight[c] \cup {e}]
           /\ Len(queue[c]) < QueueDepth /\ Advances(c, p)
           /\ queue' = [queue EXCEPT ![c] = Append(queue[c], e)]
  <2>1. PICK m \in Loops : m.on /\ ~m.marked /\ prod' = [prod EXCEPT ![c] = [prod[c] EXCEPT ![p] = m]]
    BY <1>1, <1>6, AdvancesFacts
  <2>2. cursor' \in [Clients -> 0..MaxEntry]
    BY <1>1, <1>6, AdvancesFacts
  <2>3. HeldOK([prod[c] EXCEPT ![p] = m], inFlight[c], queue[c], worker[c], ackQueue[c], acks[c])
    BY <1>1, <1>4, <2>1, LoopKeeps
  <2>4. HeldOK([prod[c] EXCEPT ![p] = m], inFlight[c] \cup {e}, Append(queue[c], e), worker[c],
               ackQueue[c], acks[c])
    BY <1>2, <1>4, <1>6, <2>3, QueueAdds
  <2>5. Append(queue[c], e) \in Seq(Entries) /\ Len(Append(queue[c], e)) <= QueueDepth
    BY <1>2, <1>4, <1>6, AppendElems, LoopFacts, EntryFacts
  <2> QED BY <1>1, <1>3, <1>4, <1>6, <2>1, <2>2, <2>4, <2>5, LoopInv
<1>7. CASE /\ e \notin inFlight[c] /\ inFlight' = [inFlight EXCEPT ![c] = inFlight[c] \cup {e}]
           /\ prod' = [prod EXCEPT ![c][p].marked = TRUE] /\ UNCHANGED <<cursor, queue>>
  <2> DEFINE m == [l EXCEPT !.marked = TRUE]
  <2>1. m \in Loops /\ m.on /\ m.marked /\ m.msgs = l.msgs /\ m.msgs # {} /\ First(m.msgs) = e
    BY <1>1, <1>4 DEF Loops
  <2>2. prod' = [prod EXCEPT ![c] = [prod[c] EXCEPT ![p] = m]]
    BY <1>7
  <2> HIDE DEF m
  <2>3. HeldOK([prod[c] EXCEPT ![p] = m], inFlight[c] \cup {First(m.msgs)}, queue[c], worker[c],
               ackQueue[c], acks[c])
    BY <1>1, <1>4, <1>7, <2>1, LoopAdds
  <2>4. cursor' \in [Clients -> 0..MaxEntry]
    BY <1>7, LoopFacts
  <2> QED BY <1>1, <1>3, <1>4, <1>7, <2>1, <2>2, <2>3, <2>4, LoopInv
<1> QED BY <1>5, <1>6, <1>7 DEF Enqueue

\* enqueue goes on.
LEMMA PutInv == ASSUME IInv, NEW c \in Clients, NEW p \in Producers, Put(c, p) PROVE IInv'
<1> DEFINE l == prod[c][p]
           e == First(l.msgs)
<1>1. /\ l.marked /\ UNCHANGED <<lifecycle, worker, ackQueue, acks, runner, dlq, handled>>
      /\ UNCHANGED <<scn, published, group, last, pel, faults, inFlight>> /\ Len(queue[c]) < QueueDepth
      /\ queue' = [queue EXCEPT ![c] = Append(queue[c], e)] /\ Advances(c, p) /\ l.msgs # {}
  BY LoopFacts DEF Put, redis
<1>2. e \in Entries /\ e \in l.msgs
  BY <1>1, LoopFacts, FirstIn
<1>3. StoreTypeOK' /\ Settled'
  BY <1>1, StoreSame, StoreTypes
<1>4. /\ inFlight[c] \in SUBSET Entries /\ queue[c] \in Seq(Entries)
      /\ inFlight = [inFlight EXCEPT ![c] = inFlight[c]]
      /\ prod[c] \in [Producers -> Loops] /\ l \in Loops /\ l.on
      /\ HeldOK(prod[c], inFlight[c], queue[c], worker[c], ackQueue[c], acks[c])
  BY <1>1, <1>2, LoopFacts
<1>5. PICK m \in Loops : m.on /\ ~m.marked /\ prod' = [prod EXCEPT ![c] = [prod[c] EXCEPT ![p] = m]]
  BY <1>1, AdvancesFacts
<1>6. cursor' \in [Clients -> 0..MaxEntry]
  BY <1>1, AdvancesFacts
<1>7. /\ HeldOK([prod[c] EXCEPT ![p] = m], inFlight[c] \ {e}, queue[c], worker[c], ackQueue[c], acks[c])
      /\ e \in inFlight[c]
  BY <1>1, <1>4, <1>5, LoopDrops
<1>8. HeldOK([prod[c] EXCEPT ![p] = m], (inFlight[c] \ {e}) \cup {e}, Append(queue[c], e), worker[c],
             ackQueue[c], acks[c])
  BY <1>2, <1>4, <1>7, QueueAdds
<1>9. /\ Append(queue[c], e) \in Seq(Entries) /\ Len(Append(queue[c], e)) <= QueueDepth
      /\ (inFlight[c] \ {e}) \cup {e} = inFlight[c]
  BY <1>1, <1>2, <1>4, <1>7, AppendElems, LoopFacts, EntryFacts
<1> QED BY <1>1, <1>3, <1>4, <1>5, <1>6, <1>8, <1>9, LoopInv

\* A loop ends.
LEMMA LoopExitsInv == ASSUME IInv, NEW c \in Clients, NEW p \in Producers, LoopExits(c, p) PROVE IInv'
<1> DEFINE l == prod[c][p]
           fs == IF l.marked THEN inFlight[c] \ {First(l.msgs)} ELSE inFlight[c]
<1>1. /\ UNCHANGED <<lifecycle, worker, ackQueue, acks, runner, dlq, handled>>
      /\ UNCHANGED <<scn, published, group, last, pel, faults, cursor, queue>>
      /\ inFlight' = [inFlight EXCEPT ![c] = fs]
      /\ prod' = [prod EXCEPT ![c] = [prod[c] EXCEPT ![p] = Off]]
  BY DEF LoopExits, redis
<1>2. StoreTypeOK' /\ Settled'
  BY <1>1, StoreSame, StoreTypes
<1>3. /\ fs \in SUBSET Entries /\ queue[c] \in Seq(Entries) /\ Len(queue[c]) <= QueueDepth
      /\ queue = [queue EXCEPT ![c] = queue[c]] /\ prod[c] \in [Producers -> Loops] /\ l \in Loops
      /\ HeldOK(prod[c], inFlight[c], queue[c], worker[c], ackQueue[c], acks[c])
      /\ cursor' \in [Clients -> 0..MaxEntry]
  BY <1>1, LoopFacts
<1>4. HeldOK([prod[c] EXCEPT ![p] = Off], fs, queue[c], worker[c], ackQueue[c], acks[c])
  <2>1. CASE l.marked
    BY <1>3, <2>1, OffFacts, LoopDrops
  <2>2. CASE ~l.marked
    BY <1>3, <2>2, OffFacts, LoopKeeps
  <2> QED BY <2>1, <2>2
<1> HIDE DEF fs
<1> QED BY <1>1, <1>2, <1>3, <1>4, OffFacts, LoopInv

-------------------------------------------------------------------------------
(* The workers. *)

(***************************************************************************)
(* A step of one worker: it has another job, and inFlight, the queue and   *)
(* the acknowledgement queue of its client may have changed.               *)
(***************************************************************************)
LEMMA WorkerInv ==
    ASSUME IInv, NEW c \in Clients, NEW w \in Workers, NEW j \in Jobs,
           worker' = [worker EXCEPT ![c] = [worker[c] EXCEPT ![w] = j]],
           runner[c] = "run", j.e = 0 <=> j.pc \in {"idle", "exited"},
           j.pc = "ack" => j.e \in handled', j.pc = "dlqack" => j.e \in dlq',
           NEW fs \in SUBSET Entries, inFlight' = [inFlight EXCEPT ![c] = fs],
           NEW q \in Seq(Entries), queue' = [queue EXCEPT ![c] = q], Len(q) <= QueueDepth,
           NEW aq \in Seq(Entries), ackQueue' = [ackQueue EXCEPT ![c] = aq], Len(aq) <= QueueDepth,
           \A i \in 1..Len(aq) : aq[i] \in handled',
           handled \subseteq handled', dlq \subseteq dlq', StoreTypeOK', Settled',
           UNCHANGED <<lifecycle, prod, cursor, acks, runner>>,
           HeldOK(prod[c], fs, q, [worker[c] EXCEPT ![w] = j], aq, acks[c])
    PROVE  IInv'
<1>0. LifecycleTypeOK /\ LocalTypeOK /\ UNCHANGED <<state, ops, sub, pollCtx, workCtx>>
  BY Here DEF lifecycle
<1>1. LifecycleTypeOK'
  BY <1>0 DEF LifecycleTypeOK
<1>2. /\ worker'[c] = [worker[c] EXCEPT ![w] = j] /\ inFlight'[c] = fs /\ queue'[c] = q
      /\ ackQueue'[c] = aq
      /\ \A d \in Clients : d # c => /\ worker'[d] = worker[d] /\ inFlight'[d] = inFlight[d]
                                     /\ queue'[d] = queue[d] /\ ackQueue'[d] = ackQueue[d]
      /\ \A v \in Workers : worker'[c][v] = IF v = w THEN j ELSE worker[c][v]
  BY <1>0 DEF LocalTypeOK
<1>3. LocalTypeOK'
  <2>1. worker' \in [Clients -> [Workers -> Jobs]]
    BY <1>0 DEF LocalTypeOK
  <2>2. /\ inFlight' \in [Clients -> SUBSET Entries] /\ queue' \in [Clients -> Seq(Entries)]
        /\ ackQueue' \in [Clients -> Seq(Entries)]
    BY <1>0 DEF LocalTypeOK
  <2>3. \A d \in Clients : Len(queue'[d]) <= QueueDepth /\ Len(ackQueue'[d]) <= QueueDepth
    BY <1>0, <1>2 DEF LocalTypeOK
  <2> QED BY <1>0, <2>1, <2>2, <2>3 DEF LocalTypeOK
<1>4. TypeOK'
  BY <1>1, <1>3 DEF TypeOK
<1>5. EndsOK(runner[c], prod[c], worker'[c], ackQueue'[c], acks[c])
  <2>1. EndsOK(runner[c], prod[c], worker[c], ackQueue[c], acks[c])
    BY Here
  <2>2. \A v \in Workers : worker'[c][v].e = 0 <=> worker'[c][v].pc \in {"idle", "exited"}
    BY <1>2, <2>1 DEF EndsOK
  <2> QED BY <2>1, <2>2 DEF EndsOK
<1>6. ResultsOK(worker'[c], ackQueue'[c], acks[c], handled', dlq')
  BY <1>2, Here DEF ResultsOK
<1>7. HeldOK(prod[c], inFlight'[c], queue'[c], worker'[c], ackQueue'[c], acks[c])
  BY <1>2
<1> QED BY <1>0, <1>2, <1>4, <1>5, <1>6, <1>7, Here, StepInv, ZenonT(30)

\* What is known of one worker.
LEMMA WorkerFacts ==
    ASSUME IInv, NEW c \in Clients, NEW w \in Workers
    PROVE  /\ worker[c] \in [Workers -> Jobs] /\ worker[c][w] \in Jobs
           /\ worker[c][w].e \in 0..MaxEntry
           /\ worker[c][w].e = 0 <=> worker[c][w].pc \in {"idle", "exited"}
           /\ worker[c][w].e # 0 => worker[c][w].e \in Entries /\ runner[c] = "run"
           /\ inFlight[c] \in SUBSET Entries /\ queue[c] \in Seq(Entries) /\ ackQueue[c] \in Seq(Entries)
           /\ Len(queue[c]) <= QueueDepth /\ Len(ackQueue[c]) <= QueueDepth
           /\ Len(queue[c]) \in Nat /\ Len(ackQueue[c]) \in Nat
           /\ \A i \in 1..Len(ackQueue[c]) : ackQueue[c][i] \in handled
           /\ inFlight = [inFlight EXCEPT ![c] = inFlight[c]] /\ queue = [queue EXCEPT ![c] = queue[c]]
           /\ ackQueue = [ackQueue EXCEPT ![c] = ackQueue[c]]
           /\ HeldOK(prod[c], inFlight[c], queue[c], worker[c], ackQueue[c], acks[c])
<1>1. /\ LocalTypeOK /\ EndsOK(runner[c], prod[c], worker[c], ackQueue[c], acks[c])
      /\ ResultsOK(worker[c], ackQueue[c], acks[c], handled, dlq)
  BY Here
<1>2. worker[c] \in [Workers -> Jobs] /\ worker[c][w] \in Jobs
  BY <1>1 DEF LocalTypeOK
<1>3. worker[c][w].e \in 0..MaxEntry
  BY <1>2 DEF Jobs
<1>4. /\ worker[c][w].e = 0 <=> worker[c][w].pc \in {"idle", "exited"}
      /\ worker[c][w].pc \in {"idle", "exited"} \/ runner[c] = "run"
  BY <1>1 DEF EndsOK
<1>5. worker[c][w].e # 0 => worker[c][w].e \in Entries
  BY <1>3, EntryFacts DEF Entries
<1>6. /\ inFlight[c] \in SUBSET Entries /\ queue[c] \in Seq(Entries) /\ ackQueue[c] \in Seq(Entries)
      /\ Len(queue[c]) <= QueueDepth /\ Len(ackQueue[c]) <= QueueDepth
      /\ inFlight = [inFlight EXCEPT ![c] = inFlight[c]] /\ queue = [queue EXCEPT ![c] = queue[c]]
      /\ ackQueue = [ackQueue EXCEPT ![c] = ackQueue[c]]
  BY <1>1 DEF LocalTypeOK
<1>7. Len(queue[c]) \in Nat /\ Len(ackQueue[c]) \in Nat
  BY <1>6, LenProperties
<1>8. \A i \in 1..Len(ackQueue[c]) : ackQueue[c][i] \in handled
  BY <1>1 DEF ResultsOK
<1> QED BY <1>2, <1>3, <1>4, <1>5, <1>6, <1>7, <1>8, Here

\* The worker releases its entry.
LEMMA GivesBackInv ==
    ASSUME IInv, NEW c \in Clients, NEW w \in Workers, GivesBack(c, w), worker[c][w].e # 0,
           dlq \subseteq dlq', StoreTypeOK', Settled',
           UNCHANGED <<lifecycle, prod, cursor, acks, runner, queue, ackQueue, handled>>
    PROVE  IInv'
<1> DEFINE e == worker[c][w].e
<1>1. /\ inFlight' = [inFlight EXCEPT ![c] = inFlight[c] \ {e}]
      /\ worker' = [worker EXCEPT ![c] = [worker[c] EXCEPT ![w] = Idle]]
  BY DEF GivesBack, Release
<1>2. HeldOK(prod[c], inFlight[c] \ {e}, queue[c], [worker[c] EXCEPT ![w] = Idle], ackQueue[c], acks[c])
  BY WorkerFacts, OffFacts, WorkerDrops
<1>3. /\ inFlight[c] \ {e} \in SUBSET Entries /\ queue[c] \in Seq(Entries) /\ ackQueue[c] \in Seq(Entries)
      /\ Len(queue[c]) <= QueueDepth /\ Len(ackQueue[c]) <= QueueDepth /\ runner[c] = "run"
      /\ \A i \in 1..Len(ackQueue[c]) : ackQueue[c][i] \in handled'
      /\ queue' = [queue EXCEPT ![c] = queue[c]] /\ ackQueue' = [ackQueue EXCEPT ![c] = ackQueue[c]]
      /\ handled \subseteq handled'
  BY WorkerFacts
<1>4. Idle \in Jobs /\ Idle.e = 0 /\ Idle.pc = "idle"
  BY OffFacts
<1> QED BY <1>1, <1>2, <1>3, <1>4, WorkerInv

\* The worker goes on with its entry.
LEMMA GoesInv ==
    ASSUME IInv, NEW c \in Clients, NEW w \in Workers,
           NEW pc \in {"ack", "dlq", "dlqack", "exited"}, Goes(c, w, pc), runner[c] = "run",
           pc = "exited" <=> worker[c][w].e = 0,
           pc = "ack" => worker[c][w].e \in handled', pc = "dlqack" => worker[c][w].e \in dlq',
           handled \subseteq handled', dlq \subseteq dlq', StoreTypeOK', Settled',
           UNCHANGED <<lifecycle, prod, cursor, acks, runner, queue, ackQueue, inFlight>>
    PROVE  IInv'
<1> DEFINE j == [worker[c][w] EXCEPT !.pc = pc]
<1>1. worker' = [worker EXCEPT ![c] = [worker[c] EXCEPT ![w] = j]]
  BY DEF Goes
<1>2. worker[c][w] \in Jobs
  BY WorkerFacts
<1>3. j \in Jobs /\ j.pc = pc /\ j.e = worker[c][w].e
  BY <1>2 DEF Jobs
<1> HIDE DEF j
<1>4. HeldOK(prod[c], inFlight[c], queue[c], [worker[c] EXCEPT ![w] = j], ackQueue[c], acks[c])
  BY <1>3, WorkerFacts, WorkerKeeps
<1>5. /\ inFlight[c] \in SUBSET Entries /\ queue[c] \in Seq(Entries) /\ ackQueue[c] \in Seq(Entries)
      /\ Len(queue[c]) <= QueueDepth /\ Len(ackQueue[c]) <= QueueDepth
      /\ \A i \in 1..Len(ackQueue[c]) : ackQueue[c][i] \in handled'
      /\ queue' = [queue EXCEPT ![c] = queue[c]] /\ ackQueue' = [ackQueue EXCEPT ![c] = ackQueue[c]]
      /\ inFlight' = [inFlight EXCEPT ![c] = inFlight[c]]
  BY WorkerFacts
<1>6. j.e = 0 <=> j.pc \in {"idle", "exited"}
  BY <1>3
<1> QED BY <1>1, <1>3, <1>4, <1>5, <1>6, WorkerInv

\* A worker takes an entry.
LEMMA TakeInv == ASSUME IInv, NEW c \in Clients, NEW w \in Workers, Take(c, w) PROVE IInv'
<1> DEFINE e == Head(queue[c])
           q == Tail(queue[c])
<1>1. /\ runner[c] = "run" /\ worker[c][w].pc = "idle" /\ queue[c] # <<>>
      /\ queue' = [queue EXCEPT ![c] = q]
      /\ UNCHANGED <<lifecycle, prod, cursor, acks, runner>> /\ UNCHANGED <<ackQueue, handled>>
      /\ UNCHANGED <<scn, published, group, last, pel, dlq, faults>>
  BY DEF Take, At, redis
<1>2. StoreTypeOK' /\ Settled'
  BY <1>1, StoreSame, StoreTypes
<1>3. /\ worker[c] \in [Workers -> Jobs] /\ worker[c][w].e = 0 /\ inFlight[c] \in SUBSET Entries
      /\ ackQueue[c] \in Seq(Entries) /\ Len(ackQueue[c]) <= QueueDepth
      /\ \A i \in 1..Len(ackQueue[c]) : ackQueue[c][i] \in handled'
      /\ ackQueue' = [ackQueue EXCEPT ![c] = ackQueue[c]] /\ queue[c] \in Seq(Entries)
      /\ HeldOK(prod[c], inFlight[c], queue[c], worker[c], ackQueue[c], acks[c])
      /\ handled \subseteq handled' /\ dlq \subseteq dlq'
  BY <1>1, WorkerFacts
<1>4. /\ e \in Entries /\ q \in Seq(Entries) /\ Len(q) <= QueueDepth
  <2>1. Once(queue[c])
    BY <1>3 DEF HeldOK
  <2>2. e \in Entries /\ q \in Seq(Entries) /\ Len(q) = Len(queue[c]) - 1
    BY <1>1, <1>3, <2>1, TailElems
  <2>3. Len(queue[c]) \in Nat /\ Len(queue[c]) <= QueueDepth /\ QueueDepth \in Nat
    BY WorkerFacts, EntryFacts
  <2> QED BY <2>2, <2>3
<1>5. e \in inFlight[c] /\ HeldOK(prod[c], inFlight[c] \ {e}, q, worker[c], ackQueue[c], acks[c])
  BY <1>1, <1>3, QueueDrops
<1> HIDE DEF e, q
<1>6. CASE /\ worker' = [worker EXCEPT ![c][w] = [pc |-> "run", e |-> e]] /\ UNCHANGED inFlight
  <2> DEFINE j == [pc |-> "run", e |-> e]
  <2>1. j \in Jobs /\ j.e = e /\ j.pc = "run" /\ j.e # 0
    BY <1>4, EntryFacts DEF Jobs
  <2>2. worker' = [worker EXCEPT ![c] = [worker[c] EXCEPT ![w] = j]]
    BY <1>6
  <2> HIDE DEF j
  <2>3. HeldOK(prod[c], (inFlight[c] \ {e}) \cup {j.e}, q, [worker[c] EXCEPT ![w] = j], ackQueue[c], acks[c])
    BY <1>3, <1>4, <1>5, <2>1, WorkerAdds
  <2>4. (inFlight[c] \ {e}) \cup {j.e} = inFlight[c] /\ inFlight' = [inFlight EXCEPT ![c] = inFlight[c]]
    BY <1>5, <1>6, <2>1, WorkerFacts
  <2> QED BY <1>1, <1>2, <1>3, <1>4, <2>1, <2>2, <2>3, <2>4, WorkerInv
<1>7. CASE /\ worker' = [worker EXCEPT ![c][w] = [pc |-> "exited", e |-> 0]]
           /\ inFlight' = [inFlight EXCEPT ![c] = inFlight[c] \ {e}]
  <2> DEFINE j == [pc |-> "exited", e |-> 0]
  <2>1. j \in Jobs /\ j.e = 0 /\ j.pc = "exited"
    BY EntryFacts DEF Jobs
  <2>2. worker' = [worker EXCEPT ![c] = [worker[c] EXCEPT ![w] = j]]
    BY <1>7
  <2> HIDE DEF j
  <2>3. HeldOK(prod[c], inFlight[c] \ {e}, q, [worker[c] EXCEPT ![w] = j], ackQueue[c], acks[c])
    BY <1>3, <1>5, <2>1, WorkerKeeps
  <2>4. inFlight[c] \ {e} \in SUBSET Entries
    BY <1>3
  <2> QED BY <1>1, <1>2, <1>3, <1>4, <1>7, <2>1, <2>2, <2>3, <2>4, WorkerInv
<1> QED BY <1>6, <1>7 DEF Take, Release, e

\* A worker ends.
LEMMA WorkerExitsInv == ASSUME IInv, NEW c \in Clients, NEW w \in Workers, WorkerExits(c, w) PROVE IInv'
<1>1. /\ runner[c] = "run" /\ worker[c][w].pc = "idle" /\ Goes(c, w, "exited")
      /\ UNCHANGED <<lifecycle, prod, cursor, acks, runner, queue, ackQueue, inFlight>>
      /\ UNCHANGED <<scn, published, group, last, pel, dlq, faults, handled>>
  BY DEF WorkerExits, At, redis
<1>2. StoreTypeOK' /\ Settled' /\ handled \subseteq handled' /\ dlq \subseteq dlq'
  BY <1>1, StoreSame, StoreTypes
<1>3. worker[c][w].e = 0
  BY <1>1, WorkerFacts
<1> QED BY <1>1, <1>2, <1>3, GoesInv

\* The handler returns in time.
LEMMA HandlerSucceedsInv ==
    ASSUME IInv, NEW c \in Clients, NEW w \in Workers, HandlerSucceeds(c, w) PROVE IInv'
<1> DEFINE e == worker[c][w].e
<1>1. /\ worker[c][w].pc = "run" /\ Goes(c, w, "ack") /\ handled' = handled \cup {e}
      /\ UNCHANGED <<lifecycle, prod, cursor, acks, runner, queue, ackQueue, inFlight>>
      /\ UNCHANGED <<scn, published, group, last, pel, dlq, faults>>
  BY DEF HandlerSucceeds, At, redis
<1>2. e # 0 /\ e \in Entries /\ runner[c] = "run"
  BY <1>1, WorkerFacts
<1>3. StoreTypeOK'
  BY <1>1, <1>2 DEF IInv, TypeOK, StoreTypeOK
<1>4. Settled' /\ handled \subseteq handled' /\ dlq \subseteq dlq' /\ e \in handled'
  BY <1>1, StoreTypes, SettledKept, EntryFacts
<1> QED BY <1>1, <1>2, <1>3, <1>4, GoesInv

\* A handled entry is passed on.
LEMMA SendAckInv == ASSUME IInv, NEW c \in Clients, NEW w \in Workers, SendAck(c, w) PROVE IInv'
<1> DEFINE e == worker[c][w].e
           aq == Append(ackQueue[c], e)
<1>1. /\ worker[c][w].pc = "ack" /\ Len(ackQueue[c]) < QueueDepth
      /\ ackQueue' = [ackQueue EXCEPT ![c] = aq]
      /\ worker' = [worker EXCEPT ![c] = [worker[c] EXCEPT ![w] = Idle]]
      /\ UNCHANGED <<lifecycle, prod, cursor, acks, runner>> /\ UNCHANGED <<inFlight, queue, handled>>
      /\ UNCHANGED <<scn, published, group, last, pel, dlq, faults>>
  BY DEF SendAck, At, redis
<1>2. StoreTypeOK' /\ Settled' /\ handled \subseteq handled' /\ dlq \subseteq dlq'
  BY <1>1, StoreSame, StoreTypes
<1>3. /\ worker[c] \in [Workers -> Jobs] /\ e # 0 /\ e \in Entries /\ inFlight[c] \in SUBSET Entries
      /\ ackQueue[c] \in Seq(Entries) /\ queue[c] \in Seq(Entries) /\ Len(queue[c]) <= QueueDepth
      /\ inFlight' = [inFlight EXCEPT ![c] = inFlight[c]] /\ queue' = [queue EXCEPT ![c] = queue[c]]
      /\ HeldOK(prod[c], inFlight[c], queue[c], worker[c], ackQueue[c], acks[c])
      /\ runner[c] = "run" /\ Idle \in Jobs /\ Idle.e = 0 /\ Idle.pc = "idle"
  BY <1>1, WorkerFacts, OffFacts
<1>4. e \in handled
  BY <1>1, Here DEF ResultsOK
<1>5. /\ aq \in Seq(Entries) /\ Len(aq) <= QueueDepth /\ \A i \in 1..Len(aq) : aq[i] \in handled'
  <2>1. aq \in Seq(Entries) /\ Len(aq) = Len(ackQueue[c]) + 1 /\ Elems(aq) = Elems(ackQueue[c]) \cup {e}
    BY <1>3, AppendElems
  <2>2. Len(ackQueue[c]) \in Nat /\ QueueDepth \in Nat /\ \A i \in 1..Len(ackQueue[c]) : ackQueue[c][i] \in handled
    BY WorkerFacts, EntryFacts
  <2>3. Len(aq) <= QueueDepth
    BY <1>1, <2>1, <2>2
  <2>4. \A x \in Elems(ackQueue[c]) : x \in handled
    BY <2>2 DEF Elems
  <2> HIDE DEF aq
  <2>5. \A i \in 1..Len(aq) : aq[i] \in Elems(aq)
    BY DEF Elems
  <2> QED BY <1>1, <1>4, <2>1, <2>3, <2>4, <2>5
<1>6. /\ HeldOK(prod[c], inFlight[c] \ {e}, queue[c], [worker[c] EXCEPT ![w] = Idle], ackQueue[c], acks[c])
      /\ e \in inFlight[c]
  BY <1>3, WorkerDrops
<1>7. HeldOK(prod[c], (inFlight[c] \ {e}) \cup {e}, queue[c], [worker[c] EXCEPT ![w] = Idle], aq, acks[c])
  BY <1>3, <1>6, AckQueueAdds
<1>8. (inFlight[c] \ {e}) \cup {e} = inFlight[c]
  BY <1>6
<1> HIDE DEF aq
<1> QED BY <1>1, <1>2, <1>3, <1>5, <1>7, <1>8, WorkerInv

\* A forced stop.
LEMMA DropAckInv == ASSUME IInv, NEW c \in Clients, NEW w \in Workers, DropAck(c, w) PROVE IInv'
<1>1. /\ worker[c][w].pc = "ack" /\ GivesBack(c, w)
      /\ UNCHANGED <<lifecycle, prod, cursor, acks, runner, queue, ackQueue, handled>>
      /\ UNCHANGED <<scn, published, group, last, pel, dlq, faults>>
  BY DEF DropAck, At, redis
<1>2. StoreTypeOK' /\ Settled' /\ dlq \subseteq dlq' /\ worker[c][w].e # 0
  BY <1>1, StoreSame, StoreTypes, WorkerFacts
<1> QED BY <1>1, <1>2, GivesBackInv

\* The handler has failed.
LEMMA HandlerFailsInv ==
    ASSUME IInv, NEW c \in Clients, NEW w \in Workers, HandlerFails(c, w) PROVE IInv'
<1>1. /\ worker[c][w].pc = "run" /\ (Fault \/ NoFault)
      /\ GivesBack(c, w) \/ (Goes(c, w, "dlq") /\ UNCHANGED inFlight)
      /\ UNCHANGED <<lifecycle, prod, cursor, acks, runner, queue, ackQueue, handled>>
      /\ UNCHANGED <<scn, published, group, last, pel, dlq>>
  BY DEF HandlerFails, At, redis
<1>2. StoreTypeOK' /\ Settled' /\ handled \subseteq handled' /\ dlq \subseteq dlq'
  BY <1>1, FaultType, StoreSame, StoreTypes, EntryFacts
<1>3. worker[c][w].e # 0 /\ runner[c] = "run"
  BY <1>1, WorkerFacts
<1>4. CASE GivesBack(c, w)
  BY <1>1, <1>2, <1>3, <1>4, GivesBackInv
<1>5. CASE Goes(c, w, "dlq") /\ UNCHANGED inFlight
  <2>1. UNCHANGED <<lifecycle, prod, cursor, acks, runner, queue, ackQueue, inFlight>>
    BY <1>1, <1>5
  <2> QED BY <1>2, <1>3, <1>5, <2>1, GoesInv
<1> QED BY <1>1, <1>4, <1>5

\* A dead letter is written.
LEMMA AddDeadLetterInv ==
    ASSUME IInv, NEW c \in Clients, NEW w \in Workers, AddDeadLetter(c, w) PROVE IInv'
<1> DEFINE e == worker[c][w].e
<1>1. /\ worker[c][w].pc = "dlq" /\ (Fault \/ NoFault) /\ dlq' \in {dlq, dlq \cup {e}}
      /\ UNCHANGED <<lifecycle, prod, cursor, acks, runner, queue, ackQueue, handled>>
      /\ UNCHANGED <<scn, published, group, last, pel>>
      /\ GivesBack(c, w) \/ (Goes(c, w, "dlqack") /\ UNCHANGED inFlight /\ dlq' = dlq \cup {e})
  BY DEF AddDeadLetter, At
<1>2. e # 0 /\ e \in Entries /\ runner[c] = "run"
  BY <1>1, WorkerFacts
<1>3. handled \subseteq handled' /\ dlq \subseteq dlq' /\ dlq' \subseteq Entries
  BY <1>1, <1>2, StoreTypes
<1>4. StoreTypeOK'
  BY <1>1, <1>3, FaultType DEF IInv, TypeOK, StoreTypeOK
<1>5. Settled'
  BY <1>1, <1>3, StoreTypes, SettledKept, EntryFacts
<1>6. CASE GivesBack(c, w)
  BY <1>1, <1>2, <1>3, <1>4, <1>5, <1>6, GivesBackInv
<1>7. CASE Goes(c, w, "dlqack") /\ UNCHANGED inFlight /\ dlq' = dlq \cup {e}
  <2>1. UNCHANGED <<lifecycle, prod, cursor, acks, runner, queue, ackQueue, inFlight>> /\ e \in dlq'
    BY <1>1, <1>7
  <2> QED BY <1>2, <1>3, <1>4, <1>5, <1>7, <2>1, GoesInv
<1> QED BY <1>1, <1>6, <1>7

\* What is acknowledged has been settled.
LEMMA AckOK ==
    ASSUME IInv, NEW es, Ack(es) \/ UNCHANGED pel, es \subseteq handled \cup dlq, Fault \/ NoFault,
           UNCHANGED <<scn, published, group, last, dlq, handled>>
    PROVE  StoreTypeOK' /\ Settled'
<1>1. pel \in [Entries -> PELs]
  BY StoreTypes
<1>2. pel' \in [Entries -> PELs] /\ \A e \in Entries : pel'[e] = pel[e] \/ e \in es
  <2>1. CASE Ack(es)
    BY <1>1, <2>1, NotPendingFacts DEF Ack
  <2>2. CASE UNCHANGED pel
    BY <1>1, <2>2
  <2> QED BY <2>1, <2>2
<1>3. StoreTypeOK'
  BY <1>2, FaultType DEF IInv, TypeOK, StoreTypeOK, PELs
<1>4. \A e \in Entries : pel[e].count > 0 => pel'[e].count > 0 \/ e \in handled' \/ e \in dlq'
  BY <1>2
<1>5. Settled'
  BY <1>4, StoreTypes, SettledKept, EntryFacts
<1> QED BY <1>3, <1>5

\* The entry is acknowledged after its dead letter.
LEMMA AckDeadLetterInv ==
    ASSUME IInv, NEW c \in Clients, NEW w \in Workers, AckDeadLetter(c, w) PROVE IInv'
<1> DEFINE e == worker[c][w].e
<1>1. /\ worker[c][w].pc = "dlqack" /\ (Fault \/ NoFault) /\ GivesBack(c, w)
      /\ UNCHANGED <<lifecycle, prod, cursor, acks, runner, queue, ackQueue, handled>>
      /\ UNCHANGED <<scn, published, group, last, dlq, handled>> /\ (Ack({e}) \/ UNCHANGED pel)
  BY DEF AckDeadLetter, At
<1>2. e # 0 /\ e \in dlq
  BY <1>1, WorkerFacts, Here DEF ResultsOK
<1>3. StoreTypeOK' /\ Settled'
  <2>1. {e} \subseteq handled \cup dlq
    BY <1>2
  <2> QED BY <1>1, <2>1, AckOK
<1>4. dlq \subseteq dlq'
  BY <1>1
<1> QED BY <1>1, <1>2, <1>3, <1>4, GivesBackInv

-------------------------------------------------------------------------------
(* The acknowledging goroutine, and the end of the subscription. *)

(***************************************************************************)
(* A step of the acknowledging goroutine: the acknowledgement queue, the   *)
(* batch and inFlight of its client may have changed.                      *)
(***************************************************************************)
LEMMA AckInv ==
    ASSUME IInv, NEW c \in Clients, NEW aq \in Seq(Entries), NEW as \in Seq(Entries),
           ackQueue' = [ackQueue EXCEPT ![c] = aq], Len(aq) <= QueueDepth,
           acks' = [acks EXCEPT ![c] = as], Len(as) <= AckBatchSize,
           \A i \in 1..Len(aq) : aq[i] \in handled, \A i \in 1..Len(as) : as[i] \in handled,
           runner[c] # "off",
           NEW fs \in SUBSET Entries, inFlight' = [inFlight EXCEPT ![c] = fs],
           StoreTypeOK', Settled',
           UNCHANGED <<lifecycle, prod, cursor, queue, worker, runner, dlq, handled>>,
           HeldOK(prod[c], fs, queue[c], worker[c], aq, as)
    PROVE  IInv'
<1>0. LifecycleTypeOK /\ LocalTypeOK /\ UNCHANGED <<state, ops, sub, pollCtx, workCtx>>
  BY Here DEF lifecycle
<1>1. LifecycleTypeOK'
  BY <1>0 DEF LifecycleTypeOK
<1>2. /\ acks'[c] = as /\ inFlight'[c] = fs /\ ackQueue'[c] = aq
      /\ \A d \in Clients : d # c => /\ acks'[d] = acks[d] /\ inFlight'[d] = inFlight[d]
                                     /\ ackQueue'[d] = ackQueue[d]
  BY <1>0 DEF LocalTypeOK
<1>3. LocalTypeOK'
  <2>1. /\ inFlight' \in [Clients -> SUBSET Entries] /\ acks' \in [Clients -> Seq(Entries)]
        /\ ackQueue' \in [Clients -> Seq(Entries)]
    BY <1>0 DEF LocalTypeOK
  <2>2. \A d \in Clients : Len(acks'[d]) <= AckBatchSize /\ Len(ackQueue'[d]) <= QueueDepth
    BY <1>0, <1>2 DEF LocalTypeOK
  <2> QED BY <1>0, <2>1, <2>2 DEF LocalTypeOK
<1>4. TypeOK'
  BY <1>1, <1>3 DEF TypeOK
<1>5. EndsOK(runner[c], prod[c], worker[c], ackQueue'[c], acks'[c])
  <2>1. EndsOK(runner[c], prod[c], worker[c], ackQueue[c], acks[c])
    BY Here
  <2> QED BY <2>1 DEF EndsOK
<1>6. ResultsOK(worker[c], ackQueue'[c], acks'[c], handled, dlq)
  BY <1>2, Here DEF ResultsOK
<1>7. HeldOK(prod[c], inFlight'[c], queue[c], worker[c], ackQueue'[c], acks'[c])
  BY <1>2
<1> QED BY <1>0, <1>2, <1>4, <1>5, <1>6, <1>7, Here, StepInv

\* What is known of the results of one client.
LEMMA AckFacts ==
    ASSUME IInv, NEW c \in Clients
    PROVE  /\ ackQueue[c] \in Seq(Entries) /\ acks[c] \in Seq(Entries) /\ inFlight[c] \in SUBSET Entries
           /\ Len(ackQueue[c]) \in Nat /\ Len(ackQueue[c]) <= QueueDepth
           /\ Len(acks[c]) \in Nat /\ Len(acks[c]) <= AckBatchSize
           /\ \A e \in Elems(ackQueue[c]) : e \in handled
           /\ \A e \in Elems(acks[c]) : e \in handled
           /\ ackQueue = [ackQueue EXCEPT ![c] = ackQueue[c]]
           /\ inFlight = [inFlight EXCEPT ![c] = inFlight[c]]
           /\ (runner[c] = "off" => ackQueue[c] = <<>> /\ acks[c] = <<>>)
           /\ HeldOK(prod[c], inFlight[c], queue[c], worker[c], ackQueue[c], acks[c])
<1>1. /\ LocalTypeOK /\ EndsOK(runner[c], prod[c], worker[c], ackQueue[c], acks[c])
      /\ ResultsOK(worker[c], ackQueue[c], acks[c], handled, dlq)
  BY Here
<1>2. /\ ackQueue[c] \in Seq(Entries) /\ acks[c] \in Seq(Entries) /\ inFlight[c] \in SUBSET Entries
      /\ Len(ackQueue[c]) <= QueueDepth /\ Len(acks[c]) <= AckBatchSize
      /\ ackQueue = [ackQueue EXCEPT ![c] = ackQueue[c]]
      /\ inFlight = [inFlight EXCEPT ![c] = inFlight[c]]
  BY <1>1 DEF LocalTypeOK
<1>3. Len(ackQueue[c]) \in Nat /\ Len(acks[c]) \in Nat
  BY <1>2, LenProperties
<1>4. (\A e \in Elems(ackQueue[c]) : e \in handled) /\ (\A e \in Elems(acks[c]) : e \in handled)
  BY <1>1 DEF ResultsOK, Elems
<1>5. runner[c] = "off" => ackQueue[c] = <<>> /\ acks[c] = <<>>
  BY <1>1 DEF EndsOK
<1> QED BY <1>2, <1>3, <1>4, <1>5, Here

\* A result is collected.
LEMMA CollectAckInv == ASSUME IInv, NEW c \in Clients, CollectAck(c) PROVE IInv'
<1> DEFINE e == Head(ackQueue[c])
           aq == Tail(ackQueue[c])
           as == Append(acks[c], e)
<1>1. /\ runner[c] \in {"run", "ackclosed"} /\ ackQueue[c] # <<>> /\ Len(acks[c]) < AckBatchSize
      /\ ackQueue' = [ackQueue EXCEPT ![c] = aq] /\ acks' = [acks EXCEPT ![c] = as]
      /\ UNCHANGED <<lifecycle, prod, cursor, queue, worker, runner, dlq, handled>>
      /\ UNCHANGED <<scn, published, group, last, pel, faults, inFlight>>
  BY DEF CollectAck, redis
<1>2. StoreTypeOK' /\ Settled'
  BY <1>1, StoreSame, StoreTypes
<1>3. /\ e \in Elems(ackQueue[c]) /\ e \in Entries /\ aq \in Seq(Entries)
      /\ Len(aq) = Len(ackQueue[c]) - 1 /\ Elems(aq) = Elems(ackQueue[c]) \ {e}
  <2>1. Once(ackQueue[c])
    BY Here DEF HeldOK
  <2> QED BY <1>1, <2>1, AckFacts, TailElems
<1>4. as \in Seq(Entries) /\ Len(as) = Len(acks[c]) + 1 /\ Elems(as) = Elems(acks[c]) \cup {e}
  BY <1>3, AckFacts, AppendElems
<1>5. HeldOK(prod[c], inFlight[c], queue[c], worker[c], aq, as)
  BY <1>1, AckFacts, AckQueueDrops
<1>6. /\ Len(aq) <= QueueDepth /\ Len(as) <= AckBatchSize /\ runner[c] # "off"
  BY <1>1, <1>3, <1>4, AckFacts, EntryFacts
<1> HIDE DEF aq, as, e
<1>7. (\A i \in 1..Len(aq) : aq[i] \in handled) /\ (\A i \in 1..Len(as) : as[i] \in handled)
  <2>1. (\A i \in 1..Len(aq) : aq[i] \in Elems(aq)) /\ (\A i \in 1..Len(as) : as[i] \in Elems(as))
    BY DEF Elems
  <2> QED BY <1>3, <1>4, <2>1, AckFacts
<1>8. inFlight[c] \in SUBSET Entries /\ inFlight' = [inFlight EXCEPT ![c] = inFlight[c]]
  BY <1>1, AckFacts
<1> QED BY <1>1, <1>2, <1>3, <1>4, <1>5, <1>6, <1>7, <1>8, AckInv

\* The batch is acknowledged.
LEMMA FlushInv == ASSUME IInv, NEW c \in Clients, Flush(c) PROVE IInv'
<1> DEFINE batch == {acks[c][i] : i \in DOMAIN acks[c]}
<1>1. /\ acks[c] # <<>> /\ (Ack(batch) \/ UNCHANGED pel) /\ (Fault \/ NoFault)
      /\ acks' = [acks EXCEPT ![c] = <<>>]
      /\ inFlight' = [inFlight EXCEPT ![c] = inFlight[c] \ batch]
      /\ UNCHANGED <<lifecycle, prod, cursor, queue, worker, runner, dlq, handled>>
      /\ UNCHANGED <<scn, published, group, last, dlq, handled>> /\ UNCHANGED ackQueue
  BY DEF Flush, Release
<1>2. batch = Elems(acks[c])
  <2>1. DOMAIN acks[c] = 1..Len(acks[c])
    BY AckFacts, LenProperties
  <2> QED BY <2>1 DEF Elems
<1> HIDE DEF batch
<1>3. StoreTypeOK' /\ Settled'
  <2>1. batch \subseteq handled \cup dlq
    BY <1>2, AckFacts
  <2> QED BY <1>1, <2>1, AckOK
<1>4. HeldOK(prod[c], inFlight[c] \ batch, queue[c], worker[c], ackQueue[c], <<>>)
  BY <1>2, AckFacts, AcksDrop
<1>5. /\ <<>> \in Seq(Entries) /\ Len(<<>>) <= AckBatchSize /\ \A i \in 1..Len(<<>>) : <<>>[i] \in handled
      /\ ackQueue[c] \in Seq(Entries) /\ Len(ackQueue[c]) <= QueueDepth
      /\ \A i \in 1..Len(ackQueue[c]) : ackQueue[c][i] \in handled
      /\ ackQueue' = [ackQueue EXCEPT ![c] = ackQueue[c]] /\ runner[c] # "off"
      /\ inFlight[c] \ batch \in SUBSET Entries
  <2>1. <<>> \in Seq(Entries) /\ Len(<<>>) <= AckBatchSize /\ \A i \in 1..Len(<<>>) : <<>>[i] \in handled
    BY EmptyElems, EntryFacts
  <2>2. \A i \in 1..Len(ackQueue[c]) : ackQueue[c][i] \in handled
    BY AckFacts DEF Elems
  <2> QED BY <1>1, <2>1, <2>2, AckFacts
<1> QED BY <1>1, <1>3, <1>4, <1>5, AckInv

\* The acknowledgement queue is closed.
LEMMA CloseAckQueueInv == ASSUME IInv, NEW c \in Clients, CloseAckQueue(c) PROVE IInv'
<1>1. /\ runner[c] = "run" /\ ~pollCtx[c] /\ \A p \in Producers : ~prod[c][p].on
      /\ \A w \in Workers : worker[c][w].pc = "exited"
      /\ runner' = [runner EXCEPT ![c] = "ackclosed"]
      /\ UNCHANGED <<state, ops, sub, pollCtx, workCtx>>
      /\ UNCHANGED <<prod, cursor, inFlight, queue, worker, ackQueue, acks, dlq, handled>>
      /\ UNCHANGED <<scn, published, group, last, pel, faults>>
  BY DEF CloseAckQueue, ProducersDone, WorkersDone, At, redis, lifecycle
<1>2. StoreTypeOK' /\ Settled'
  BY <1>1, StoreSame, StoreTypes
<1>3. LifecycleTypeOK /\ LocalTypeOK
  BY Here
<1>4. runner'[c] = "ackclosed" /\ \A d \in Clients : d # c => runner'[d] = runner[d]
  BY <1>1, <1>3 DEF LocalTypeOK
<1>5. TypeOK'
  <2>1. LifecycleTypeOK'
    BY <1>1, <1>3 DEF LifecycleTypeOK
  <2>2. LocalTypeOK'
    BY <1>1, <1>3 DEF LocalTypeOK
  <2> QED BY <1>2, <2>1, <2>2 DEF TypeOK
<1>6. LifeOK(state[c], ops[c], sub[c], pollCtx[c], runner'[c])
  BY <1>1, <1>4, Here DEF LifeOK
<1>7. EndsOK(runner'[c], prod[c], worker[c], ackQueue[c], acks[c])
  <2>1. EndsOK(runner[c], prod[c], worker[c], ackQueue[c], acks[c])
    BY Here
  <2> QED BY <1>1, <1>4, <2>1 DEF EndsOK
<1> QED BY <1>1, <1>2, <1>4, <1>5, <1>6, <1>7, Here, StepInv

\* The subscription ends.
LEMMA FinishSubscriptionInv == ASSUME IInv, NEW c \in Clients, FinishSubscription(c) PROVE IInv'
<1>1. /\ runner[c] = "ackclosed" /\ ackQueue[c] = <<>> /\ acks[c] = <<>>
      /\ sub' = [sub EXCEPT ![c] = "finished"] /\ pollCtx' = [pollCtx EXCEPT ![c] = FALSE]
      /\ workCtx' = [workCtx EXCEPT ![c] = FALSE]
      /\ runner' = [runner EXCEPT ![c] = "off"] /\ queue' = [queue EXCEPT ![c] = <<>>]
      /\ inFlight' = [inFlight EXCEPT ![c] = {}] /\ cursor' = [cursor EXCEPT ![c] = 0]
      /\ UNCHANGED <<state, ops, prod, worker, ackQueue, acks, dlq, handled>>
      /\ UNCHANGED <<scn, published, group, last, pel, faults>>
  BY CleanupOK DEF FinishSubscription, CleanupOwn, Finish
<1>2. StoreTypeOK' /\ Settled'
  BY <1>1, StoreSame, StoreTypes
<1>3. LifecycleTypeOK /\ LocalTypeOK
  BY Here
<1>4. /\ runner'[c] = "off" /\ queue'[c] = <<>> /\ inFlight'[c] = {}
      /\ \A d \in Clients : d # c => /\ runner'[d] = runner[d] /\ queue'[d] = queue[d]
                                     /\ inFlight'[d] = inFlight[d]
  BY <1>1, <1>3 DEF LocalTypeOK
<1>5. /\ sub'[c] = "finished" /\ pollCtx'[c] = FALSE
      /\ \A d \in Clients : d # c => sub'[d] = sub[d] /\ pollCtx'[d] = pollCtx[d]
  BY <1>1, <1>3 DEF LifecycleTypeOK
<1>6. TypeOK'
  <2>1. LifecycleTypeOK'
    BY <1>1, <1>3 DEF LifecycleTypeOK
  <2>2. LocalTypeOK'
    BY <1>1, <1>3, EmptyElems, EntryFacts DEF LocalTypeOK
  <2> QED BY <1>2, <2>1, <2>2 DEF TypeOK
<1>7. LifeOK(state[c], ops[c], sub'[c], pollCtx'[c], runner'[c])
  BY <1>1, <1>4, <1>5, Here DEF LifeOK
<1>8. EndsOK(runner[c], prod[c], worker[c], ackQueue[c], acks[c])
  BY Here
<1>9. /\ \A p \in Producers : prod[c][p] = Off
      /\ \A w \in Workers : worker[c][w].e = 0 /\ worker[c][w].pc \in {"idle", "exited"}
  BY <1>1, <1>8 DEF EndsOK
<1>10. EndsOK(runner'[c], prod[c], worker[c], ackQueue[c], acks[c])
  BY <1>1, <1>4, <1>8, <1>9, OffFacts DEF EndsOK
<1>11. HeldOK(prod[c], inFlight'[c], queue'[c], worker[c], ackQueue[c], acks[c])
  <2>1. Waits(prod[c]) = {} /\ Works(worker[c]) = {}
    BY <1>9, OffFacts DEF Waits, Works
  <2> QED BY <1>1, <1>4, <1>9, <2>1, OffFacts, EmptyElems DEF HeldOK, Apart
<1> QED BY <1>1, <1>2, <1>4, <1>5, <1>6, <1>7, <1>10, <1>11, Here, StepInv

-------------------------------------------------------------------------------
(* Every step, and what the invariant says. *)

\* A step of one client.
LEMMA ClientInv ==
    ASSUME IInv, NEW c \in Clients,
           \/ BeginPublish(c) \/ BeginSubscribe(c) \/ Caller(c)
           \/ PollLoop(c) \/ ReclaimLoop(c) \/ Runner(c)
           \/ \E w \in Workers : Worker(c, w)
           \/ Ends(c) \/ Crash(c)
    PROVE  IInv'
<1>1. CASE BeginPublish(c) \/ BeginSubscribe(c)
  BY <1>1, BeginInv
<1>2. CASE Caller(c)
  BY <1>2, EndInv, SubscribeInv, EndsInv DEF Caller
<1>3. CASE PollLoop(c)
  BY <1>3, PollInv, RestoreGroupInv, EnqueueInv, PutInv, LoopExitsInv DEF PollLoop, Producers
<1>4. CASE ReclaimLoop(c)
  BY <1>4, ReclaimInv, RestoreGroupInv, CleanupStaleInv, EnqueueInv, PutInv, LoopExitsInv
     DEF ReclaimLoop, Producers
<1>5. CASE Runner(c)
  BY <1>5, CollectAckInv, FlushInv, CloseAckQueueInv, FinishSubscriptionInv DEF Runner
<1>6. CASE \E w \in Workers : Worker(c, w)
  BY <1>6, TakeInv, WorkerExitsInv, HandlerSucceedsInv, HandlerFailsInv, SendAckInv, DropAckInv,
     AddDeadLetterInv, AckDeadLetterInv DEF Worker
<1>7. CASE Ends(c)
  BY <1>7, EndsInv DEF Ends
<1>8. CASE Crash(c)
  BY <1>8, CrashInv
<1> QED BY <1>1, <1>2, <1>3, <1>4, <1>5, <1>6, <1>7, <1>8

\* Every step preserves the invariant.
LEMMA NextInv == IInv /\ [Next]_vars => IInv'
<1> SUFFICES ASSUME IInv, [Next]_vars PROVE IInv'
  OBVIOUS
<1>1. CASE \E c \in Clients : \/ BeginPublish(c) \/ BeginSubscribe(c) \/ Caller(c)
                              \/ PollLoop(c) \/ ReclaimLoop(c) \/ Runner(c)
                              \/ \E w \in Workers : Worker(c, w)
                              \/ Ends(c) \/ Crash(c)
  BY <1>1, ClientInv
<1>2. CASE \E e \in Entries : BecomesIdle(e)
  BY <1>2, BecomesIdleInv
<1>3. CASE LoseGroup
  BY <1>3, LoseGroupInv
<1>4. CASE UNCHANGED vars
  <2>1. /\ UNCHANGED <<scn, published, group, last, pel, dlq, handled, faults, cursor>>
        /\ UNCHANGED <<lifecycle, prod, inFlight, queue, worker, ackQueue, acks, runner>>
    BY <1>4 DEF vars, redis, local
  <2>2. StoreTypeOK' /\ Settled'
    BY <2>1, StoreSame, StoreTypes, EntryFacts
  <2>3. cursor' \in [Clients -> 0..MaxEntry] /\ handled \subseteq handled' /\ dlq \subseteq dlq'
    BY <2>1 DEF IInv, TypeOK, LocalTypeOK
  <2> QED BY <2>1, <2>2, <2>3, StoreInv
<1> QED BY <1>1, <1>2, <1>3, <1>4 DEF Next

\* The inductive invariant holds in every reachable state.
THEOREM Invariance == Spec => []IInv
BY InitInv, NextInv, PTL DEF Spec

\* Every variable keeps to its type: the queues and the batch within their
\* limits, delivery counts within the budget.
THEOREM TypeCorrect == Spec => []TypeOK
<1>1. IInv => TypeOK
  BY DEF IInv
<1> QED BY <1>1, Invariance, PTL

\* With a group that starts at the first entry, no entry that it has delivered
\* is lost: acknowledgements, consumer cleanup, crashes, forced stops, lost
\* answers and a lost group included.
THEOREM NoEntryLost == ASSUME FromStart PROVE Spec => []NothingLost
<1>1. IInv => NothingLost
  BY DEF IInv, Settled, NothingLost
<1> QED BY <1>1, Invariance, PTL

\* Two places where a client holds an entry are the same place.
LEMMA OnePlace ==
    ASSUME IInv, NEW c \in Clients, NEW e \in Entries, NEW x \in Holds(c, e), NEW y \in Holds(c, e)
    PROVE  x = y
<1> DEFINE A == {<<"loop", p>> : p \in {q \in Producers : prod[c][q].marked /\ First(prod[c][q].msgs) = e}}
           B == {<<"queue", i>> : i \in {j \in DOMAIN queue[c] : queue[c][j] = e}}
           C == {<<"worker", w>> : w \in {v \in Workers : worker[c][v].e = e}}
           D == {<<"ackQueue", i>> : i \in {j \in DOMAIN ackQueue[c] : ackQueue[c][j] = e}}
           E == {<<"acks", i>> : i \in {j \in DOMAIN acks[c] : acks[c][j] = e}}
<1>1. Holds(c, e) = A \cup B \cup C \cup D \cup E
  BY DEF Holds
<1>2. /\ DOMAIN queue[c] = 1..Len(queue[c]) /\ DOMAIN ackQueue[c] = 1..Len(ackQueue[c])
      /\ DOMAIN acks[c] = 1..Len(acks[c]) /\ e # 0
  <2>1. queue[c] \in Seq(Entries) /\ ackQueue[c] \in Seq(Entries) /\ acks[c] \in Seq(Entries)
    BY AckFacts DEF IInv, TypeOK, LocalTypeOK
  <2> QED BY <2>1, LenProperties, EntryFacts
<1>3. HeldOK(prod[c], inFlight[c], queue[c], worker[c], ackQueue[c], acks[c])
  BY Here
<1>4. (A # {} => e \in Waits(prod[c])) /\ \A a, b \in A : a = b
  BY <1>3 DEF HeldOK, Waits
<1>5. (B # {} => e \in Elems(queue[c])) /\ \A a, b \in B : a = b
  BY <1>2, <1>3 DEF HeldOK, Elems, Once
<1>6. (C # {} => e \in Works(worker[c])) /\ \A a, b \in C : a = b
  BY <1>2, <1>3 DEF HeldOK, Works
<1>7. (D # {} => e \in Elems(ackQueue[c])) /\ \A a, b \in D : a = b
  BY <1>2, <1>3 DEF HeldOK, Elems, Once
<1>8. (E # {} => e \in Elems(acks[c])) /\ \A a, b \in E : a = b
  BY <1>2, <1>3 DEF HeldOK, Elems, Once
<1>9. Apart(Waits(prod[c]), Elems(queue[c]), Works(worker[c]), Elems(ackQueue[c]), Elems(acks[c]))
  BY <1>3 DEF HeldOK
<1> HIDE DEF A, B, C, D, E
<1> QED BY <1>1, <1>4, <1>5, <1>6, <1>7, <1>8, <1>9 DEF Apart

\* An entry is held where it is found.
LEMMA HeldSomewhere ==
    ASSUME IInv, NEW c \in Clients, NEW e \in Entries
    PROVE  e \in inFlight[c] <=> Holds(c, e) # {}
<1>1. /\ DOMAIN queue[c] = 1..Len(queue[c]) /\ DOMAIN ackQueue[c] = 1..Len(ackQueue[c])
      /\ DOMAIN acks[c] = 1..Len(acks[c]) /\ e # 0
  <2>1. queue[c] \in Seq(Entries) /\ ackQueue[c] \in Seq(Entries) /\ acks[c] \in Seq(Entries)
    BY AckFacts DEF IInv, TypeOK, LocalTypeOK
  <2> QED BY <2>1, LenProperties, EntryFacts
<1>2. /\ e \in Waits(prod[c]) <=>
           {<<"loop", p>> : p \in {q \in Producers : prod[c][q].marked /\ First(prod[c][q].msgs) = e}} # {}
      /\ e \in Works(worker[c]) <=> {<<"worker", w>> : w \in {v \in Workers : worker[c][v].e = e}} # {}
  BY <1>1 DEF Waits, Works
<1>3. /\ e \in Elems(queue[c]) <=> {<<"queue", i>> : i \in {j \in DOMAIN queue[c] : queue[c][j] = e}} # {}
      /\ e \in Elems(ackQueue[c]) <=>
           {<<"ackQueue", i>> : i \in {j \in DOMAIN ackQueue[c] : ackQueue[c][j] = e}} # {}
      /\ e \in Elems(acks[c]) <=> {<<"acks", i>> : i \in {j \in DOMAIN acks[c] : acks[c][j] = e}} # {}
  BY <1>1 DEF Elems
<1>4. e \in inFlight[c] <=> \/ e \in Waits(prod[c]) \/ e \in Elems(queue[c]) \/ e \in Works(worker[c])
                            \/ e \in Elems(ackQueue[c]) \/ e \in Elems(acks[c])
  BY Here DEF HeldOK
<1> QED BY <1>2, <1>3, <1>4 DEF Holds

\* inFlight marks what a consumer holds, in one place each.
THEOREM HeldOnce == Spec => []InFlightIsHeld
<1>1. IInv => InFlightIsHeld
  <2> SUFFICES ASSUME IInv, NEW c \in Clients, NEW e \in Entries
               PROVE  Cardinality(Holds(c, e)) <= 1 /\ (e \in inFlight[c] <=> Holds(c, e) # {})
    BY DEF InFlightIsHeld
  <2>1. Cardinality(Holds(c, e)) <= 1
    <3>1. CASE Holds(c, e) = {}
      BY <3>1, FS_EmptySet
    <3>2. CASE Holds(c, e) # {}
      <4>1. PICK x : x \in Holds(c, e)
        BY <3>2
      <4>2. Holds(c, e) = {x}
        BY <4>1, OnePlace
      <4>3. Cardinality({x}) = 1
        BY FS_Singleton, Zenon
      <4> QED BY <4>2, <4>3
    <3> QED BY <3>1, <3>2
  <2> QED BY <2>1, HeldSomewhere
<1> QED BY <1>1, Invariance, PTL

\* A subscription is finished, and a client closed, only when nothing of it is
\* left at work.
THEOREM ReleasesDrained == Spec => []ReleaseAfterDrain
<1>1. IInv => ReleaseAfterDrain
  <2> SUFFICES ASSUME IInv, NEW c \in Clients
               PROVE  /\ sub[c] = "finished" =>
                           /\ runner[c] = "off" /\ ProducersDone(c)
                           /\ ackQueue[c] = <<>> /\ acks[c] = <<>>
                           /\ \A w \in Workers : worker[c][w].pc \in {"idle", "exited"}
                      /\ state[c] = "closed" => ops[c] = {} /\ sub[c] # "tracked"
    BY DEF ReleaseAfterDrain
  <2>1. /\ state[c] = "closed" => ops[c] = {} /\ sub[c] # "tracked"
        /\ sub[c] = "finished" => runner[c] = "off"
    <3>1. runner[c] \in {"off", "run", "ackclosed"}
      BY DEF IInv, TypeOK, LocalTypeOK
    <3> QED BY <3>1, Here DEF LifeOK
  <2>2. EndsOK(runner[c], prod[c], worker[c], ackQueue[c], acks[c])
    BY Here
  <2>3. runner[c] = "off" => /\ ProducersDone(c) /\ ackQueue[c] = <<>> /\ acks[c] = <<>>
                             /\ \A w \in Workers : worker[c][w].pc \in {"idle", "exited"}
    BY <2>2, OffFacts DEF EndsOK, ProducersDone
  <2> QED BY <2>1, <2>3
<1> QED BY <1>1, Invariance, PTL
===============================================================================
