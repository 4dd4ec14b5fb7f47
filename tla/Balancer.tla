-------------------------------- MODULE Balancer --------------------------------
(***************************************************************************)
(* The health and load data a serviceState keeps of its instances: pick,   *)
(* which Resolve ends with, Report, and the topology changes that module   *)
(* Registry decides about.  The fields of an instanceState are atomics, so *)
(* every load, store and compare-and-swap that others can observe is a     *)
(* step; the topology is under the read-write lock mu, which pick holds    *)
(* for reading to its end.                                                 *)
(*                                                                         *)
(* Latencies are left out: which of two candidates has the lower score is  *)
(* a choice.                                                               *)
(***************************************************************************)
EXTENDS Integers, Sequences, FiniteSets, SequencesExt

CONSTANTS
    Ids,               \* ids of the service's instances, in the order etcd lists them
    Endpoints,
    Callers,           \* goroutines that resolve and report
    FailureThreshold, EjectionDuration,
    MaxItems,          \* bound: instanceStates
    Scenarios          \* the snapshots, puts and removals that come from etcd;
                       \* bounds: callers at one time, topology changes, the clock

ASSUME BalancerAssumption ==
    /\ Ids \subseteq Nat /\ IsFiniteSet(Ids)
    /\ {FailureThreshold, EjectionDuration, MaxItems} \subseteq Nat \ {0}
    /\ \A s \in Scenarios :
         /\ s.puts \subseteq Ids \X Endpoints /\ s.removes \subseteq Ids
         /\ {s.callers, s.changes, s.time} \subseteq Nat
         /\ s.snapshots \subseteq [Ids -> Endpoints \cup {"none"}]

VARIABLES
    scn,       \* the scenario; it never changes
    now,
    changes,   \* topology changes so far
    used,      \* instanceStates 1..used have been created
    item,      \* item[i]: an instanceState
    instances, \* by id, 0 if there is none
    items,     \* the dense slice of candidates
    call,      \* call[c]: where a caller is in pick, between, or in Report
    blamed     \* ghost: <<id, endpoint>> of which a failure was reported

vars == <<scn, now, changes, used, item, instances, items, call, blamed>>
ItemRange == 1..MaxItems
None == "none"

NewItem(id, endpoint, index) ==
    [id |-> id, endpoint |-> endpoint, index |-> index, inflight |-> 0,
     failures |-> 0, until |-> 0, half |-> FALSE]
Unused == NewItem(0, None, 0)
\* A caller: its candidates, the time it read, the endpoint it was given, the
\* outcome it reports, what failures.Add returned.
Idle == [pc |-> "idle", chosen |-> 0, second |-> 0, t |-> 0, endpoint |-> None,
         outcome |-> None, failures |-> 0]

Picking == {"chosen", "claim", "second", "claimSecond", "take"}   \* holds mu
Reporting == {"dec", "valid", "succeeds", "readmits", "closes",
              "fails", "judges", "clears", "reopens", "ejects"}
PCs == {"idle", "held"} \cup Picking \cup Reporting

TypeOK ==
    /\ scn \in Scenarios /\ now \in Nat /\ changes \in 0..scn.changes
    /\ used \in 0..MaxItems
    /\ item \in [ItemRange -> [id : {0} \cup Ids, endpoint : Endpoints \cup {None}, index : Nat,
                               inflight : Nat, failures : Nat, until : Nat, half : BOOLEAN]]
    /\ instances \in [Ids -> 0..used]
    /\ items \in Seq(1..used)
    /\ call \in [Callers -> [pc : PCs, chosen : 0..used, second : 0..used, t : Nat,
                             endpoint : Endpoints \cup {None},
                             outcome : {None, "success", "failure"}, failures : Nat]]
    /\ blamed \subseteq Ids \X Endpoints

-------------------------------------------------------------------------------
(* Topology, under the write lock. *)

Listed(ids) == SetToSortSeq(ids, <)
Exclusive == \A c \in Callers : call[c].pc \notin Picking

\* replaceLocked: an instance whose endpoint stays keeps its health data.
Replaced(content) ==
    LET list == Listed({id \in Ids : content[id] # None})
        At(id) == CHOOSE k \in 1..Len(list) : list[k] = id
        Kept(id) == instances[id] # 0 /\ item[instances[id]].endpoint = content[id]
        fresh == SelectSeq(list, LAMBDA id : ~Kept(id))
        ItemOf(id) == IF Kept(id) THEN instances[id]
                      ELSE used + (CHOOSE k \in 1..Len(fresh) : fresh[k] = id)
    IN /\ used + Len(fresh) <= MaxItems
       /\ used' = used + Len(fresh)
       /\ item' = [i \in ItemRange |->
                     IF \E id \in ToSet(fresh) : i = ItemOf(id)
                     THEN LET id == fresh[i - used] IN NewItem(id, content[id], At(id))
                     ELSE IF \E id \in ToSet(list) : i = ItemOf(id)
                     THEN [item[i] EXCEPT !.index = At(item[i].id)] ELSE item[i]]
       /\ instances' = [id \in Ids |-> IF content[id] = None THEN 0 ELSE ItemOf(id)]
       /\ items' = [k \in 1..Len(list) |-> ItemOf(list[k])]

Init ==
    /\ scn \in Scenarios
    /\ now = 1 /\ changes = 0 /\ used = 0
    /\ item = [i \in ItemRange |-> Unused]
    /\ instances = [id \in Ids |-> 0] /\ items = <<>>
    /\ call = [c \in Callers |-> Idle]
    /\ blamed = {}

Change == /\ Exclusive /\ changes < scn.changes /\ changes' = changes + 1
          /\ UNCHANGED <<scn, now, call, blamed>>

ReplaceInstances(content) == Change /\ Replaced(content)

\* Faulty: an instance that moved keeps its instanceState.
PutInPlace(id, endpoint) ==
    /\ instances[id] # 0
    /\ item' = [item EXCEPT ![instances[id]].endpoint = endpoint]
    /\ UNCHANGED <<used, instances, items>>

\* putLocked of an instance that is there: health data stay with the endpoint.
PutKnown(id, endpoint) ==
    /\ instances[id] # 0
    /\ IF item[instances[id]].endpoint = endpoint THEN UNCHANGED <<used, item, instances, items>>
       ELSE LET index == item[instances[id]].index IN
            /\ used < MaxItems /\ used' = used + 1
            /\ item' = [item EXCEPT ![used + 1] = NewItem(id, endpoint, index)]
            /\ instances' = [instances EXCEPT ![id] = used + 1]
            /\ items' = [items EXCEPT ![index] = used + 1]

\* putLocked of a new one.
PutNew(id, endpoint) ==
    /\ instances[id] = 0
    /\ used < MaxItems /\ used' = used + 1
    /\ item' = [item EXCEPT ![used + 1] = NewItem(id, endpoint, Len(items) + 1)]
    /\ instances' = [instances EXCEPT ![id] = used + 1]
    /\ items' = Append(items, used + 1)

PutInstance(id, endpoint) == Change /\ (PutKnown(id, endpoint) \/ PutNew(id, endpoint))

\* The tail of the slice takes the place of the removed instance.
SwapTail(index) ==
    /\ items' = Front([items EXCEPT ![index] = items[Len(items)]])
    /\ item' = [item EXCEPT ![items[Len(items)]].index = index]

\* removeLocked.
RemoveInstance(id) ==
    /\ Change
    /\ IF instances[id] = 0 THEN UNCHANGED <<item, items, instances>>
       ELSE /\ SwapTail(item[instances[id]].index)
            /\ instances' = [instances EXCEPT ![id] = 0]
    /\ UNCHANGED used

Tick == /\ now < scn.time /\ now' = now + 1
        /\ UNCHANGED <<scn, changes, used, item, instances, items, call, blamed>>

-------------------------------------------------------------------------------
(* pick *)

At(c, pc) == call[c].pc = pc
Own(c, r) == call' = [call EXCEPT ![c] = r]
Goes(c, pc) == Own(c, [call[c] EXCEPT !.pc = pc])
Topology == UNCHANGED <<scn, now, changes, used, instances, items>>
Local == Topology /\ UNCHANGED <<item, blamed>>
Set(i, r) == item' = [item EXCEPT ![i] = r]

Eligible(i, t) == item[i].until = 0 \/ (t >= item[i].until /\ ~item[i].half)
\* With nothing eligible: the one, not being probed, that is out of ejection first.
FailOpen ==
    LET open == {i \in ToSet(items) : ~item[i].half}
    IN {i \in open : \A j \in open : item[i].until <= item[j].until}

\* The candidates at time t, two of them if two are eligible; the scores decide
\* whether the first or the second is chosen.  Nothing to pick ends the call.
Scan(c) ==
    /\ At(c, "idle") /\ Cardinality({d \in Callers : ~At(d, "idle")}) < scn.callers
    /\ \E t \in {now - 1, now} :          \* read before the lock was taken
         LET E == {i \in ToSet(items) : Eligible(i, t)}
             Picks(i, second) == Own(c, [Idle EXCEPT !.pc = "chosen", !.t = t,
                                                     !.chosen = i, !.second = second])
         IN \/ \E first, second \in E : first # second /\ \E i \in {first, second} : Picks(i, second)
            \/ Cardinality(E) = 1 /\ \E i \in E : Picks(i, 0)
            \/ E = {} /\ \E i \in FailOpen : Picks(i, 0)
    /\ Local

\* Whether an ejected item's time is over, so that it has to be claimed.
Expired(i, t) == item[i].until # 0 /\ t >= item[i].until

\* The chosen one's ejectedUntil is loaded ...
LoadUntil(c) ==
    /\ At(c, "chosen")
    /\ Goes(c, IF Expired(call[c].chosen, call[c].t) THEN "claim" ELSE "take")
    /\ Local

\* ... its halfOpen claimed by compare-and-swap, or else the second is tried.
Claim(c) ==
    LET i == call[c].chosen IN
    /\ At(c, "claim")
    /\ \/ /\ ~item[i].half
          /\ Set(i, [item[i] EXCEPT !.half = TRUE]) /\ Goes(c, "take")
       \/ /\ item[i].half /\ UNCHANGED item
          /\ IF call[c].second = 0 THEN Own(c, Idle)
             ELSE Own(c, [call[c] EXCEPT !.pc = "second", !.chosen = call[c].second])
    /\ Topology /\ UNCHANGED blamed

\* reserve
Reserve(c) ==
    /\ At(c, "second")
    /\ Goes(c, IF Expired(call[c].chosen, call[c].t) THEN "claimSecond" ELSE "take")
    /\ Local

ClaimSecond(c) ==
    LET i == call[c].chosen IN
    /\ At(c, "claimSecond")
    /\ \/ /\ ~item[i].half
          /\ Set(i, [item[i] EXCEPT !.half = TRUE]) /\ Goes(c, "take")
       \/ item[i].half /\ UNCHANGED item /\ Own(c, Idle)
    /\ Topology /\ UNCHANGED blamed

\* inflight is raised, the lock released, the resolution bound to the endpoint.
Take(c) ==
    LET i == call[c].chosen IN
    /\ At(c, "take")
    /\ Set(i, [item[i] EXCEPT !.inflight = @ + 1])
    /\ Own(c, [Idle EXCEPT !.pc = "held", !.chosen = i, !.endpoint = item[i].endpoint])
    /\ Topology /\ UNCHANGED blamed

-------------------------------------------------------------------------------
(* Report and complete *)

\* The first Report of a resolution.
Report(c, outcome) ==
    /\ At(c, "held")
    /\ Own(c, [call[c] EXCEPT !.pc = "dec", !.outcome = outcome, !.t = now])
    /\ blamed' = IF outcome = "failure"
                 THEN blamed \cup {<<item[call[c].chosen].id, call[c].endpoint>>} ELSE blamed
    /\ Topology /\ UNCHANGED item

\* A step of complete that stores into the item.
Completes(c, from, r, to) ==
    /\ At(c, from) /\ Set(call[c].chosen, r)
    /\ IF to = "idle" THEN Own(c, Idle) ELSE Goes(c, to)
    /\ Topology /\ UNCHANGED blamed

Held(c) == item[call[c].chosen]
Finish(c) == Completes(c, "dec", [Held(c) EXCEPT !.inflight = IF @ <= 0 THEN @ ELSE @ - 1], "valid")

\* An item that is not the current one of its id, or moved, is left alone.
Validate(c) ==
    LET current == instances[Held(c).id] IN
    /\ At(c, "valid")
    /\ IF current = call[c].chosen /\ Held(c).endpoint = call[c].endpoint
       THEN Goes(c, IF call[c].outcome = "success" THEN "succeeds" ELSE "fails")
       ELSE Own(c, Idle)
    /\ Local

\* Success: three stores.
Succeeds(c) == Completes(c, "succeeds", [Held(c) EXCEPT !.failures = 0], "readmits")
Readmits(c) == Completes(c, "readmits", [Held(c) EXCEPT !.until = 0], "closes")
Closes(c) == Completes(c, "closes", [Held(c) EXCEPT !.half = FALSE], "idle")

\* Failure: it is counted; the threshold, or a failed probe, ejects in three stores.
Fails(c) ==
    /\ At(c, "fails")
    /\ Set(call[c].chosen, [Held(c) EXCEPT !.failures = @ + 1])
    /\ Own(c, [call[c] EXCEPT !.pc = "judges", !.failures = Held(c).failures + 1])
    /\ Topology /\ UNCHANGED blamed

\* Faulty: a failed probe counts like any other failure.
CountsOnly(c) == call[c].failures >= FailureThreshold

MustEject(c) == Held(c).half \/ call[c].failures >= FailureThreshold
Judges(c) ==
    /\ At(c, "judges")
    /\ IF MustEject(c) THEN Goes(c, "clears") ELSE Own(c, Idle)
    /\ Local

Clears(c) == Completes(c, "clears", [Held(c) EXCEPT !.failures = 0], "reopens")
Reopens(c) == Completes(c, "reopens", [Held(c) EXCEPT !.half = FALSE], "ejects")
Ejects(c) == Completes(c, "ejects", [Held(c) EXCEPT !.until = call[c].t + EjectionDuration], "idle")

-------------------------------------------------------------------------------
Pick(c) == LoadUntil(c) \/ Claim(c) \/ Reserve(c) \/ ClaimSecond(c) \/ Take(c)
Complete(c) ==
    \/ Finish(c) \/ Validate(c) \/ Succeeds(c) \/ Readmits(c) \/ Closes(c)
    \/ Fails(c) \/ Judges(c) \/ Clears(c) \/ Reopens(c) \/ Ejects(c)

Next ==
    \/ Tick
    \/ \E content \in scn.snapshots : ReplaceInstances(content)
    \/ \E put \in scn.puts : PutInstance(put[1], put[2])
    \/ \E id \in scn.removes : RemoveInstance(id)
    \/ \E c \in Callers : Scan(c) \/ Pick(c) \/ Complete(c)
                          \/ \E outcome \in {"success", "failure"} : Report(c, outcome)

Spec == Init /\ [][Next]_vars

-------------------------------------------------------------------------------
(* Properties. *)

\* The callers that have claimed the probe of i or have been given i.
Using(i) == {c \in Callers : call[c].chosen = i /\ call[c].pc \in {"take", "held"} \cup Reporting}

\* A half-open instance is being probed: whatever reports and picks interleave
\* between the stores of a report, no instance is left half open, hence closed
\* to everybody, once all resolutions of it are reported.
NoOrphanProbe == \A i \in ToSet(items) : item[i].half => Using(i) # {}

\* inflight, which steers the choice, is the number of resolutions that are out.
InflightExact ==
    \A i \in ItemRange :
        item[i].inflight = Cardinality({c \in Using(i) : call[c].pc \in {"held", "dec"}})

\* An endpoint is ejected only by failures reported of itself: not by those of
\* the endpoint its id had before, reported late or counted earlier.
EjectedByOwnReports ==
    \A i \in ToSet(items) : item[i].until # 0 => <<item[i].id, item[i].endpoint>> \in blamed

\* After any sequence of snapshots, puts and removals pick chooses among exactly
\* the current instances, each of them once.
PickableIsCurrent ==
    /\ ToSet(items) = {instances[id] : id \in Ids} \ {0}
    /\ \A j, k \in 1..Len(items) : items[j] = items[k] => j = k
===============================================================================
