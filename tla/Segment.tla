-------------------------------- MODULE Segment --------------------------------
(***************************************************************************)
(* pkg/idgen/segment: generators that take segments of ids from one row of *)
(* a shared table (storage.go initTag, fetchSegment) and hand them out     *)
(* from a double buffer (segment.go Init, GetID, nextID, loadNext, Close). *)
(* One business tag is modelled: tags share nothing but the closing.       *)
(***************************************************************************)
EXTENDS Integers, FiniteSets

CONSTANTS
    Gens,           \* generators, one per process
    Callers,        \* goroutines that call Init and GetID
    GenOf,          \* the generator a caller uses
    Steps, Starts,  \* arguments of Init
    DefaultStep,
    MaxInt,         \* the greatest int64
    MaxCalls,       \* bound: calls of Init and GetID
    MaxFails        \* bound: database operations that fail or lose their answer

ASSUME SegmentAssumption ==
    /\ GenOf \in [Callers -> Gens]
    /\ Steps \subseteq Nat \ {0} /\ DefaultStep \in Nat \ {0} /\ Starts \subseteq 0..MaxInt
    /\ MaxInt \in Nat /\ MaxCalls \in Nat /\ MaxFails \in Nat

VARIABLES
    row,     \* the row of the tag: [max, step], or NoRow
    buf,     \* buf[g]: its segmentBuffer
    loader,  \* loader[g]: the preloading goroutine: idle, fetch, or its result
    call,    \* call[c]: the call the caller is in, and where
    issued,  \* history: ids returned, as [gen, nth, id]
    closed, returned,   \* closed[g]: Close was called; it has returned
    calls, fails

vars == <<row, buf, loader, call, issued, closed, returned, calls, fails>>

NoRow == [max |-> -1, step |-> 0]
NoSegment == [first |-> 0, last |-> -1, cur |-> 0]
\* state: absent, init (its creator is at work) or ready.  locked: mu is held
\* across a synchronous fetch.
NoBuffer == [state |-> "absent", current |-> NoSegment, exhausted |-> FALSE,
             next |-> NoSegment, loading |-> FALSE, locked |-> FALSE]
NoCall == [at |-> "out", kind |-> "none", start |-> 0, step |-> 0]
Idle == [state |-> "idle", segment |-> NoSegment]

\* int64 addition of one.
Succ(i) == IF i = MaxInt THEN -MaxInt - 1 ELSE i + 1

Init == /\ row = NoRow
        /\ buf = [g \in Gens |-> NoBuffer]
        /\ loader = [g \in Gens |-> Idle]
        /\ call = [c \in Callers |-> NoCall]
        /\ issued = {}
        /\ closed = [g \in Gens |-> FALSE] /\ returned = [g \in Gens |-> FALSE]
        /\ calls = 0 /\ fails = 0

-------------------------------------------------------------------------------
(* The database *)

\* Faulty: an existing tag starts anew.
InitTagReset(start, step) == row' = [max |-> start, step |-> step]
\* initTag: a new row, or the new step for an old one.
InitTag(start, step) ==
    row' = IF row = NoRow THEN [max |-> start, step |-> step] ELSE [row EXCEPT !.step = step]

\* makeSegment, of the row fetchSegment leaves.
MakeSegment == LET max == row.max + row.step IN
    [first |-> row.max + 1, last |-> max, cur |-> row.max + 1]
\* fetchSegment adds the step unless that would overflow.
CanFetch == row # NoRow /\ row.max <= MaxInt - row.step
Fetch == CanFetch /\ row' = [row EXCEPT !.max = @ + row.step]

\* fetchSegment of generator g returns an error: the id space is used up, or the
\* statement failed or was cancelled (by its caller or by Close), perhaps after
\* it took effect.
FetchFails(g) ==
    \/ ~CanFetch /\ UNCHANGED <<row, fails>>
    \/ /\ \/ closed[g] /\ UNCHANGED fails
          \/ fails < MaxFails /\ fails' = fails + 1
       /\ Fetch \/ UNCHANGED row

-------------------------------------------------------------------------------
(* Init and GetID up to a ready buffer *)

At(c, where) == call[c].at = where
Goto(c, where) == call' = [call EXCEPT ![c].at = where]
ReturnFrom(c) == call' = [call EXCEPT ![c] = NoCall]
\* The callers of a generator that wait at one place.
Waiting(g, where) == {c \in Callers : GenOf[c] = g /\ At(c, where)}

\* getOrCreateBuffer: the first caller creates the buffer and initialises it.
Call(c, a) ==
    LET g == GenOf[c] IN
    /\ At(c, "out") /\ ~closed[g] /\ calls < MaxCalls
    /\ calls' = calls + 1
    /\ \/ /\ buf[g].state = "absent"
          /\ buf' = [buf EXCEPT ![g].state = "init"]
          /\ call' = [call EXCEPT ![c] = [a EXCEPT !.at = "tag"]]
       \/ /\ buf[g].state # "absent"
          /\ call' = [call EXCEPT ![c] = [a EXCEPT !.at = "wait"]]
          /\ UNCHANGED buf
    /\ UNCHANGED <<row, loader, issued, closed, returned, fails>>

\* initializeBuffer, first statement.
CreatorTags(c) ==
    /\ At(c, "tag")
    /\ InitTag(call[c].start, call[c].step)
    /\ Goto(c, "first")
    /\ UNCHANGED <<buf, loader, issued, closed, returned, calls, fails>>

\* initializeBuffer, second statement; ready is closed.  GetID goes on to look
\* at ready like everybody else.
CreatorFetches(c) ==
    /\ At(c, "first")
    /\ Fetch
    /\ buf' = [buf EXCEPT ![GenOf[c]].state = "ready", ![GenOf[c]].current = MakeSegment]
    /\ \/ call[c].kind = "get" /\ Goto(c, "wait")
       \/ call[c].kind = "init" /\ ReturnFrom(c)
    /\ UNCHANGED <<loader, issued, closed, returned, calls, fails>>

\* Either fails: the buffer is removed and all who wait for it get the error.
\* (A statement that failed may have taken effect.)
CreatorFails(c) ==
    LET g == GenOf[c] IN
    /\ \/ At(c, "first") /\ FetchFails(g)
       \/ /\ At(c, "tag")
          /\ \/ closed[g] /\ UNCHANGED fails
             \/ fails < MaxFails /\ fails' = fails + 1
          /\ UNCHANGED row \/ InitTag(call[c].start, call[c].step)
    /\ buf' = [buf EXCEPT ![g] = NoBuffer]
    /\ call' = [x \in Callers |-> IF x = c \/ x \in Waiting(g, "wait") THEN NoCall ELSE call[x]]
    /\ UNCHANGED <<loader, issued, closed, returned, calls>>

\* The buffer is ready: GetID goes on, a repeated Init sets the step.
Ready(c) ==
    /\ At(c, "wait") /\ buf[GenOf[c]].state = "ready"
    /\ \/ call[c].kind = "get" /\ Goto(c, "next") /\ UNCHANGED row
       \/ /\ call[c].kind = "init" /\ InitTag(call[c].start, call[c].step)
          /\ ReturnFrom(c)
    /\ UNCHANGED <<buf, loader, issued, closed, returned, calls, fails>>

\* The caller's context ends, or the generator is closed, while it waits for
\* ready or for loadDone; or the repeated initTag fails.
GiveUp(c) ==
    /\ call[c].at \in {"wait", "loading"}
    /\ ReturnFrom(c)
    /\ UNCHANGED <<row, buf, loader, issued, closed, returned, calls, fails>>

-------------------------------------------------------------------------------
(* nextID *)

Spent(b) == b.exhausted \/ b.current.cur > b.current.last

\* Faulty: no separate mark for the last id.
AdvanceAlways(b) == [b EXCEPT !.current.cur = Succ(@)]
\* The buffer after its current id was handed out.
Advance(b) == IF b.current.cur = b.current.last THEN [b EXCEPT !.exhausted = TRUE]
              ELSE [b EXCEPT !.current.cur = Succ(@)]

\* maybeStartPreloadLocked: a fifth of the segment is used.
Preload(b, id) == LET total == b.current.last - b.current.first + 1
                      used == id - b.current.first + 1
                  IN ~b.loading /\ b.next = NoSegment /\ used * 5 >= total

\* Nothing to hand out, and nobody is loading: the caller must.
MustLoad(b) == Spent(b) /\ b.next = NoSegment /\ ~b.loading

\* The end of nextID: the caller gets the current id of b, and returns or goes
\* on, still under mu, to start the preload.
HandOut(c, b) ==
    LET g == GenOf[c]
        id == b.current.cur
        start == Preload(b, id)
    IN /\ issued' = issued \cup {[gen |-> g, nth |-> Cardinality({x \in issued : x.gen = g}),
                                  id |-> id]}
       /\ buf' = [buf EXCEPT ![g] = [Advance(b) EXCEPT !.loading = @ \/ start, !.locked = start]]
       /\ IF start THEN Goto(c, "start") ELSE ReturnFrom(c)
       /\ UNCHANGED loader

\* Under mu: an id at once, after a switch to the next segment, or not yet.
NextID(c) ==
    LET g == GenOf[c]
        b == buf[g]
        switched == [b EXCEPT !.current = b.next, !.exhausted = FALSE, !.next = NoSegment]
    IN /\ At(c, "next") /\ ~b.locked
       /\ \/ ~Spent(b) /\ HandOut(c, b)
          \/ Spent(b) /\ b.next # NoSegment /\ HandOut(c, switched)
          \/ /\ Spent(b) /\ b.next = NoSegment /\ b.loading
             /\ Goto(c, "loading") /\ UNCHANGED <<buf, loader, issued>>
          \/ /\ MustLoad(b)
             /\ buf' = [buf EXCEPT ![g].locked = TRUE]
             /\ Goto(c, "sync") /\ UNCHANGED <<loader, issued>>
       /\ UNCHANGED <<row, closed, returned, calls, fails>>

\* The fetch of the caller that holds mu.
SyncFetch(c) ==
    LET b == buf[GenOf[c]] IN
    /\ At(c, "sync") /\ Fetch
    /\ HandOut(c, [b EXCEPT !.current = MakeSegment, !.exhausted = FALSE])
    /\ UNCHANGED <<closed, returned, calls, fails>>

SyncFails(c) ==
    /\ At(c, "sync") /\ FetchFails(GenOf[c])
    /\ buf' = [buf EXCEPT ![GenOf[c]].locked = FALSE]
    /\ ReturnFrom(c)
    /\ UNCHANGED <<loader, issued, closed, returned, calls>>

-------------------------------------------------------------------------------
(* The preload and Close *)

\* Faulty: a failed preload leaves its waiters waiting.
WakeOnSuccess(g) == [c \in Callers |->
    IF c \in Waiting(g, "loading") /\ loader[g].segment # NoSegment
    THEN [call[c] EXCEPT !.at = "next"] ELSE call[c]]
\* Closing loadDone: every waiter looks again.
WakeWaiters(g) == [c \in Callers |->
    IF c \in Waiting(g, "loading") THEN [call[c] EXCEPT !.at = "next"] ELSE call[c]]

\* startAsync under asyncMu: refused once closed ...
StartRefused(c) ==
    LET g == GenOf[c] IN
    /\ At(c, "start") /\ closed[g]
    /\ buf' = [buf EXCEPT ![g].loading = FALSE, ![g].locked = FALSE]
    /\ call' = [WakeWaiters(g) EXCEPT ![c] = NoCall]
    /\ UNCHANGED <<row, loader, issued, closed, returned, calls, fails>>

\* ... else about to add to asyncWG, asyncMu still held ...
StartAllowed(c) ==
    /\ At(c, "start") /\ ~closed[GenOf[c]]
    /\ Goto(c, "spawn")
    /\ UNCHANGED <<row, buf, loader, issued, closed, returned, calls, fails>>

\* ... and the goroutine runs.
Spawn(c) ==
    LET g == GenOf[c] IN
    /\ At(c, "spawn")
    /\ loader' = [loader EXCEPT ![g] = [Idle EXCEPT !.state = "fetch"]]
    /\ buf' = [buf EXCEPT ![g].locked = FALSE]
    /\ ReturnFrom(c)
    /\ UNCHANGED <<row, issued, closed, returned, calls, fails>>

LoaderFetches(g) ==
    /\ loader[g].state = "fetch" /\ Fetch
    /\ loader' = [loader EXCEPT ![g] = [state |-> "done", segment |-> MakeSegment]]
    /\ UNCHANGED <<buf, call, issued, closed, returned, calls, fails>>

\* The fetch failed, timed out or was cancelled by Close.
LoaderFails(g) ==
    /\ loader[g].state = "fetch" /\ FetchFails(g)
    /\ loader' = [loader EXCEPT ![g].state = "done"]
    /\ UNCHANGED <<buf, call, issued, closed, returned, calls>>

\* What loadNext leaves; a failed fetch has no segment.
StoreNext(g) == [buf[g] EXCEPT !.next = loader[g].segment, !.loading = FALSE]

\* The goroutine ends: asyncWG.Done.
Done(g) == Idle

\* loadNext, under mu.
LoaderStores(g) ==
    /\ loader[g].state = "done" /\ ~buf[g].locked
    /\ buf' = [buf EXCEPT ![g] = StoreNext(g)]
    /\ call' = WakeWaiters(g)
    /\ loader' = [loader EXCEPT ![g] = Done(g)]
    /\ UNCHANGED <<row, issued, closed, returned, calls, fails>>

Close(g) ==
    /\ ~closed[g]
    /\ closed' = [closed EXCEPT ![g] = TRUE]
    /\ UNCHANGED <<row, buf, loader, call, issued, returned, calls, fails>>

\* Close's Lock and Unlock of asyncMu: nobody is between check and Add.
Barrier(g) == \A c \in Callers : GenOf[c] = g => ~At(c, "spawn")

\* The barrier (nobody can pass the check once closed is set), then asyncWG.Wait.
CloseReturns(g) ==
    /\ closed[g] /\ ~returned[g] /\ Barrier(g) /\ loader[g] = Idle
    /\ returned' = [returned EXCEPT ![g] = TRUE]
    /\ UNCHANGED <<row, buf, loader, call, issued, closed, calls, fails>>

\* GetID initialises an unknown tag with 0 and the default step.
Args == {[at |-> "out", kind |-> "init", start |-> i, step |-> s] : i \in Starts, s \in Steps}
          \cup {[at |-> "out", kind |-> "get", start |-> 0, step |-> DefaultStep]}

CallerStep(c) == \/ CreatorTags(c) \/ CreatorFetches(c) \/ CreatorFails(c) \/ Ready(c)
                 \/ NextID(c) \/ SyncFetch(c) \/ SyncFails(c)
                 \/ StartRefused(c) \/ StartAllowed(c) \/ Spawn(c)
LoaderStep(g) == LoaderFetches(g) \/ LoaderFails(g) \/ LoaderStores(g)

Next == \/ \E c \in Callers, a \in Args : Call(c, a)
        \/ \E c \in Callers : CallerStep(c) \/ GiveUp(c)
        \/ \E g \in Gens : LoaderStep(g) \/ Close(g) \/ CloseReturns(g)

Spec == Init /\ [][Next]_vars

\* Goroutines run and database calls end (the preload has a timeout).
Fairness == /\ \A c \in Callers : WF_vars(CallerStep(c))
            /\ \A g \in Gens : WF_vars(LoaderStep(g)) /\ WF_vars(CloseReturns(g))

FairSpec == Spec /\ Fairness

-------------------------------------------------------------------------------
Ints == (-MaxInt - 1)..MaxInt
Segments == [first : Ints, last : Ints, cur : Ints]
Places == {"out", "tag", "first", "wait", "next", "loading", "sync", "start", "spawn"}
Buffers == [state : {"absent", "init", "ready"}, current : Segments, exhausted : BOOLEAN,
            next : Segments, loading : BOOLEAN, locked : BOOLEAN]
Loaders == [state : {"idle", "fetch", "done"}, segment : Segments]
CallStates == [at : Places, kind : {"none", "init", "get"}, start : 0..MaxInt, step : Nat]

\* Types of the variables; no number leaves the int64 range.
TypeOK ==
    /\ row \in [max : -1..MaxInt, step : Nat]
    /\ buf \in [Gens -> Buffers] /\ loader \in [Gens -> Loaders]
    /\ call \in [Callers -> CallStates]
    /\ issued \subseteq [gen : Gens, nth : Nat, id : Ints]
    /\ closed \in [Gens -> BOOLEAN] /\ returned \in [Gens -> BOOLEAN]
    /\ calls \in 0..MaxCalls /\ fails \in 0..MaxFails

\* No id is handed out twice, by any generators, whatever fails and whoever
\* changes the step or initialises the tag again.
UniqueIDs == \A x, y \in issued : x.id = y.id => x = y

\* A generator's ids increase, across its switches of segments and up to the
\* greatest int64 (nextID, exhausted).
IncreasingIDs == \A x, y \in issued : x.gen = y.gen /\ x.nth < y.nth => x.id < y.id

\* Every call returns: nobody waits for a buffer or a preload that is gone.  And
\* Close returns; from then on no preload runs or will be started (startAsync and
\* Close, "与后台任务的 Add 建立互斥屏障").
CallsAndCloseEnd ==
    /\ \A c \in Callers : ~At(c, "out") ~> At(c, "out")
    /\ \A g \in Gens : closed[g] ~> returned[g]
    /\ [](\A g \in Gens : returned[g] =>
            loader[g] = Idle /\ \A c \in Callers : GenOf[c] = g => ~At(c, "spawn"))
===============================================================================
