-------------------------------- MODULE Registry --------------------------------
(***************************************************************************)
(* One Registry of pkg/registry/etcd and the etcd it talks to: Resolve     *)
(* with the lazily created cache of a service, the watch that keeps the    *)
(* cache up to date, forced refreshes, the sweeper that evicts idle        *)
(* caches, Register with its lease, and Close.  There is one service; the  *)
(* instance "me" is registered through this Registry, the other ones       *)
(* change on their own.                                                    *)
(*                                                                         *)
(* etcd is external: hist[r] is the content at revision r, one event leads *)
(* from each revision to the next.  An instance is absent, there, or there *)
(* with a value that cannot be decoded.  Which endpoint a Resolve picks,   *)
(* and whether all of them are ejected, is left to module Balancer.        *)
(***************************************************************************)
EXTENDS Integers, Sequences, FiniteSets

CONSTANTS
    Instances,   \* instance ids, "me" among them
    Resolvers,   \* goroutines that call Resolve
    MaxStates,   \* bound: caches created for the service
    Scenarios    \* which calls happen; bounds: changes of the other instances, faults;
                 \* whether etcd may answer with a header revision beyond its events

Me == "me"
Values == {"none", "ok", "bad"}
States == 1..MaxStates

ASSUME RegistryAssumption ==
    /\ IsFiniteSet(Instances) /\ Me \in Instances /\ IsFiniteSet(Resolvers)
    /\ MaxStates \in Nat \ {0}
    /\ \A s \in Scenarios :
         /\ s.resolvers \subseteq Resolvers /\ {s.changes, s.faults} \subseteq Nat
         /\ {s.evict, s.register, s.close, s.lead} \subseteq BOOLEAN

VARIABLES
    scn,     \* the scenario; it never changes
    hist,    \* hist[r]: what etcd holds at revision r
    changes, \* changes of the other instances so far
    faults,  \* faults so far
    lease,   \* the lease of "me": it exists in etcd; it is kept alive
    reg,     \* how far Register and the registration of "me" are
    service, \* r.services[name]: the current cache, or 0
    st,      \* st[s]: a serviceState and its watch goroutine
    res,     \* res[r]: where a Resolve is, with which cache
    closed   \* how far Close is

vars == <<scn, hist, changes, faults, lease, reg, service, st, res, closed>>

Rev == Len(hist)
Empty == [i \in Instances |-> "none"]
\* What a load makes of a content: values that cannot be decoded are skipped.
Decoded(content) == [i \in Instances |-> IF content[i] = "ok" THEN "ok" ELSE "none"]

\* A serviceState as newServiceState makes it.
\*   pc      the watch goroutine: load, apply, watch, events, backoff, ended
\*   live    its context;  active  Resolve calls that hold it
\*   rev, content, ready, refreshing  the fields of these names
\*   refreshed   lastRefresh is set
\*   snap    revision of the load under way
\*   from    next event of the watch;  to  last one of the response under way
\*   header  header revision of the watch's last response
New == [pc |-> "load", live |-> TRUE, active |-> 0, rev |-> 0, content |-> Empty,
        ready |-> FALSE, refreshing |-> FALSE, refreshed |-> FALSE, snap |-> 0, from |-> 0, to |-> 0, header |-> 0]
Unused == [New EXCEPT !.pc = "none", !.live = FALSE]
Out == [pc |-> "out", s |-> 0, snap |-> 0]

WatchPCs == {"none", "load", "apply", "watch", "events", "backoff", "ended"}
ResolvePCs == {"out", "miss", "got", "wait", "refresh", "load", "apply", "follow", "followed"}

TypeOK ==
    /\ scn \in Scenarios
    /\ hist \in Seq([Instances -> Values]) /\ hist # <<>>
    /\ changes \in 0..scn.changes /\ faults \in 0..scn.faults
    /\ lease \in [live : BOOLEAN, kept : BOOLEAN]
    /\ reg \in {"out", "granted", "kept", "put", "open", "aborting", "finishing", "over"}
    /\ service \in {0} \cup States
    /\ st \in [States -> [pc : WatchPCs, live : BOOLEAN, active : Nat, rev : Nat,
                          content : [Instances -> Values], ready : BOOLEAN,
                          refreshing : BOOLEAN, refreshed : BOOLEAN, snap : Nat, from : Nat, to : Nat, header : Nat]]
    /\ res \in [Resolvers -> [pc : ResolvePCs, s : {0} \cup States, snap : Nat]]
    /\ closed \in {"no", "flagged", "cancelled", "returned"}

Init ==
    /\ scn \in Scenarios
    /\ hist = <<Empty>> /\ changes = 0 /\ faults = 0
    /\ lease = [live |-> FALSE, kept |-> FALSE] /\ reg = "out"
    /\ service = 0 /\ st = [s \in States |-> Unused]
    /\ res = [r \in Resolvers |-> Out]
    /\ closed = "no"

Fault == faults < scn.faults /\ faults' = faults + 1
NoFault == UNCHANGED faults

-------------------------------------------------------------------------------
(* etcd. *)

SetTo(i, v) == hist' = Append(hist, [hist[Rev] EXCEPT ![i] = v])

\* Another instance registers, ends, or writes what cannot be decoded.
PeerChanges(i, v) ==
    /\ i # Me /\ v # hist[Rev][i] /\ changes < scn.changes
    /\ SetTo(i, v) /\ changes' = changes + 1
    /\ UNCHANGED <<scn, faults, lease, reg, service, st, res, closed>>

\* The end of the lease, by Revoke or expiry, deletes the key.
EndLease(kept) ==
    /\ lease' = [live |-> FALSE, kept |-> kept]
    /\ IF lease.live /\ hist[Rev][Me] = "ok" THEN SetTo(Me, "none") ELSE UNCHANGED hist

\* Nobody keeps the lease alive for its time to live, or (a fault) keepalives
\* do not get through.
LeaseExpires ==
    /\ lease.live
    /\ \/ ~lease.kept /\ NoFault
       \/ lease.kept /\ Fault
    /\ EndLease(lease.kept)
    /\ UNCHANGED <<scn, changes, reg, service, st, res, closed>>

-------------------------------------------------------------------------------
(* Register and the registration. *)

\* The check of closed, and Grant.
RegisterBegins ==
    /\ scn.register /\ reg = "out" /\ closed = "no"
    /\ lease' = [live |-> TRUE, kept |-> FALSE]
    /\ reg' = "granted"
    /\ UNCHANGED <<scn, hist, changes, faults, service, st, res, closed>>

\* KeepAlive runs in the registry's context.
KeepAlive ==
    /\ reg = "granted"
    /\ \/ /\ closed \in {"no", "flagged"}
          /\ lease' = [lease EXCEPT !.kept = TRUE] /\ reg' = "kept" /\ NoFault
       \/ closed \notin {"no", "flagged"} /\ reg' = "aborting" /\ UNCHANGED lease /\ NoFault
       \/ reg' = "aborting" /\ UNCHANGED lease /\ Fault
    /\ UNCHANGED <<scn, hist, changes, service, st, res, closed>>

\* Put under the lease; a Put that fails may have taken effect.
PutInstance ==
    /\ reg = "kept"
    /\ \/ lease.live /\ SetTo(Me, "ok") /\ reg' = "put" /\ NoFault
       \/ ~lease.live /\ UNCHANGED hist /\ reg' = "aborting" /\ NoFault
       \/ lease.live /\ SetTo(Me, "ok") /\ reg' = "aborting" /\ Fault
       \/ UNCHANGED hist /\ reg' = "aborting" /\ Fault
    /\ UNCHANGED <<scn, changes, lease, service, st, res, closed>>

\* A registry that was closed meanwhile gives the registration up.
TrackRegistration ==
    /\ reg = "put"
    /\ reg' = IF closed = "no" THEN "open" ELSE "aborting"
    /\ UNCHANGED <<scn, hist, changes, faults, lease, service, st, res, closed>>

\* The way out of Register: keepalives end, the lease is revoked if etcd answers.
AbortRegister ==
    /\ reg = "aborting" /\ reg' = "over"
    /\ \/ EndLease(FALSE) /\ NoFault
       \/ lease' = [lease EXCEPT !.kept = FALSE] /\ UNCHANGED hist /\ Fault
    /\ UNCHANGED <<scn, changes, service, st, res, closed>>

\* registration.Close by its owner.
CloseRegistration ==
    /\ reg = "open" /\ reg' = "finishing"
    /\ UNCHANGED <<scn, hist, changes, faults, lease, service, st, res, closed>>

\* finish with revoke.
FinishRegistration ==
    /\ reg = "finishing" /\ reg' = "over"
    /\ \/ EndLease(FALSE) /\ NoFault
       \/ lease' = [lease EXCEPT !.kept = FALSE] /\ UNCHANGED hist /\ Fault
    /\ UNCHANGED <<scn, changes, service, st, res, closed>>

\* monitor: the keepalive channel has ended; finish without revoke.
MonitorEnds ==
    /\ reg = "open" /\ ~(lease.live /\ lease.kept)
    /\ reg' = "over" /\ lease' = [lease EXCEPT !.kept = FALSE]
    /\ UNCHANGED <<scn, hist, changes, faults, service, st, res, closed>>

-------------------------------------------------------------------------------
(* The topology of a cache. *)

\* Faulty: the last load wins.
ReplaceAlways(c, r) == [c EXCEPT !.content = Decoded(hist[r]), !.rev = r]

\* replaceAt: a snapshot that is older than the cache is dropped.
ReplaceAt(c, r) ==
    IF r < c.rev THEN c ELSE [c EXCEPT !.content = Decoded(hist[r]), !.rev = r]

\* The event that leads to revision r, as putAt or removeAt apply it with the
\* header's revision; a value that cannot be decoded is skipped.
Changed(r) == CHOOSE i \in Instances : hist[r][i] # hist[r - 1][i]
ApplyEvent(c, r, header) ==
    LET i == Changed(r)  v == hist[r][i] IN
    IF header < c.rev \/ v = "bad" THEN c
    ELSE [c EXCEPT !.content[i] = v, !.rev = header]

\* load, once the answer is there: the cache is ready.
Loaded(c, r) == [ReplaceAt(c, r) EXCEPT !.ready = TRUE]

-------------------------------------------------------------------------------
(* The watch goroutine of a cache. *)

Watch(s, c) ==
    /\ st' = [st EXCEPT ![s] = c]
    /\ UNCHANGED <<scn, hist, changes, lease, reg, service, res, closed>>

\* Get is answered.
WatchLoads(s) ==
    /\ st[s].pc = "load" /\ st[s].live
    /\ Watch(s, [st[s] EXCEPT !.pc = "apply", !.snap = Rev]) /\ NoFault

\* Faulty: only an answer makes the cache ready.
WatchLoadFailsQuietly(s) ==
    /\ st[s].pc = "load"
    /\ \/ ~st[s].live /\ NoFault
       \/ st[s].live /\ Fault
    /\ Watch(s, [st[s] EXCEPT !.pc = "backoff"])

\* Get fails, always so once the context has ended: whoever waits is let go.
WatchLoadFails(s) ==
    /\ st[s].pc = "load"
    /\ \/ ~st[s].live /\ NoFault
       \/ st[s].live /\ Fault
    /\ Watch(s, [st[s] EXCEPT !.pc = "backoff", !.ready = TRUE])

\* The snapshot is applied and the watch starts behind it.
WatchApplies(s) ==
    LET c == st[s] IN
    /\ st[s].pc = "apply"
    /\ Watch(s, [Loaded(c, c.snap) EXCEPT !.pc = "watch", !.from = c.snap + 1, !.snap = 0])
    /\ NoFault

\* A response: some events, and a header revision, which is etcd's when it was
\* sent: it never decreases from one response of a watch to the next.
WatchResponds(s) ==
    LET c == st[s] IN
    /\ st[s].pc = "watch" /\ c.live
    /\ \E to \in c.from..Rev : \E header \in to..Rev :
         /\ header >= c.header /\ (scn.lead \/ header = to)
         /\ Watch(s, [c EXCEPT !.pc = "events", !.to = to, !.header = header])
    /\ NoFault

\* One event of the response; after the last one advanceRevision.
WatchEvent(s) ==
    LET c == st[s]
        d == [ApplyEvent(c, c.from, c.header) EXCEPT !.from = @ + 1]
    IN /\ st[s].pc = "events"
       /\ Watch(s, IF c.from < c.to THEN d
                   ELSE [d EXCEPT !.pc = "watch", !.to = 0, !.rev = IF c.header > @ THEN c.header ELSE @])
       /\ NoFault

\* Faulty: a watch that was cancelled is not set up again.
WatchGivesUp(s) ==
    /\ st[s].pc = "watch"
    /\ \/ ~st[s].live /\ NoFault
       \/ st[s].live /\ Fault
    /\ Watch(s, [st[s] EXCEPT !.pc = "ended", !.from = 0, !.header = 0])

\* The watch is cancelled (compaction, lost connection), or the context ends.
WatchBreaks(s) ==
    /\ st[s].pc = "watch"
    /\ \/ ~st[s].live /\ NoFault
       \/ st[s].live /\ Fault
    /\ Watch(s, [st[s] EXCEPT !.pc = IF st[s].live THEN "backoff" ELSE "ended",
                               !.from = 0, !.header = 0])

\* After the delay everything is loaded again.
WatchBacksOff(s) ==
    /\ st[s].pc = "backoff"
    /\ Watch(s, [st[s] EXCEPT !.pc = IF st[s].live THEN "load" ELSE "ended"])
    /\ NoFault

-------------------------------------------------------------------------------
(* Resolve. *)

At(r, pc) == res[r].pc = pc
Goes(r, pc) == res' = [res EXCEPT ![r].pc = pc]

\* Resolve returns and lets the cache go.
Returns(r, c) ==
    /\ res' = [res EXCEPT ![r] = Out]
    /\ st' = [st EXCEPT ![res[r].s] = [c EXCEPT !.active = @ - 1]]
    /\ UNCHANGED <<scn, hist, changes, lease, reg, service, closed>>

\* ensureService under the read lock.
Resolve(r) ==
    /\ r \in scn.resolvers /\ At(r, "out") /\ closed = "no"
    /\ res' = [res EXCEPT ![r] = IF service = 0 THEN [Out EXCEPT !.pc = "miss"]
                                 ELSE [Out EXCEPT !.pc = "got", !.s = service]]
    /\ UNCHANGED <<scn, hist, changes, faults, lease, reg, service, st, closed>>

\* ensureService, after the read lock: the sweeper may have been there.
TakeState(r) ==
    /\ At(r, "got") /\ Goes(r, "wait")
    /\ st' = [st EXCEPT ![res[r].s].active = @ + 1]
    /\ UNCHANGED <<scn, hist, changes, faults, lease, reg, service, closed>>

\* ensureService under the write lock: the cache is there, or is created and
\* its watch started.
Hold(r, s, c) ==
    /\ res' = [res EXCEPT ![r] = [Out EXCEPT !.pc = "wait", !.s = s]]
    /\ st' = [st EXCEPT ![s] = [c EXCEPT !.active = @ + 1]]
    /\ service' = s

EnsureService(r) ==
    /\ At(r, "miss")
    /\ IF closed # "no" THEN Goes(r, "out") /\ UNCHANGED <<st, service>>
       ELSE IF service # 0 THEN Hold(r, service, st[service])
       ELSE \E s \in States : /\ st[s] = Unused /\ \A t \in 1..s - 1 : st[t] # Unused
                              /\ Hold(r, s, New)
    /\ UNCHANGED <<scn, hist, changes, faults, lease, reg, closed>>

\* allEjected: an empty cache is not; whether every instance of another one is
\* ejected is the balancer's matter (Balancer.tla), here a free choice.
MayBeAllEjected(c) == c.content # Empty

\* The cache is ready (or the registry's context ends): an answer from what is
\* there, or, all instances being ejected, a forced refresh first.
ResolveWaits(r) ==
    LET c == st[res[r].s] IN
    /\ At(r, "wait")
    /\ \/ /\ c.ready \/ closed \in {"cancelled", "returned"}
          /\ Returns(r, c) /\ NoFault
       \/ /\ c.ready /\ MayBeAllEjected(c)
          /\ Goes(r, "refresh")
          /\ UNCHANGED <<scn, hist, changes, faults, lease, reg, service, st, closed>>

\* forceRefresh: join the one under way, be within RefreshInterval of the last
\* one, or start one.
ForceRefresh(r) ==
    LET c == st[res[r].s] IN
    /\ At(r, "refresh") /\ NoFault
    /\ \/ /\ c.refreshing /\ Goes(r, "follow")
          /\ UNCHANGED <<scn, hist, changes, lease, reg, service, st, closed>>
       \/ ~c.refreshing /\ c.refreshed /\ Returns(r, c)
       \/ /\ ~c.refreshing /\ Goes(r, "load")
          /\ st' = [st EXCEPT ![res[r].s].refreshing = TRUE, ![res[r].s].refreshed = TRUE]
          /\ UNCHANGED <<scn, hist, changes, lease, reg, service, closed>>

\* Get in the caller's context is answered ...
RefreshLoads(r) ==
    /\ At(r, "load")
    /\ res' = [res EXCEPT ![r].pc = "apply", ![r].snap = Rev]
    /\ UNCHANGED <<scn, hist, changes, faults, lease, reg, service, st, closed>>

\* The refresh ends for its caller and for those who joined it.
RefreshEnds(r, c) ==
    /\ res' = [q \in Resolvers |->
                 IF q = r THEN Out
                 ELSE IF At(q, "follow") /\ res[q].s = res[r].s
                      THEN [res[q] EXCEPT !.pc = "followed"] ELSE res[q]]
    /\ st' = [st EXCEPT ![res[r].s] = [c EXCEPT !.refreshing = FALSE, !.active = @ - 1]]
    /\ UNCHANGED <<scn, hist, changes, lease, reg, service, closed>>

\* ... and applied, or it fails.
RefreshApplies(r) ==
    /\ At(r, "apply")
    /\ RefreshEnds(r, Loaded(st[res[r].s], res[r].snap)) /\ NoFault

RefreshFails(r) == At(r, "load") /\ RefreshEnds(r, st[res[r].s]) /\ Fault

Followed(r) == At(r, "followed") /\ Returns(r, st[res[r].s]) /\ NoFault

\* The caller's context ends while it waits.
ResolveGivesUp(r) ==
    /\ At(r, "wait") \/ At(r, "follow")
    /\ Returns(r, st[res[r].s]) /\ Fault

-------------------------------------------------------------------------------
(* The sweeper, and Close. *)

\* canEvict: nobody holds the cache, and it was not used for ServiceIdleTTL, which
\* may be so at any time.
CanEvict(c) == c.active = 0

Sweep ==
    /\ scn.evict /\ closed \in {"no", "flagged"}
    /\ service # 0 /\ CanEvict(st[service])
    /\ \E s \in States : st[s] = Unused       \* bound
    /\ st' = [st EXCEPT ![service].live = FALSE]
    /\ service' = 0
    /\ UNCHANGED <<scn, hist, changes, faults, lease, reg, res, closed>>

\* The flag is set and the registrations are collected, to be closed in turn.
Close ==
    /\ scn.close /\ closed = "no"
    /\ closed' = "flagged"
    /\ reg' = IF reg = "open" THEN "finishing" ELSE reg
    /\ UNCHANGED <<scn, hist, changes, faults, lease, service, st, res>>

\* Faulty: the wait group is waited for before the context is ended.
CloseCancelsLast ==
    /\ closed = "flagged" /\ reg # "finishing"
    /\ \A s \in States : st[s].pc \in {"none", "ended"}
    /\ closed' = "cancelled"
    /\ st' = [s \in States |-> [st[s] EXCEPT !.live = FALSE]]
    /\ lease' = [lease EXCEPT !.kept = FALSE]
    /\ UNCHANGED <<scn, hist, changes, faults, reg, service, res>>

\* Every collected registration has finished; the registry's context ends, and
\* with it those of the caches and of keepalives.
CloseCancels ==
    /\ closed = "flagged" /\ reg # "finishing"
    /\ closed' = "cancelled"
    /\ st' = [s \in States |-> [st[s] EXCEPT !.live = FALSE]]
    /\ lease' = [lease EXCEPT !.kept = FALSE]
    /\ UNCHANGED <<scn, hist, changes, faults, reg, service, res>>

\* The wait group: watches and sweeper have ended.
CloseReturns ==
    /\ closed = "cancelled" /\ \A s \in States : st[s].pc \in {"none", "ended"}
    /\ closed' = "returned"
    /\ UNCHANGED <<scn, hist, changes, faults, lease, reg, service, st, res>>

-------------------------------------------------------------------------------
Registers ==
    \/ KeepAlive \/ PutInstance \/ TrackRegistration \/ AbortRegister
    \/ FinishRegistration \/ MonitorEnds
Watches(s) ==
    \/ WatchLoads(s) \/ WatchLoadFails(s) \/ WatchApplies(s) \/ WatchResponds(s)
    \/ WatchEvent(s) \/ WatchBreaks(s) \/ WatchBacksOff(s)
Resolves(r) ==
    \/ TakeState(r) \/ EnsureService(r) \/ ResolveWaits(r) \/ ForceRefresh(r)
    \/ RefreshLoads(r) \/ RefreshApplies(r) \/ RefreshFails(r) \/ Followed(r)

Next ==
    \/ \E i \in Instances, v \in Values : PeerChanges(i, v)
    \/ LeaseExpires \/ RegisterBegins \/ Registers \/ CloseRegistration
    \/ \E s \in States : Watches(s)
    \/ \E r \in Resolvers : Resolve(r) \/ Resolves(r) \/ ResolveGivesUp(r)
    \/ Sweep \/ Close \/ CloseCancels \/ CloseReturns

Spec == Init /\ [][Next]_vars

\* Goroutines run, etcd answers, leases expire.  Nothing is assumed of Resolve,
\* Register, Close, the sweeper and faults.
Fairness ==
    /\ WF_vars(Registers) /\ WF_vars(LeaseExpires) /\ WF_vars(CloseCancels \/ CloseReturns)
    /\ \A s \in States : WF_vars(Watches(s))
    /\ \A r \in Resolvers : WF_vars(Resolves(r))

FairSpec == Spec /\ Fairness

-------------------------------------------------------------------------------
(* Properties. *)

\* The instances of which a cache can know: those without an undecodable value
\* (a watch keeps the former one, a load drops it).
Agrees(content, r) ==
    \A i \in Instances : hist[r][i] # "bad" => content[i] = hist[r][i]

\* Between two responses the cache is exactly what etcd held at the revision the
\* cache has reached, however loads, forced refreshes and watch responses
\* overtake each other (for headers that do not run ahead of their events).
CacheIsSnapshot ==
    ~scn.lead => \A s \in States : st[s].pc = "watch" => Agrees(st[s].content, st[s].rev)

\* Once etcd is at rest, a cache in use comes to hold what etcd holds and keeps
\* to it: through broken watches, failed loads, snapshots and events that
\* overtake each other, and headers ahead of their events.
Converges ==
    <>[](\A s \in States : st[s].live => Agrees(st[s].content, Rev))

\* A Resolve without a deadline returns, even if the cache it waits for is
\* evicted, cannot be loaded or is closed, and even if the refresh it has joined
\* fails with the context of another caller.
ResolveReturns ==
    \A r \in Resolvers : ~At(r, "out") ~> At(r, "out")

\* Close ends, and what this registry has registered disappears from etcd for
\* good, also if Register was under way when Close was called.  Once it has ended
\* no watch runs or starts and no lease is kept alive, whatever Resolve and
\* Register calls were under way.
ClosedLeavesNothing ==
    /\ closed # "no" ~> [](closed = "returned" /\ hist[Rev][Me] = "none")
    /\ [](closed = "returned" => ~lease.kept /\ \A s \in States : st[s].pc \in {"none", "ended"})
===============================================================================
