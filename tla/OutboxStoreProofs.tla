--------------------------- MODULE OutboxStoreProofs ---------------------------
(***************************************************************************)
(* Proofs about OutboxStore for any set of messages, any budget, any       *)
(* durations accepted by resolveConfig and any number of claims.           *)
(***************************************************************************)
EXTENDS OutboxStore, FiniteSetTheorems, TLAPS

(***************************************************************************)
(* The parts of the inductive invariant.                                   *)
(***************************************************************************)

\* Tokens in use were drawn; a token and an id name one task.
TokensDrawn ==
    /\ \A t \in tasks : t.token <= claims
    /\ \A m \in Msgs : rows[m].token <= claims
    /\ \A r \in reports : r[2] <= claims
    /\ \A t, u \in tasks : t.id = u.id /\ t.token = u.token => t = u

\* Exactly the leased rows carry a token, and its task knows the attempt.
RowsConsistent ==
    /\ \A m \in Msgs : rows[m].status = "processing" <=> rows[m].token # NoToken
    /\ \A m \in Msgs : rows[m].attempts <= MaxAttempts
    /\ \A m \in Msgs : rows[m].status = "absent" => rows[m].attempts = 0
    /\ \A t \in tasks : rows[t.id].token = t.token => t.attempts = rows[t.id].attempts

\* What a task wants to write was reported by its callback.
ReturnedReported ==
    \A t \in tasks : t.phase = "returned" => <<t.id, t.token, t.ok>> \in reports

\* A claimed task that has not started still has its whole callback ahead of
\* the end of its lease; a running one what is left of its deadline.
LeaseCovers ==
    PromptStart => \A t \in tasks :
        /\ t.phase = "claimed" => /\ rows[t.id].token = t.token
                                  /\ rows[t.id].lease >= t.left + HandlerTimeout
        /\ t.phase = "running" /\ t.left > 0 => /\ rows[t.id].token = t.token
                                                /\ rows[t.id].lease >= t.left

\* Started callbacks of the epoch have different attempt numbers, and so have
\* the claimed tasks that may still start one.
AttemptsNumbered ==
    /\ \A m \in Msgs : \A p \in calls[m] : p[1] \in 1..rows[m].attempts
    /\ \A m \in Msgs : \A p, q \in calls[m] : p[1] = q[1] => p = q
    /\ \A t \in tasks : t.epoch <= epoch[t.id]
    /\ \A t \in tasks : t.epoch = epoch[t.id] => t.attempts \in 1..rows[t.id].attempts
    /\ \A t, u \in tasks : t.id = u.id /\ t.epoch = epoch[t.id] /\ u.epoch = epoch[t.id]
                             /\ t.attempts = u.attempts => t = u
    /\ \A t \in tasks : t.epoch = epoch[t.id] /\ t.phase = "claimed" =>
         \A p \in calls[t.id] : p[1] # t.attempts

IInv == /\ TypeOK /\ TokensDrawn /\ RowsConsistent /\ ReturnedReported
        /\ LeaseCovers /\ AttemptsNumbered /\ NeverDroppedUnhandled

USE DEF NoToken, Tokens, Countdown

\* One OperationTimeout below zero.
LEMMA PastType == Past \in Int /\ Past < 0
BY DurationsAssumption DEF Past

-------------------------------------------------------------------------------
(* Facts about the operators. *)

\* Every backoff delay is an integer.
LEMMA BackoffType == ASSUME NEW a, NEW d \in Backoff(a) PROVE d \in Int
BY DEF Backoff

\* A record update keeps a row a row.
LEMMA AbsentType == Absent \in Row
BY PastType DEF Absent, Row, Status

\* The row insert and retry write is a row.
LEMMA FreshType == Fresh \in Row /\ Fresh.status = "pending" /\ Fresh.token = 0 /\ Fresh.attempts = 0
BY PastType DEF Fresh, Row, Status

\* Time leaves a countdown a countdown and never moves it up from above Past.
LEMMA ElapseType == ASSUME NEW x \in Int PROVE Elapse(x) \in Int /\ (x > Past => Elapse(x) = x - 1)
BY PastType DEF Elapse

-------------------------------------------------------------------------------
(* The initial states satisfy the invariant. *)
LEMMA InitInv == Init => IInv
<1> SUFFICES ASSUME Init PROVE IInv
  OBVIOUS
<1>1. TypeOK
  BY AbsentType, BoundsAssumption DEF Init, TypeOK
<1>2. TokensDrawn /\ RowsConsistent /\ ReturnedReported /\ LeaseCovers
  BY AttemptsAssumption DEF Init, TokensDrawn, RowsConsistent, ReturnedReported, LeaseCovers, Absent
<1>3. AttemptsNumbered /\ NeverDroppedUnhandled
  BY DEF Init, AttemptsNumbered, NeverDroppedUnhandled, Absent
<1> QED BY <1>1, <1>2, <1>3 DEF IInv

\* A new row disturbs nothing: it is unleased and has no task.
LEMMA InsertInv == ASSUME IInv, NEW m \in Msgs, Insert(m) PROVE IInv'
<1>0. rows' = [rows EXCEPT ![m] = Fresh] /\ rows[m].status = "absent"
  BY DEF Insert
<1> USE FreshType
<1>1. TypeOK'
  BY <1>0 DEF IInv, TypeOK, Insert
<1>2. rows[m].token = 0 /\ \A t \in tasks : t.token # 0
  BY <1>0 DEF IInv, TypeOK, RowsConsistent, Task, Row
<1>3. TokensDrawn'
  BY <1>0 DEF IInv, TypeOK, TokensDrawn, Insert
<1>4. RowsConsistent'
  BY <1>0, <1>2, AttemptsAssumption DEF IInv, TypeOK, RowsConsistent, Insert, Task
<1>5. ReturnedReported' /\ NeverDroppedUnhandled'
  BY <1>0 DEF IInv, TypeOK, ReturnedReported, NeverDroppedUnhandled, Insert
<1>6. LeaseCovers'
  BY <1>0, <1>2 DEF IInv, TypeOK, LeaseCovers, Insert, Task
<1>7. AttemptsNumbered'
  <2>1. rows[m].attempts = 0
    BY <1>0 DEF IInv, RowsConsistent
  <2>2. calls[m] = {} /\ \A t \in tasks : t.id = m => t.epoch # epoch[m]
    BY <2>1 DEF IInv, TypeOK, AttemptsNumbered, Task
  <2> QED BY <1>0, <2>2 DEF IInv, TypeOK, AttemptsNumbered, Insert, Task
<1> QED BY <1>1, <1>3, <1>4, <1>5, <1>6, <1>7 DEF IInv

\* A lost task takes its obligations with it.
LEMMA LoseInv == ASSUME IInv, NEW t \in tasks, Lose(t) PROVE IInv'
<1> USE DEF Lose
<1>1. TypeOK' /\ TokensDrawn' /\ RowsConsistent'
  BY DEF IInv, TypeOK, TokensDrawn, RowsConsistent
<1>2. ReturnedReported' /\ LeaseCovers' /\ NeverDroppedUnhandled'
  BY DEF IInv, ReturnedReported, LeaseCovers, NeverDroppedUnhandled
<1>3. AttemptsNumbered'
  BY DEF IInv, AttemptsNumbered
<1> QED BY <1>1, <1>2, <1>3 DEF IInv

\* A task that moves to another phase keeps its identity.
LEMMA StartInv == ASSUME IInv, NEW t \in tasks, Start(t) PROVE IInv'
<1> DEFINE u == [t EXCEPT !.phase = "running", !.left = HandlerTimeout]
<1>0. /\ u \in Task /\ t \in Task
      /\ u.id = t.id /\ u.token = t.token /\ u.attempts = t.attempts /\ u.epoch = t.epoch
      /\ u.phase = "running" /\ u.left = HandlerTimeout
      /\ tasks' = (tasks \ {t}) \cup {u} /\ t.phase = "claimed"
      /\ UNCHANGED <<rows, claims, reports, epoch>>
      /\ calls' = IF t.epoch = epoch[t.id]
                  THEN [calls EXCEPT ![t.id] = @ \cup {<<t.attempts, t.token>>}] ELSE calls
  BY DurationsAssumption DEF IInv, TypeOK, Start, Task
<1> HIDE DEF u
<1>1. TypeOK'
  BY <1>0 DEF IInv, TypeOK, Task
<1>2. TokensDrawn' /\ RowsConsistent'
  BY <1>0 DEF IInv, TokensDrawn, RowsConsistent
<1>3. ReturnedReported' /\ NeverDroppedUnhandled'
  BY <1>0 DEF IInv, ReturnedReported, NeverDroppedUnhandled
<1>4. LeaseCovers'
  BY <1>0, DurationsAssumption DEF IInv, TypeOK, LeaseCovers, Task, Row
<1>5. AttemptsNumbered'
  <2>1. CASE t.epoch = epoch[t.id]
    <3>1. /\ t.attempts \in 1..rows[t.id].attempts
          /\ \A p \in calls[t.id] : p[1] # t.attempts
          /\ calls'[t.id] = calls[t.id] \cup {<<t.attempts, t.token>>}
          /\ \A m \in Msgs : m # t.id => calls'[m] = calls[m]
      BY <1>0, <2>1 DEF IInv, TypeOK, AttemptsNumbered, Task
    <3>2. \A v \in tasks' : v.id = t.id /\ v.epoch = epoch[t.id] /\ v.phase = "claimed" =>
                            v.attempts # t.attempts
      BY <1>0, <2>1 DEF IInv, AttemptsNumbered
    <3> QED BY <1>0, <2>1, <3>1, <3>2 DEF IInv, TypeOK, AttemptsNumbered, Task
  <2>2. CASE t.epoch # epoch[t.id]
    BY <1>0, <2>2 DEF IInv, AttemptsNumbered
  <2> QED BY <2>1, <2>2
<1> QED BY <1>1, <1>2, <1>3, <1>4, <1>5 DEF IInv

\* The end of a callback, reached or refused, is reported before it is used.
LEMMA EndInv == ASSUME IInv, NEW t \in tasks, NEW ok \in BOOLEAN, Return(t, ok) \/ (Reject(t) /\ ~ok)
                PROVE IInv'
<1> DEFINE u == [t EXCEPT !.phase = "returned", !.ok = ok]
<1>0. /\ u \in Task /\ t \in Task
      /\ u.id = t.id /\ u.token = t.token /\ u.attempts = t.attempts /\ u.epoch = t.epoch
      /\ u.phase = "returned" /\ u.ok = ok
      /\ tasks' = (tasks \ {t}) \cup {u}
      /\ reports' = reports \cup {<<t.id, t.token, ok>>}
      /\ UNCHANGED <<rows, claims, epoch, calls>>
  BY DEF IInv, TypeOK, Return, Reject, Task
<1> HIDE DEF u
<1>1. TypeOK'
  BY <1>0 DEF IInv, TypeOK, Task
<1>2. TokensDrawn' /\ RowsConsistent'
  BY <1>0 DEF IInv, TokensDrawn, RowsConsistent
<1>3. ReturnedReported' /\ NeverDroppedUnhandled'
  BY <1>0 DEF IInv, ReturnedReported, NeverDroppedUnhandled
<1>4. LeaseCovers'
  BY <1>0 DEF IInv, LeaseCovers
<1>5. AttemptsNumbered'
  BY <1>0 DEF IInv, AttemptsNumbered
<1> QED BY <1>1, <1>2, <1>3, <1>4, <1>5 DEF IInv

\* Retry starts a new epoch: no task and no callback belongs to it yet.
LEMMA RetryInv == ASSUME IInv, NEW m \in Msgs, Retry(m) PROVE IInv'
<1>0. /\ rows' = [rows EXCEPT ![m] = Fresh] /\ rows[m].status = "failed"
      /\ epoch' = [epoch EXCEPT ![m] = @ + 1] /\ calls' = [calls EXCEPT ![m] = {}]
      /\ UNCHANGED <<tasks, claims, reports>>
  BY DEF Retry
<1> USE FreshType
<1>1. TypeOK'
  BY <1>0 DEF IInv, TypeOK
<1>2. rows[m].token = 0 /\ \A t \in tasks : t.token # 0
  BY <1>0 DEF IInv, TypeOK, RowsConsistent, Task, Row
<1>3. TokensDrawn'
  BY <1>0 DEF IInv, TypeOK, TokensDrawn
<1>4. RowsConsistent'
  BY <1>0, <1>2, AttemptsAssumption DEF IInv, TypeOK, RowsConsistent, Task
<1>5. ReturnedReported' /\ NeverDroppedUnhandled'
  BY <1>0 DEF IInv, TypeOK, ReturnedReported, NeverDroppedUnhandled
<1>6. LeaseCovers'
  BY <1>0, <1>2 DEF IInv, TypeOK, LeaseCovers, Task
<1>7. AttemptsNumbered'
  BY <1>0 DEF IInv, TypeOK, AttemptsNumbered, Task
<1> QED BY <1>1, <1>3, <1>4, <1>5, <1>6, <1>7 DEF IInv

\* Cleanup removes rows that no task holds.
LEMMA CleanupInv == ASSUME IInv, NEW s, NEW S \in SUBSET Msgs, Cleanup(s, S) PROVE IInv'
<1>0. /\ \A m \in S : rows[m].status = "succeeded"
      /\ UNCHANGED <<tasks, claims, reports, epoch, calls>>
      /\ rows' \in [Msgs -> Row]
      /\ \A m \in Msgs : /\ rows'[m].token = rows[m].token /\ rows'[m].attempts = rows[m].attempts
                         /\ rows'[m].lease = rows[m].lease
                         /\ m \in S => rows'[m].status = "deleted"
                         /\ m \notin S => rows'[m].status = rows[m].status
  BY DEF IInv, TypeOK, Cleanup, Row, Status
<1>1. TypeOK'
  BY <1>0 DEF IInv, TypeOK
<1>2. TokensDrawn' /\ RowsConsistent'
  BY <1>0 DEF IInv, TypeOK, TokensDrawn, RowsConsistent, Task
<1>3. ReturnedReported' /\ NeverDroppedUnhandled'
  BY <1>0 DEF IInv, ReturnedReported, NeverDroppedUnhandled
<1>4. LeaseCovers'
  BY <1>0 DEF IInv, TypeOK, LeaseCovers, Task
<1>5. AttemptsNumbered'
  BY <1>0 DEF IInv, TypeOK, AttemptsNumbered, Task
<1> QED BY <1>1, <1>2, <1>3, <1>4, <1>5 DEF IInv

\* Time shortens leases and deadlines alike.
LEMMA TickInv == ASSUME IInv, Tick PROVE IInv'
<1> DEFINE older(t) == [t EXCEPT !.left = IF @ > 0 THEN @ - 1 ELSE 0]
<1>0. /\ tasks' = {older(t) : t \in tasks}
      /\ \A t \in tasks : /\ older(t) \in Task /\ older(t).id = t.id /\ older(t).token = t.token
                          /\ older(t).attempts = t.attempts /\ older(t).epoch = t.epoch
                          /\ older(t).phase = t.phase /\ older(t).ok = t.ok
                          /\ older(t).left = IF t.left > 0 THEN t.left - 1 ELSE 0
      /\ UNCHANGED <<claims, reports, epoch, calls>>
  <2>1. tasks' = {older(t) : t \in tasks} /\ UNCHANGED <<claims, reports, epoch, calls>>
    BY DEF Tick
  <2>2. ASSUME NEW t \in tasks
        PROVE  /\ older(t) \in Task /\ older(t).id = t.id /\ older(t).token = t.token
               /\ older(t).attempts = t.attempts /\ older(t).epoch = t.epoch
               /\ older(t).phase = t.phase /\ older(t).ok = t.ok
               /\ older(t).left = IF t.left > 0 THEN t.left - 1 ELSE 0
    <3>1. t \in Task
      BY DEF IInv, TypeOK
    <3> QED BY <3>1 DEF Task
  <2> HIDE DEF older
  <2> QED BY <2>1, <2>2
<1>1. /\ rows' \in [Msgs -> Row]
      /\ \A m \in Msgs : /\ rows'[m].token = rows[m].token /\ rows'[m].attempts = rows[m].attempts
                         /\ rows'[m].status = rows[m].status
                         /\ rows[m].lease > Past => rows'[m].lease = rows[m].lease - 1
  <2> SUFFICES ASSUME NEW m \in Msgs
               PROVE  /\ rows'[m] \in Row
                      /\ rows'[m].token = rows[m].token /\ rows'[m].attempts = rows[m].attempts
                      /\ rows'[m].status = rows[m].status
                      /\ rows[m].lease > Past => rows'[m].lease = rows[m].lease - 1
    BY DEF Tick
  <2>1. rows[m] \in Row
    BY DEF IInv, TypeOK
  <2>2. rows'[m] = [rows[m] EXCEPT !.next = Elapse(@), !.lease = Elapse(@), !.kept = Elapse(@)]
    BY DEF Tick
  <2>3. /\ Elapse(rows[m].next) \in Int /\ Elapse(rows[m].lease) \in Int
        /\ Elapse(rows[m].kept) \in Int
        /\ rows[m].lease > Past => Elapse(rows[m].lease) = rows[m].lease - 1
    BY <2>1, ElapseType DEF Row
  <2> QED BY <2>1, <2>2, <2>3 DEF Row
<1> HIDE DEF older
<1>2. TypeOK'
  BY <1>0, <1>1 DEF IInv, TypeOK
<1>3. TokensDrawn'
  BY <1>0, <1>1 DEF IInv, TypeOK, TokensDrawn
<1>4. RowsConsistent'
  BY <1>0, <1>1 DEF IInv, TypeOK, RowsConsistent, Task
<1>5. ReturnedReported' /\ NeverDroppedUnhandled'
  <2>1. ASSUME NEW t \in tasks, older(t).phase = "returned"
        PROVE  <<older(t).id, older(t).token, older(t).ok>> \in reports
    <3>1. <<t.id, t.token, t.ok>> \in reports
      BY <1>0, <2>1 DEF IInv, ReturnedReported
    <3> QED BY <1>0, <3>1, Zenon
  <2>2. ReturnedReported'
    BY <1>0, <2>1, ZenonT(30) DEF ReturnedReported
  <2> QED BY <1>0, <1>1, <2>2 DEF IInv, NeverDroppedUnhandled
<1>6. LeaseCovers'
  <2> SUFFICES ASSUME PromptStart, NEW t \in tasks
               PROVE  /\ t.phase = "claimed" =>
                           /\ rows'[t.id].token = t.token
                           /\ rows'[t.id].lease >= older(t).left + HandlerTimeout
                      /\ t.phase = "running" /\ older(t).left > 0 =>
                           /\ rows'[t.id].token = t.token
                           /\ rows'[t.id].lease >= older(t).left
    BY <1>0 DEF LeaseCovers
  <2>1. t \in Task /\ rows[t.id] \in Row
    BY DEF IInv, TypeOK, Task
  <2>2. t.phase = "claimed" => t.left > 0
    BY DEF Tick
  <2>3. /\ t.phase = "claimed" => /\ rows[t.id].token = t.token
                                  /\ rows[t.id].lease >= t.left + HandlerTimeout
        /\ t.phase = "running" /\ t.left > 0 => /\ rows[t.id].token = t.token
                                                /\ rows[t.id].lease >= t.left
    BY DEF IInv, LeaseCovers
  <2> QED BY <1>0, <1>1, <2>1, <2>2, <2>3, PastType, DurationsAssumption DEF Task, Row
<1>7. AttemptsNumbered'
  BY <1>0, <1>1 DEF IInv, TypeOK, AttemptsNumbered, Task
<1> QED BY <1>2, <1>3, <1>4, <1>5, <1>6, <1>7 DEF IInv

\* What finish writes: an unleased row with the same attempts, succeeded
\* only when the task reported success.
LEMMA OutcomeRow ==
    ASSUME NEW t \in Task, rows[t.id] \in Row, NEW delay \in Int
    PROVE  /\ Outcome(t, delay) \in Row
           /\ Outcome(t, delay).token = 0
           /\ Outcome(t, delay).attempts = rows[t.id].attempts
           /\ Outcome(t, delay).status \in {"pending", "succeeded", "failed"}
           /\ Outcome(t, delay).status = "succeeded" <=> t.ok
           /\ Outcome(t, delay).status = "failed" <=> ~t.ok /\ t.attempts >= MaxAttempts
<1> DEFINE r == rows[t.id]
           q == Outcome(t, delay)
<1>0. /\ Past \in Int /\ Retention \in Int /\ r \in Row
      /\ {"pending", "succeeded", "failed"} \subseteq Status
  BY PastType, DurationsAssumption DEF Status
<1>1. CASE t.ok
  <2>1. q = [r EXCEPT !.token = 0, !.lease = Past, !.status = "succeeded",
                      !.next = Past, !.kept = Retention]
    BY <1>1 DEF Outcome, Row
  <2>2. q \in Row /\ q.token = 0 /\ q.attempts = r.attempts /\ q.status = "succeeded"
    <3> HIDE DEF q, r
    <3> QED BY <1>0, <2>1 DEF Row
  <2> QED BY <1>1, <2>2
<1>2. CASE ~t.ok /\ t.attempts >= MaxAttempts
  <2>1. q = [r EXCEPT !.token = 0, !.lease = Past, !.status = "failed",
                      !.next = Past, !.kept = Past]
    BY <1>2 DEF Outcome, Row
  <2>2. q \in Row /\ q.token = 0 /\ q.attempts = r.attempts /\ q.status = "failed"
    <3> HIDE DEF q, r
    <3> QED BY <1>0, <2>1 DEF Row
  <2> QED BY <1>2, <2>2
<1>3. CASE ~t.ok /\ ~(t.attempts >= MaxAttempts)
  <2>1. q = [r EXCEPT !.token = 0, !.lease = Past, !.status = "pending",
                      !.next = delay, !.kept = Past]
    BY <1>3 DEF Outcome, Row
  <2>2. q \in Row /\ q.token = 0 /\ q.attempts = r.attempts /\ q.status = "pending"
    <3> HIDE DEF q, r
    <3> QED BY <1>0, <2>1 DEF Row
  <2> QED BY <1>3, <2>2
<1> QED BY <1>1, <1>2, <1>3 DEF Task

\* finish removes its task; if it writes, no other task holds the row.
LEMMA FinishInv == ASSUME IInv, NEW t \in tasks, Finish(t) PROVE IInv'
<1>0. /\ t \in Task /\ t.id \in Msgs /\ rows[t.id] \in Row /\ t.phase = "returned"
      /\ tasks' = tasks \ {t} /\ UNCHANGED <<claims, reports, epoch, calls>>
  BY DEF IInv, TypeOK, Finish, Task
<1>1. CASE UNCHANGED rows
  BY <1>0, <1>1, LoseInv DEF Lose
<1>2. CASE HoldsLease(t) /\ \E delay \in Backoff(t.attempts) :
                               rows' = [rows EXCEPT ![t.id] = Outcome(t, delay)]
  <2> PICK delay \in Backoff(t.attempts) : rows' = [rows EXCEPT ![t.id] = Outcome(t, delay)]
    BY <1>2
  <2> DEFINE new == Outcome(t, delay)
  <2>0. /\ rows' = [rows EXCEPT ![t.id] = new]
        /\ new \in Row /\ new.token = 0 /\ new.attempts = rows[t.id].attempts
        /\ new.status \in {"pending", "succeeded", "failed"}
        /\ new.status = "succeeded" => t.ok
    BY <1>0, BackoffType, OutcomeRow
  <2>1. rows[t.id].token = t.token /\ \A u \in tasks' : u.token # 0 /\ (u.id = t.id => u.token # t.token)
    BY <1>0, <1>2 DEF HoldsLease, IInv, TypeOK, TokensDrawn, Task
  <2> HIDE DEF new
  <2>2. TypeOK'
    BY <1>0, <2>0 DEF IInv, TypeOK
  <2>3. TokensDrawn'
    BY <1>0, <2>0 DEF IInv, TypeOK, TokensDrawn
  <2>4. RowsConsistent'
    BY <1>0, <2>0, <2>1 DEF IInv, TypeOK, RowsConsistent, Task
  <2>5. ReturnedReported'
    BY <1>0 DEF IInv, ReturnedReported
  <2>6. NeverDroppedUnhandled'
    <3>1. <<t.id, t.token, t.ok>> \in reports
      BY <1>0 DEF IInv, ReturnedReported
    <3>2. t.ok => <<t.id, t.token, TRUE>> \in reports
      BY <3>1, <1>0 DEF Task
    <3> QED BY <1>0, <2>0, <3>2 DEF IInv, TypeOK, NeverDroppedUnhandled, Task
  <2>7. LeaseCovers'
    BY <1>0, <2>0, <2>1 DEF IInv, TypeOK, LeaseCovers, Task
  <2>8. AttemptsNumbered'
    BY <1>0, <2>0 DEF IInv, TypeOK, AttemptsNumbered, Task
  <2> QED BY <2>2, <2>3, <2>4, <2>5, <2>6, <2>7, <2>8 DEF IInv
<1> QED BY <1>1, <1>2 DEF Finish

\* What a claim leaves of a selected row.
LEMMA ClaimedRow ==
    ASSUME IInv, NEW m \in Msgs, NEW lag \in Lags
    PROVE  /\ GivenUp(m) \in Row /\ GivenUp(m).status = "failed" /\ GivenUp(m).token = 0
           /\ GivenUp(m).attempts = rows[m].attempts
           /\ Leased(m, lag) \in Row /\ Leased(m, lag).status = "processing"
           /\ Leased(m, lag).token = claims + 1 /\ Leased(m, lag).lease = TaskLease - lag
           /\ Leased(m, lag).attempts = rows[m].attempts + 1
<1> DEFINE r == rows[m]
           dead == GivenUp(m)
           live == Leased(m, lag)
           more == r.attempts + 1
           drawn == claims + 1
           until == TaskLease - lag
<1>1. /\ r \in Row /\ Past \in Int /\ more \in Nat /\ drawn \in Nat /\ until \in Int
      /\ {"failed", "processing"} \subseteq Status
  BY PastType, DurationsAssumption, BoundsAssumption DEF IInv, TypeOK, Status, Lags, Row
<1>2. dead = [r EXCEPT !.status = "failed", !.token = 0, !.lease = Past]
  BY DEF GivenUp
<1>3. live = [r EXCEPT !.status = "processing", !.attempts = more, !.token = drawn, !.lease = until]
  BY DEF Leased
<1> HIDE DEF r, dead, live, more, drawn, until
<1>4. dead \in Row /\ dead.status = "failed" /\ dead.token = 0 /\ dead.attempts = r.attempts
  BY <1>1, <1>2 DEF Row
<1>5. /\ live \in Row /\ live.status = "processing" /\ live.token = drawn
      /\ live.lease = until /\ live.attempts = more
  BY <1>1, <1>3 DEF Row
<1> QED BY <1>4, <1>5 DEF r, dead, live, more, drawn, until

\* A claim's token is new: the rows it marks are held by its own tasks only.
LEMMA MarkClaimedInv ==
    ASSUME IInv, NEW S \in SUBSET Msgs, NEW lag \in Lags, \A m \in S : Claimable(m, lag),
           MarkClaimed(S, lag)
    PROVE  IInv'
<1> DEFINE spent == {m \in S : rows[m].attempts >= MaxAttempts}
           taken == S \ spent
           new(m) == [id |-> m, token |-> claims + 1, attempts |-> rows[m].attempts + 1,
                      epoch |-> epoch[m], phase |-> "claimed",
                      left |-> OperationTimeout - lag, ok |-> FALSE]
<1>0. /\ claims < MaxClaims /\ claims' = claims + 1 /\ claims \in Nat
      /\ UNCHANGED <<reports, epoch, calls>>
      /\ tasks' = tasks \cup {new(m) : m \in taken}
  BY BoundsAssumption DEF MarkClaimed, IInv, TypeOK
<1>1. /\ rows' \in [Msgs -> Row]
      /\ \A m \in Msgs \ S : rows'[m] = rows[m]
      /\ \A m \in spent : /\ rows'[m].status = "failed" /\ rows'[m].token = 0
                          /\ rows'[m].attempts = rows[m].attempts
      /\ \A m \in taken : /\ rows'[m].status = "processing" /\ rows'[m].token = claims + 1
                          /\ rows'[m].attempts = rows[m].attempts + 1
                          /\ rows'[m].lease = TaskLease - lag
                          /\ rows[m].attempts < MaxAttempts
  <2>1. \A m \in Msgs : rows'[m] = IF m \in spent THEN GivenUp(m)
                                  ELSE IF m \in taken THEN Leased(m, lag) ELSE rows[m]
    BY DEF MarkClaimed
  <2>2. \A m \in spent : rows'[m] = GivenUp(m)
    BY <2>1
  <2>3. \A m \in taken : rows'[m] = Leased(m, lag)
    BY <2>1
  <2>4. \A m \in taken : rows[m].attempts < MaxAttempts
    BY AttemptsAssumption DEF IInv, TypeOK, Row
  <2>5. rows' = [m \in Msgs |-> rows'[m]]
    BY DEF MarkClaimed
  <2>6. \A m \in Msgs : rows[m] \in Row
    BY DEF IInv, TypeOK
  <2>7. spent \subseteq Msgs /\ taken \subseteq Msgs /\ S = spent \cup taken
    OBVIOUS
  <2> HIDE DEF spent, taken
  <2>8. \A m \in Msgs : rows'[m] \in Row
    BY <2>1, <2>6, ClaimedRow
  <2>9. \A m \in Msgs \ S : rows'[m] = rows[m]
    BY <2>1, <2>7
  <2> QED BY <2>2, <2>3, <2>4, <2>5, <2>7, <2>8, <2>9, ClaimedRow
<1>2. \A m \in taken : /\ new(m) \in Task /\ new(m).id = m /\ new(m).token = claims + 1
                       /\ new(m).attempts = rows[m].attempts + 1 /\ new(m).epoch = epoch[m]
                       /\ new(m).phase = "claimed" /\ new(m).left = OperationTimeout - lag
  BY <1>0, DurationsAssumption, BoundsAssumption DEF IInv, TypeOK, Task, Row, Lags
<1>3. /\ spent \subseteq Msgs /\ taken \subseteq Msgs /\ spent \cap taken = {} /\ S = spent \cup taken
      /\ \A t \in tasks : t \in Task /\ t.id \in Msgs /\ t.token \in Nat /\ t.token # 0 /\ t.token # claims + 1
  BY <1>0 DEF IInv, TypeOK, Task, TokensDrawn
<1>4. \A m \in S : \/ rows[m].status = "pending"
                   \/ rows[m].status = "processing" /\ rows[m].lease <= 0
  BY DEF Claimable, IInv, TypeOK, Row, Lags
<1> HIDE DEF spent, taken, new
<1>5. TypeOK'
  BY <1>0, <1>1, <1>2, <1>3, BoundsAssumption DEF IInv, TypeOK
<1>6. TokensDrawn'
  <2>1. \A t \in tasks' : t.token <= claims'
    BY <1>0, <1>2, <1>3 DEF IInv, TokensDrawn
  <2>2. \A m \in Msgs : rows'[m].token <= claims'
    BY <1>0, <1>1, <1>3 DEF IInv, TypeOK, Row, TokensDrawn
  <2>3. \A r \in reports' : r[2] <= claims'
    BY <1>0 DEF IInv, TypeOK, TokensDrawn
  <2>4. \A t, u \in tasks' : t.id = u.id /\ t.token = u.token => t = u
    BY <1>0, <1>2, <1>3 DEF IInv, TokensDrawn
  <2> QED BY <2>1, <2>2, <2>3, <2>4 DEF TokensDrawn
<1>7. RowsConsistent'
  <2>1. \A m \in Msgs : rows'[m].status = "processing" <=> rows'[m].token # 0
    BY <1>0, <1>1, <1>3 DEF IInv, RowsConsistent
  <2>2. \A m \in Msgs : /\ rows'[m].attempts <= MaxAttempts
                        /\ rows'[m].status = "absent" => rows'[m].attempts = 0
    BY <1>1, <1>3, AttemptsAssumption DEF IInv, TypeOK, Row, RowsConsistent
  <2>3. \A t \in tasks' : rows'[t.id].token = t.token => t.attempts = rows'[t.id].attempts
    BY <1>0, <1>1, <1>2, <1>3 DEF IInv, RowsConsistent
  <2> QED BY <2>1, <2>2, <2>3 DEF RowsConsistent
<1>8. ReturnedReported' /\ NeverDroppedUnhandled'
  <2>1. ReturnedReported'
    BY <1>0, <1>2 DEF IInv, ReturnedReported
  <2>2. NeverDroppedUnhandled'
    BY <1>0, <1>1, <1>3 DEF IInv, NeverDroppedUnhandled
  <2> QED BY <2>1, <2>2
<1>9. LeaseCovers'
  <2> SUFFICES ASSUME PromptStart, NEW t \in tasks'
               PROVE  /\ t.phase = "claimed" =>
                           /\ rows'[t.id].token = t.token
                           /\ rows'[t.id].lease >= t.left + HandlerTimeout
                      /\ t.phase = "running" /\ t.left > 0 =>
                           /\ rows'[t.id].token = t.token
                           /\ rows'[t.id].lease >= t.left
    BY DEF LeaseCovers
  <2>1. CASE t \in tasks
    <3>1. /\ t.phase = "claimed" => /\ rows[t.id].token = t.token
                                    /\ rows[t.id].lease >= t.left + HandlerTimeout
          /\ t.phase = "running" /\ t.left > 0 => /\ rows[t.id].token = t.token
                                                  /\ rows[t.id].lease >= t.left
      BY <2>1 DEF IInv, LeaseCovers
    <3>2. /\ rows[t.id] \in Row /\ t \in Task
          /\ rows[t.id].status = "processing" <=> rows[t.id].token # 0
      BY <1>3, <2>1 DEF IInv, TypeOK, RowsConsistent
    <3>3. t.phase = "claimed" \/ (t.phase = "running" /\ t.left > 0) => t.id \notin S
      BY <1>3, <1>4, <2>1, <3>1, <3>2, DurationsAssumption DEF Row, Task
    <3> QED BY <1>1, <1>3, <2>1, <3>1, <3>3
  <2>2. CASE t \notin tasks
    <3>1. PICK m \in taken : t = new(m)
      BY <1>0, <2>2
    <3>2. TaskLease - lag >= (OperationTimeout - lag) + HandlerTimeout
      BY LeaseAssumption, DurationsAssumption DEF Lags
    <3> QED BY <1>1, <1>2, <3>1, <3>2
  <2> QED BY <2>1, <2>2
<1>10. AttemptsNumbered'
  <2>1. \A m \in Msgs : rows'[m].attempts \in Nat /\ rows[m].attempts \in Nat
                        /\ rows[m].attempts <= rows'[m].attempts
    BY <1>1, <1>3 DEF IInv, TypeOK, Row
  <2>2. \A m \in Msgs : \A p \in calls'[m] : p[1] \in 1..rows'[m].attempts
    BY <1>0, <2>1 DEF IInv, TypeOK, AttemptsNumbered
  <2>3. \A m \in Msgs : \A p, q \in calls'[m] : p[1] = q[1] => p = q
    BY <1>0 DEF IInv, AttemptsNumbered
  <2>4. \A t \in tasks' : /\ t.epoch <= epoch'[t.id]
                          /\ t.epoch = epoch'[t.id] => t.attempts \in 1..rows'[t.id].attempts
    <3>1. \A t \in tasks : t.epoch <= epoch[t.id]
                           /\ (t.epoch = epoch[t.id] => t.attempts \in 1..rows[t.id].attempts)
      BY DEF IInv, AttemptsNumbered
    <3>2. \A m \in taken : epoch[m] \in Nat /\ rows[m].attempts + 1 \in 1..rows'[m].attempts
      BY <1>1, <1>3, <2>1 DEF IInv, TypeOK
    <3> QED BY <1>0, <1>2, <1>3, <2>1, <3>1, <3>2
  <2>5. \A t \in tasks, m \in taken : t.id = m /\ t.epoch = epoch[m] => t.attempts < new(m).attempts
    BY <1>2, <1>3, <2>1 DEF IInv, AttemptsNumbered, Task
  <2>6. \A t, u \in tasks' : t.id = u.id /\ t.epoch = epoch'[t.id] /\ u.epoch = epoch'[t.id]
                             /\ t.attempts = u.attempts => t = u
    <3>1. \A t, u \in tasks : t.id = u.id /\ t.epoch = epoch[t.id] /\ u.epoch = epoch[t.id]
                              /\ t.attempts = u.attempts => t = u
      BY DEF IInv, AttemptsNumbered
    <3>2. \A t \in tasks : t.attempts \in Nat
      BY <1>3 DEF Task
    <3> QED BY <1>0, <1>2, <1>3, <2>1, <2>5, <3>1, <3>2
  <2>7. \A t \in tasks' : t.epoch = epoch'[t.id] /\ t.phase = "claimed" =>
          \A p \in calls'[t.id] : p[1] # t.attempts
    <3>1. \A m \in taken : \A p \in calls[m] : p[1] # rows[m].attempts + 1
      BY <1>3, <2>1 DEF IInv, AttemptsNumbered
    <3>2. \A t \in tasks : t.epoch = epoch[t.id] /\ t.phase = "claimed" =>
            \A p \in calls[t.id] : p[1] # t.attempts
      BY DEF IInv, AttemptsNumbered
    <3> QED BY <1>0, <1>2, <3>1, <3>2
  <2> QED BY <2>2, <2>3, <2>4, <2>6, <2>7 DEF AttemptsNumbered
<1> QED BY <1>5, <1>6, <1>7, <1>8, <1>9, <1>10 DEF IInv

-------------------------------------------------------------------------------
\* Every step of the outbox preserves the invariant.
LEMMA NextInv == IInv /\ [Next]_vars => IInv'
<1> SUFFICES ASSUME IInv, [Next]_vars PROVE IInv'
  OBVIOUS
<1>1. ASSUME NEW m \in Msgs, Insert(m) \/ Retry(m) PROVE IInv'
  BY <1>1, InsertInv, RetryInv
<1>2. ASSUME NEW S \in SUBSET Msgs, NEW lag \in Lags, ClaimIDs(S, lag) PROVE IInv'
  BY <1>2, MarkClaimedInv DEF ClaimIDs
<1>3. ASSUME NEW s \in Shards, NEW S \in SUBSET Msgs, NEW lag \in Lags, ClaimShard(s, S, lag)
      PROVE IInv'
  BY <1>3, MarkClaimedInv DEF ClaimShard
<1>4. ASSUME NEW s \in Shards, NEW S \in SUBSET Msgs, Cleanup(s, S) PROVE IInv'
  BY <1>4, CleanupInv
<1>5. ASSUME NEW t \in tasks, Start(t) \/ Reject(t) \/ Finish(t) \/ Lose(t) PROVE IInv'
  BY <1>5, StartInv, EndInv, FinishInv, LoseInv
<1>6. ASSUME NEW t \in tasks, NEW ok \in BOOLEAN, Return(t, ok) PROVE IInv'
  BY <1>6, EndInv
<1>7. CASE Tick
  BY <1>7, TickInv
<1>8. CASE UNCHANGED vars
  BY <1>8 DEF vars, IInv, TypeOK, TokensDrawn, RowsConsistent, ReturnedReported, LeaseCovers,
              AttemptsNumbered, NeverDroppedUnhandled
<1> QED BY <1>1, <1>2, <1>3, <1>4, <1>5, <1>6, <1>7, <1>8 DEF Next

\* The invariant holds in every reachable state.
LEMMA Invariance == Spec => []IInv
BY InitInv, NextInv, PTL DEF Spec

\* Type correctness of the message table and its tasks.
THEOREM TypeCorrect == Spec => []TypeOK
<1>1. IInv => TypeOK
  BY DEF IInv
<1> QED BY <1>1, Invariance, PTL

(***************************************************************************)
(* Whatever the durations resolveConfig accepts: a callback whose context  *)
(* is live still holds its message's lease, for at least as long.          *)
(***************************************************************************)
THEOREM ExclusiveDelivery == Spec => []LiveHandlerHoldsLease
<1>1. IInv => LiveHandlerHoldsLease
  BY DEF IInv, TypeOK, LeaseCovers, RowsConsistent, LiveHandlerHoldsLease, HoldsLease, Task, Row
<1> QED BY <1>1, Invariance, PTL

\* No message is marked succeeded or removed before a callback handled it.
THEOREM NothingDropped == Spec => []NeverDroppedUnhandled
<1>1. IInv => NeverDroppedUnhandled
  BY DEF IInv
<1> QED BY <1>1, Invariance, PTL

(***************************************************************************)
(* A budget of MaxAttempts deliveries is never exceeded: started callbacks *)
(* have different attempt numbers, all between 1 and MaxAttempts.          *)
(***************************************************************************)
THEOREM BudgetKept == Spec => []DeliveryBudget
<1>1. IInv => DeliveryBudget
  <2> SUFFICES ASSUME IInv, NEW m \in Msgs PROVE Cardinality(calls[m]) <= MaxAttempts
    BY DEF DeliveryBudget
  <2> DEFINE f == [p \in calls[m] |-> p[1]]
  <2>1. IsFiniteSet(1..MaxAttempts) /\ Cardinality(1..MaxAttempts) = MaxAttempts
    BY FS_Interval, AttemptsAssumption
  <2>2. f \in Injection(calls[m], 1..MaxAttempts)
    <3>1. \A p \in calls[m] : p[1] \in 1..MaxAttempts
      BY AttemptsAssumption DEF IInv, TypeOK, Row, AttemptsNumbered, RowsConsistent
    <3>2. \A p, q \in calls[m] : p[1] = q[1] => p = q
      BY DEF IInv, AttemptsNumbered
    <3> QED BY <3>1, <3>2 DEF Injection, IsInjective
  <2> QED BY <2>1, <2>2, FS_Injection, AttemptsAssumption
<1> QED BY <1>1, Invariance, PTL

(***************************************************************************)
(* Fencing: a step that settles a leased message applies what the callback *)
(* of the task holding the lease reported.                                 *)
(***************************************************************************)
THEOREM Fencing == Spec => OnlyHolderSettles
<1> DEFINE Settles == \A m \in Msgs :
             /\ rows[m].status = "processing"
             /\ rows'[m].status \in {"pending", "succeeded"}
             => \E ok \in BOOLEAN : /\ <<m, rows[m].token, ok>> \in reports
                                    /\ ok <=> rows'[m].status = "succeeded"
<1>1. IInv /\ [Next]_vars => [Settles]_vars
  <2> SUFFICES ASSUME IInv, Next PROVE Settles
    OBVIOUS
  <2>0. rows \in [Msgs -> Row]
    BY DEF IInv, TypeOK
  <2>1. ASSUME NEW m \in Msgs, Insert(m) \/ Retry(m) PROVE Settles
    BY <2>0, <2>1 DEF Insert, Retry
  <2>2. ASSUME NEW S \in SUBSET Msgs, NEW lag \in Lags, MarkClaimed(S, lag) PROVE Settles
    <3>1. \A m \in Msgs : rows'[m] \in {GivenUp(m), Leased(m, lag), rows[m]}
      BY <2>2 DEF MarkClaimed
    <3> QED BY <3>1, ClaimedRow
  <2>3. ASSUME NEW s \in Shards, NEW S \in SUBSET Msgs, Cleanup(s, S) PROVE Settles
    BY <2>0, <2>3 DEF Cleanup
  <2>4. ASSUME NEW t \in tasks, Finish(t) PROVE Settles
    <3>0. t \in Task /\ t.id \in Msgs /\ rows[t.id] \in Row /\ t.phase = "returned"
      BY <2>0, <2>4 DEF IInv, TypeOK, Finish, Task
    <3>1. CASE UNCHANGED rows
      BY <3>1
    <3>2. ASSUME HoldsLease(t), NEW delay \in Backoff(t.attempts),
                 rows' = [rows EXCEPT ![t.id] = Outcome(t, delay)]
          PROVE  Settles
      <4>1. Outcome(t, delay).status = "succeeded" <=> t.ok
        BY <3>0, BackoffType, OutcomeRow
      <4>2. <<t.id, rows[t.id].token, t.ok>> \in reports /\ t.ok \in BOOLEAN
        BY <3>0, <3>2 DEF HoldsLease, IInv, ReturnedReported, Task
      <4>3. rows'[t.id] = Outcome(t, delay) /\ \A m \in Msgs : m # t.id => rows'[m] = rows[m]
        BY <2>0, <3>0, <3>2
      <4> SUFFICES ASSUME NEW m \in Msgs, rows[m].status = "processing",
                          rows'[m].status \in {"pending", "succeeded"}
                   PROVE  \E ok \in BOOLEAN : /\ <<m, rows[m].token, ok>> \in reports
                                              /\ ok <=> rows'[m].status = "succeeded"
        OBVIOUS
      <4>4. m = t.id
        BY <4>3
      <4> t.ok \in BOOLEAN
        BY <4>2
      <4> WITNESS t.ok \in BOOLEAN
      <4> QED BY <4>1, <4>2, <4>3, <4>4, Zenon
    <3> QED BY <2>4, <3>1, <3>2 DEF Finish
  <2>5. ASSUME NEW t \in tasks, NEW ok \in BOOLEAN, Start(t) \/ Reject(t) \/ Lose(t) \/ Return(t, ok)
        PROVE Settles
    BY <2>5 DEF Start, Reject, Lose, Return
  <2>6. CASE Tick
    BY <2>0, <2>6 DEF Tick, Row
  <2> QED BY <2>1, <2>2, <2>3, <2>4, <2>5, <2>6 DEF Next, ClaimIDs, ClaimShard
<1> QED BY <1>1, Invariance, PTL DEF Spec, OnlyHolderSettles

-------------------------------------------------------------------------------
(* The refinement: which step of the ledger each step of the table is. *)

\* The initial table is the empty ledger.
LEMMA LedgerInit == Init => Ledger!Init
BY DEF Init, Ledger!Init, Ledger!NoHolder, Absent, LedgerState

\* A step that keeps what the ledger sees of every row is no ledger step.
LEMMA LedgerStutter ==
    ASSUME \A m \in Msgs : /\ rows'[m].status = rows[m].status
                           /\ rows'[m].attempts = rows[m].attempts
                           /\ rows'[m].token = rows[m].token,
           UNCHANGED reports
    PROVE  UNCHANGED Ledger!vars
BY DEF Ledger!vars, LedgerState

\* insert submits its message.
LEMMA LedgerSubmit == ASSUME IInv, NEW m \in Msgs, Insert(m) PROVE Ledger!Submit({m})
<1>1. rows \in [Msgs -> Row] /\ rows' = [rows EXCEPT ![m] = Fresh] /\ rows[m].status = "absent"
  BY DEF IInv, TypeOK, Insert
<1>2. rows[m].attempts = 0 /\ rows[m].token = 0
  BY <1>1 DEF IInv, TypeOK, RowsConsistent, Row
<1> QED BY <1>1, <1>2, FreshType DEF Ledger!Submit, LedgerState, Insert

\* Retry requeues its message.
LEMMA LedgerRequeue == ASSUME IInv, NEW m \in Msgs, Retry(m) PROVE Ledger!Requeue(m)
<1>1. rows \in [Msgs -> Row] /\ rows' = [rows EXCEPT ![m] = Fresh] /\ rows[m].status = "failed"
  BY DEF IInv, TypeOK, Retry
<1>2. rows[m].token = 0
  BY <1>1 DEF IInv, TypeOK, RowsConsistent, Row
<1> QED BY <1>1, <1>2, FreshType DEF Ledger!Requeue, LedgerState, Retry

\* cleanup forgets its messages.
LEMMA LedgerForget == ASSUME IInv, NEW s, NEW S \in SUBSET Msgs, Cleanup(s, S) PROVE Ledger!Forget(S)
<1>1. /\ rows \in [Msgs -> Row] /\ \A m \in S : rows[m].status = "succeeded"
      /\ UNCHANGED reports
      /\ \A m \in Msgs : /\ rows'[m].token = rows[m].token /\ rows'[m].attempts = rows[m].attempts
                         /\ m \in S => rows'[m].status = "deleted"
                         /\ m \notin S => rows'[m].status = rows[m].status
  BY DEF IInv, TypeOK, Cleanup, Row
<1> QED BY <1>1 DEF Ledger!Forget, LedgerState

\* A claim grants its rows under the token it drew.
LEMMA LedgerGrant ==
    ASSUME IInv, NEW S \in SUBSET Msgs, NEW lag \in Lags, \A m \in S : Claimable(m, lag),
           MarkClaimed(S, lag)
    PROVE  \E h \in Tokens : Ledger!Grant(S, h)
<1> DEFINE spent == {m \in S : rows[m].attempts >= MaxAttempts}
           taken == S \ spent
<1>0. PICK h \in Tokens : h = claims + 1
  BY BoundsAssumption DEF IInv, TypeOK, MarkClaimed
<1>1. /\ \A m \in Msgs : rows[m].token # h
      /\ \A m \in Msgs, ok \in BOOLEAN : <<m, h, ok>> \notin reports
      /\ UNCHANGED reports
  BY <1>0 DEF IInv, TypeOK, TokensDrawn, MarkClaimed, Row
<1>2. /\ \A m \in Msgs \ S : rows'[m] = rows[m]
      /\ \A m \in spent : rows'[m] = GivenUp(m)
      /\ \A m \in taken : rows'[m] = Leased(m, lag)
  BY DEF MarkClaimed
<1>3. /\ \A m \in spent : /\ rows'[m].status = "failed" /\ rows'[m].token = 0
                          /\ rows'[m].attempts = rows[m].attempts
      /\ \A m \in taken : /\ rows'[m].status = "processing" /\ rows'[m].token = h
                          /\ rows'[m].attempts = rows[m].attempts + 1
  BY <1>0, <1>2, ClaimedRow
<1>4. \A m \in S : rows[m].status \in {"pending", "processing"}
  BY DEF Claimable
<1>5. spent = {m \in S : [x \in Msgs |-> rows[x].attempts][m] >= MaxAttempts}
  OBVIOUS
<1>6. Ledger!Grant(S, h)
  <2> DEFINE sp == {i \in S : [m \in Msgs |-> rows[m].attempts][i] >= MaxAttempts}
  <2>1. sp = spent
    BY <1>5
  <2>2. \A i \in S : [m \in Msgs |-> LedgerState(rows[m].status)][i] \in {"waiting", "held"}
    BY <1>4 DEF LedgerState
  <2>3. [m \in Msgs |-> LedgerState(rows'[m].status)] =
          [i \in Msgs |-> CASE i \in sp -> "dead" [] i \in S \ sp -> "held"
                            [] OTHER -> [m \in Msgs |-> LedgerState(rows[m].status)][i]]
    BY <1>2, <1>3, <2>1 DEF LedgerState
  <2>4. [m \in Msgs |-> rows'[m].attempts] =
          [i \in Msgs |-> IF i \in S \ sp THEN [m \in Msgs |-> rows[m].attempts][i] + 1
                          ELSE [m \in Msgs |-> rows[m].attempts][i]]
    BY <1>2, <1>3, <2>1
  <2>5. [m \in Msgs |-> rows'[m].token] =
          [i \in Msgs |-> CASE i \in sp -> 0 [] i \in S \ sp -> h
                            [] OTHER -> [m \in Msgs |-> rows[m].token][i]]
    BY <1>2, <1>3, <2>1
  <2> QED BY <1>1, <2>2, <2>3, <2>4, <2>5 DEF Ledger!Grant, Ledger!NoHolder
<1> QED BY <1>6

\* finish settles the row it holds, by the report of its own callback, or
\* finds its lease lost.
LEMMA LedgerSettle ==
    ASSUME IInv, NEW t \in tasks, Finish(t) PROVE Ledger!Settle(t.id) \/ UNCHANGED Ledger!vars
<1>0. /\ t \in Task /\ t.id \in Msgs /\ rows \in [Msgs -> Row] /\ rows[t.id] \in Row
      /\ t.phase = "returned" /\ UNCHANGED reports
  BY DEF IInv, TypeOK, Finish, Task
<1>1. CASE UNCHANGED rows
  BY <1>0, <1>1, LedgerStutter
<1>2. ASSUME HoldsLease(t), NEW delay \in Backoff(t.attempts),
             rows' = [rows EXCEPT ![t.id] = Outcome(t, delay)]
      PROVE  Ledger!Settle(t.id)
  <2> DEFINE q == Outcome(t, delay)
             attempts == [m \in Msgs |-> rows[m].attempts]
             state == [m \in Msgs |-> LedgerState(rows[m].status)]
             token == [m \in Msgs |-> rows[m].token]
  <2>1. /\ q.token = 0 /\ q.attempts = rows[t.id].attempts
        /\ q.status \in {"pending", "succeeded", "failed"}
        /\ q.status = "succeeded" <=> t.ok
        /\ q.status = "failed" <=> ~t.ok /\ t.attempts >= MaxAttempts
    BY <1>0, BackoffType, OutcomeRow
  <2>2. /\ rows[t.id].status = "processing" /\ rows[t.id].token = t.token
        /\ t.attempts = rows[t.id].attempts
    BY <1>2 DEF HoldsLease, IInv, RowsConsistent
  <2>3. <<t.id, t.token, t.ok>> \in reports /\ t.ok \in BOOLEAN
    BY <1>0 DEF IInv, ReturnedReported, Task
  <2>4. rows'[t.id] = q /\ \A m \in Msgs : m # t.id => rows'[m] = rows[m]
    BY <1>0, <1>2
  <2> HIDE DEF q
  <2>5. LedgerState(q.status) = IF t.ok THEN "done" ELSE IF attempts[t.id] >= MaxAttempts THEN "dead"
                                ELSE "waiting"
    BY <1>0, <2>1, <2>2 DEF LedgerState
  <2>6. [m \in Msgs |-> LedgerState(rows'[m].status)] =
          [state EXCEPT ![t.id] = IF t.ok THEN "done" ELSE IF attempts[t.id] >= MaxAttempts
                                  THEN "dead" ELSE "waiting"]
    BY <1>0, <2>4, <2>5
  <2>7. [m \in Msgs |-> rows'[m].token] = [token EXCEPT ![t.id] = 0]
    BY <1>0, <2>1, <2>4
  <2>8. [m \in Msgs |-> rows'[m].attempts] = attempts
    BY <1>0, <2>1, <2>4
  <2>9. state[t.id] = "held" /\ <<t.id, token[t.id], t.ok>> \in reports
    BY <1>0, <2>2, <2>3 DEF LedgerState
  <2> QED BY <1>0, <2>3, <2>6, <2>7, <2>8, <2>9, Zenon DEF Ledger!Settle, Ledger!NoHolder
<1> QED BY <1>1, <1>2 DEF Finish

(***************************************************************************)
(* The message table implements the delivery ledger: at least once, within *)
(* the budget, settled by the present holder only.                         *)
(***************************************************************************)
THEOREM Refinement == Spec => ImplementsLedger
<1>1. IInv /\ IInv' /\ [Next]_vars => [Ledger!Next]_(Ledger!vars)
  <2> SUFFICES ASSUME IInv, [Next]_vars PROVE Ledger!Next \/ UNCHANGED Ledger!vars
    OBVIOUS
  <2>0. rows \in [Msgs -> Row] /\ tasks \subseteq Task
    BY DEF IInv, TypeOK
  <2>1. ASSUME NEW m \in Msgs, Insert(m) PROVE Ledger!Next
    BY <2>1, LedgerSubmit DEF Ledger!Next
  <2>2. ASSUME NEW m \in Msgs, Retry(m) PROVE Ledger!Next
    BY <2>2, LedgerRequeue DEF Ledger!Next
  <2>3. ASSUME NEW S \in SUBSET Msgs, NEW lag \in Lags, \A m \in S : Claimable(m, lag),
               MarkClaimed(S, lag)
        PROVE Ledger!Next
    BY <2>3, LedgerGrant DEF Ledger!Next
  <2>4. ASSUME NEW s \in Shards, NEW S \in SUBSET Msgs, Cleanup(s, S) PROVE Ledger!Next
    BY <2>4, LedgerForget DEF Ledger!Next
  <2>5. ASSUME NEW t \in tasks, Finish(t) PROVE Ledger!Next \/ UNCHANGED Ledger!vars
    BY <2>0, <2>5, LedgerSettle DEF Ledger!Next, Task
  <2>6. ASSUME NEW t \in tasks, Start(t) \/ Lose(t) PROVE UNCHANGED Ledger!vars
    BY <2>6, LedgerStutter DEF Start, Lose
  <2>7. ASSUME NEW t \in tasks, NEW ok \in BOOLEAN, Return(t, ok) \/ (Reject(t) /\ ~ok)
        PROVE Ledger!Next
    <3>1. Ledger!Report(t.id, t.token, ok)
      BY <2>7 DEF Return, Reject, Ledger!Report
    <3> QED BY <2>0, <3>1 DEF Ledger!Next, Task
  <2>8. ASSUME Tick PROVE UNCHANGED Ledger!vars
    <3>1. /\ UNCHANGED reports
          /\ \A m \in Msgs : /\ rows'[m].status = rows[m].status
                             /\ rows'[m].attempts = rows[m].attempts
                             /\ rows'[m].token = rows[m].token
      BY <2>0, <2>8 DEF Tick, Row
    <3> QED BY <3>1, LedgerStutter
  <2>9. CASE UNCHANGED vars
    BY <2>9, LedgerStutter DEF vars
  <2> QED BY <2>1, <2>2, <2>3, <2>4, <2>5, <2>6, <2>7, <2>8, <2>9
          DEF Next, ClaimIDs, ClaimShard
<1> QED BY <1>1, LedgerInit, Invariance, PTL DEF Spec, ImplementsLedger, Ledger!Spec
===============================================================================
