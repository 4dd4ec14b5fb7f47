------------------------ MODULE CompensatorStoreProofs ------------------------
(***************************************************************************)
(* Proofs about CompensatorStore for any tasks, nodes, budget, durations   *)
(* accepted by resolveConfig, and any number of claims, retries, crashes,  *)
(* closings and lost statements.                                           *)
(***************************************************************************)
EXTENDS CompensatorStore, FiniteSetTheorems, TLAPS

(***************************************************************************)
(* The parts of the inductive invariant.                                   *)
(***************************************************************************)

\* Tokens in use were drawn, by the node that works on the task; a token and an
\* id name one task.
TokensDrawn ==
    /\ \A k \in Tokens : k <= claims => drawnBy[k] \in Nodes
    /\ \A t \in tasks : t.token <= claims /\ drawnBy[t.token] = t.node
    /\ \A i \in Items : rows[i].token <= claims
    /\ \A r \in reports : r[2] <= claims
    /\ \A t, u \in tasks : t.id = u.id /\ t.token = u.token => t = u

\* Exactly the running rows carry a token; the task that has it knows the
\* attempt and the epoch.
RowsConsistent ==
    /\ \A i \in Items : rows[i].status = "running" <=> rows[i].token # NoToken
    /\ \A i \in Items : rows[i].attempts <= MaxAttempts
    /\ \A i \in Items : rows[i].status = "absent" => rows[i].attempts = 0
    /\ \A t \in tasks : rows[t.id].token = t.token =>
         t.attempt = rows[t.id].attempts /\ t.epoch = epoch[t.id]

\* What a task wants to write was reported by its callback.
ReturnedReported ==
    \A t \in tasks : t.phase = "returned" => <<t.id, t.token, t.ok>> \in reports

\* A claimed task that has not started still has its whole callback ahead of
\* the end of its lease; a running one what is left of its deadline.
WideLease == PromptStart /\ LeaseDuration - HandlerTimeout >= OperationTimeout
LeaseCovers ==
    WideLease => \A t \in tasks :
        /\ t.phase = "claimed" => /\ rows[t.id].token = t.token
                                  /\ rows[t.id].next >= t.left + HandlerTimeout
        /\ t.phase = "running" /\ t.left > 0 => /\ rows[t.id].token = t.token
                                                /\ rows[t.id].next >= t.left

\* Callbacks and tasks of the epoch are told apart by their attempts, although
\* abandon gives attempts back.
AttemptsNumbered ==
    /\ \A i \in Items : \A p \in calls[i] : p[1] \in 1..rows[i].attempts
    /\ \A i \in Items : \A p, q \in calls[i] : p[1] = q[1] => p = q
    /\ \A t \in tasks : t.epoch <= epoch[t.id]
    /\ \A t \in tasks : t.epoch = epoch[t.id] => t.attempt \in 1..rows[t.id].attempts
    /\ \A t, u \in tasks : t.id = u.id /\ t.epoch = epoch[t.id] /\ u.epoch = epoch[t.id]
                             /\ t.attempt = u.attempt => t = u
    /\ \A t \in tasks : t.epoch = epoch[t.id] =>
         \A p \in calls[t.id] : p[1] = t.attempt => t.phase # "claimed" /\ p[2] = t.token

\* Only a live node has tasks, and a row leased to a node that did not die is in
\* the hands of one of its tasks or was lost.
LeasesAccounted ==
    /\ \A t \in tasks : life[t.node] \in {"up", "stopping", "closing"}
    /\ \A i \in Items :
         rows[i].status = "running" /\ life[drawnBy[rows[i].token]] # "gone" =>
           \/ \E t \in tasks : t.id = i /\ t.token = rows[i].token
           \/ <<i, rows[i].token>> \in lost

IInv == /\ TypeOK /\ TokensDrawn /\ RowsConsistent /\ ReturnedReported
        /\ LeaseCovers /\ AttemptsNumbered /\ LeasesAccounted

USE DEF NoToken, Tokens

-------------------------------------------------------------------------------
(* Facts about the operators. *)

\* One OperationTimeout below zero.
LEMMA PastType == Past \in Int /\ Past < 0
BY DurationsAssumption DEF Past

\* Every backoff delay is an integer.
LEMMA BackoffType == ASSUME NEW a, NEW d \in Backoff(a) PROVE d \in Int
BY DEF Backoff

\* The row of a task that was not submitted yet.
LEMMA AbsentType == Absent \in Row /\ Absent.status = "absent" /\ Absent.token = 0 /\ Absent.attempts = 0
BY PastType DEF Absent, Row, Status

\* The row insert and Retry write.
LEMMA FreshType == Fresh \in Row /\ Fresh.status = "pending" /\ Fresh.token = 0 /\ Fresh.attempts = 0
BY PastType DEF Fresh, Row, Status

\* Time leaves a countdown a countdown and never moves it up from above Past.
LEMMA ElapseType == ASSUME NEW x \in Int PROVE Elapse(x) \in Int /\ (x > Past => Elapse(x) = x - 1)
BY PastType DEF Elapse

\* What outcome writes: an unleased row with the same attempts.
LEMMA OutcomeRow ==
    ASSUME NEW t \in Task, rows[t.id] \in Row, NEW delay \in Int
    PROVE  /\ Outcome(t, delay) \in Row
           /\ Outcome(t, delay).token = 0
           /\ Outcome(t, delay).attempts = rows[t.id].attempts
           /\ Outcome(t, delay).status \in {"pending", "succeeded", "failed"}
           /\ Outcome(t, delay).status = "succeeded" <=> t.ok
           /\ Outcome(t, delay).status = "failed" <=> ~t.ok /\ t.attempt >= MaxAttempts
<1> DEFINE r == rows[t.id]
           q == Outcome(t, delay)
<1>0. /\ Past \in Int /\ CleanupAfter \in Int /\ FailedRetention \in Int /\ r \in Row
      /\ {"pending", "succeeded", "failed"} \subseteq Status
  BY PastType, DurationsAssumption DEF Status
<1>1. CASE t.ok
  <2>1. q = [r EXCEPT !.status = "succeeded", !.token = 0, !.kept = CleanupAfter]
    BY <1>1 DEF Outcome
  <2>2. q \in Row /\ q.token = 0 /\ q.attempts = r.attempts /\ q.status = "succeeded"
    <3> HIDE DEF q, r
    <3> QED BY <1>0, <2>1 DEF Row
  <2> QED BY <1>1, <2>2
<1>2. CASE ~t.ok /\ t.attempt >= MaxAttempts
  <2>1. q = [r EXCEPT !.status = "failed", !.token = 0, !.kept = FailedRetention]
    BY <1>2 DEF Outcome
  <2>2. q \in Row /\ q.token = 0 /\ q.attempts = r.attempts /\ q.status = "failed"
    <3> HIDE DEF q, r
    <3> QED BY <1>0, <2>1 DEF Row
  <2> QED BY <1>2, <2>2
<1>3. CASE ~t.ok /\ ~(t.attempt >= MaxAttempts)
  <2>1. q = [r EXCEPT !.status = "pending", !.token = 0, !.next = delay, !.kept = Past]
    BY <1>3 DEF Outcome
  <2>2. q \in Row /\ q.token = 0 /\ q.attempts = r.attempts /\ q.status = "pending"
    <3> HIDE DEF q, r
    <3> QED BY <1>0, <2>1 DEF Row
  <2> QED BY <1>3, <2>2
<1> QED BY <1>1, <1>2, <1>3 DEF Task

\* What a claim leaves of a selected row.
LEMMA ClaimedRow ==
    ASSUME IInv, NEW i \in Items, NEW lag \in Lags
    PROVE  /\ GivenUp(i) \in Row /\ GivenUp(i).status = "failed" /\ GivenUp(i).token = 0
           /\ GivenUp(i).attempts = rows[i].attempts
           /\ Leased(i, lag) \in Row /\ Leased(i, lag).status = "running"
           /\ Leased(i, lag).token = claims + 1 /\ Leased(i, lag).next = LeaseDuration - lag
           /\ Leased(i, lag).attempts = rows[i].attempts + 1
<1> DEFINE r == rows[i]
           dead == GivenUp(i)
           live == Leased(i, lag)
           more == r.attempts + 1
           drawn == claims + 1
           until == LeaseDuration - lag
<1>1. /\ r \in Row /\ Past \in Int /\ FailedRetention \in Int /\ more \in Nat /\ drawn \in Nat
      /\ until \in Int /\ {"failed", "running"} \subseteq Status
  BY PastType, DurationsAssumption, BoundsAssumption, SMTT(30) DEF IInv, TypeOK, Status, Lags, Row
<1>2. dead = [r EXCEPT !.status = "failed", !.token = 0, !.kept = FailedRetention]
  BY DEF GivenUp
<1>3. live = [r EXCEPT !.status = "running", !.attempts = more, !.token = drawn,
                       !.next = until, !.kept = Past]
  BY DEF Leased
<1> HIDE DEF r, dead, live, more, drawn, until
<1>4. dead \in Row /\ dead.status = "failed" /\ dead.token = 0 /\ dead.attempts = r.attempts
  BY <1>1, <1>2 DEF Row
<1>5. /\ live \in Row /\ live.status = "running" /\ live.token = drawn
      /\ live.next = until /\ live.attempts = more
  BY <1>1, <1>3 DEF Row
<1> QED BY <1>4, <1>5 DEF r, dead, live, more, drawn, until

-------------------------------------------------------------------------------
(* The initial states satisfy the invariant. *)
LEMMA InitInv == Init => IInv
<1> SUFFICES ASSUME Init PROVE IInv
  OBVIOUS
<1>1. TypeOK
  BY AbsentType, BoundsAssumption DEF Init, TypeOK, NoNode
<1>2. TokensDrawn /\ RowsConsistent /\ ReturnedReported /\ LeaseCovers
  BY AttemptsAssumption, AbsentType DEF Init, TokensDrawn, RowsConsistent, ReturnedReported, LeaseCovers
<1>3. AttemptsNumbered /\ LeasesAccounted
  BY AbsentType DEF Init, AttemptsNumbered, LeasesAccounted
<1> QED BY <1>1, <1>2, <1>3 DEF IInv

\* A step that puts unleased rows in the place of unleased ones, with nothing
\* left of the tasks and callbacks of their epoch.
LEMMA RenewInv ==
    ASSUME IInv, NEW S \in SUBSET Items, rows' \in [Items -> Row],
           \A i \in Items \ S : rows'[i] = rows[i] /\ calls'[i] = calls[i] /\ epoch'[i] = epoch[i],
           \A i \in S : /\ rows[i].token = 0 /\ rows'[i].token = 0 /\ rows'[i].attempts = 0
                        /\ rows'[i].status \notin {"running", "absent"} /\ calls'[i] = {}
                        /\ \A t \in tasks : t.id = i => t.epoch < epoch'[i],
           epoch' \in [Items -> Nat], calls' \in [Items -> SUBSET (Nat \X Tokens)],
           UNCHANGED <<tasks, life, claims, drawnBy, reports, lost>>
    PROVE  IInv'
<1>0. \A t \in tasks : t \in Task /\ t.id \in Items /\ t.token # 0
  BY DEF IInv, TypeOK, Task
<1>1. TypeOK'
  BY DEF IInv, TypeOK
<1>2. TokensDrawn'
  BY SMTT(30) DEF IInv, TypeOK, TokensDrawn
<1>3. RowsConsistent'
  BY <1>0, AttemptsAssumption DEF IInv, RowsConsistent
<1>4. ReturnedReported'
  BY DEF IInv, ReturnedReported
<1>5. LeaseCovers'
  BY <1>0 DEF IInv, LeaseCovers
<1>6. AttemptsNumbered'
  <2>1. \A t \in tasks : t.epoch \in Nat /\ epoch'[t.id] \in Nat
    BY <1>0 DEF Task
  <2>2. \A t \in tasks : t.epoch = epoch'[t.id] => t.id \notin S
    BY <1>0, <2>1
  <2> QED BY <1>0, <2>1, <2>2 DEF IInv, AttemptsNumbered
<1>7. LeasesAccounted'
  BY DEF IInv, LeasesAccounted
<1> QED BY <1>1, <1>2, <1>3, <1>4, <1>5, <1>6, <1>7 DEF IInv

\* New rows are unleased and have no task of this epoch.
LEMMA InsertInv == ASSUME IInv, NEW S \in SUBSET Items, Insert(S) PROVE IInv'
<1>1. /\ \A i \in S : rows[i].status = "absent"
      /\ rows' = [i \in Items |-> IF i \in S THEN Fresh ELSE rows[i]]
      /\ UNCHANGED <<tasks, life, claims, drawnBy, reports, epoch, calls, lost>>
  BY DEF Insert
<1>2. \A i \in S : rows[i].attempts = 0 /\ rows[i].token = 0
  BY <1>1 DEF IInv, TypeOK, RowsConsistent, Row
<1>3. \A i \in S : calls[i] = {} /\ \A t \in tasks : t.id = i => t.epoch < epoch[i]
  BY <1>2 DEF IInv, TypeOK, AttemptsNumbered, Task
<1>4. /\ rows' \in [Items -> Row] /\ \A i \in S : rows'[i] = Fresh
      /\ \A i \in Items \ S : rows'[i] = rows[i]
      /\ epoch \in [Items -> Nat] /\ calls \in [Items -> SUBSET (Nat \X Tokens)]
  BY <1>1, FreshType DEF IInv, TypeOK
<1> QED BY <1>1, <1>2, <1>3, <1>4, FreshType, RenewInv

\* Retry starts a new epoch.
LEMMA RetryInv == ASSUME IInv, NEW i \in Items, Retry(i) PROVE IInv'
<1>1. /\ rows' = [rows EXCEPT ![i] = Fresh] /\ rows[i].status = "failed"
      /\ epoch' = [epoch EXCEPT ![i] = @ + 1] /\ calls' = [calls EXCEPT ![i] = {}]
      /\ UNCHANGED <<tasks, life, claims, drawnBy, reports, lost>>
  BY DEF Retry
<1>2. rows[i].token = 0
  BY <1>1 DEF IInv, TypeOK, RowsConsistent, Row
<1>3. /\ rows' \in [Items -> Row] /\ rows'[i] = Fresh
      /\ epoch' \in [Items -> Nat] /\ calls' \in [Items -> SUBSET (Nat \X Tokens)]
      /\ calls'[i] = {} /\ epoch'[i] = epoch[i] + 1
      /\ \A j \in Items \ {i} : rows'[j] = rows[j] /\ calls'[j] = calls[j] /\ epoch'[j] = epoch[j]
  BY <1>1, FreshType DEF IInv, TypeOK
<1>4. \A t \in tasks : t.id = i => t.epoch < epoch'[i]
  BY <1>3 DEF IInv, TypeOK, AttemptsNumbered, Task
<1> DEFINE S == {i}
<1>5. /\ S \in SUBSET Items
      /\ \A j \in S : /\ rows[j].token = 0 /\ rows'[j].token = 0 /\ rows'[j].attempts = 0
                      /\ rows'[j].status \notin {"running", "absent"} /\ calls'[j] = {}
                      /\ \A t \in tasks : t.id = j => t.epoch < epoch'[j]
  BY <1>2, <1>3, <1>4, FreshType
<1>6. \A j \in Items \ S : rows'[j] = rows[j] /\ calls'[j] = calls[j] /\ epoch'[j] = epoch[j]
  BY <1>3
<1> HIDE DEF S
<1> QED BY <1>1, <1>3, <1>5, <1>6, RenewInv

\* Cleanup removes rows that no task holds.
LEMMA CleanupInv ==
    ASSUME IInv, NEW s \in {"succeeded", "failed"}, NEW S \in SUBSET Items, Cleanup(s, S) PROVE IInv'
<1>0. /\ UNCHANGED <<tasks, life, claims, drawnBy, reports, epoch, calls, lost>>
      /\ rows' \in [Items -> Row]
      /\ \A i \in Items : /\ rows'[i].token = rows[i].token /\ rows'[i].attempts = rows[i].attempts
                          /\ rows'[i].next = rows[i].next
                          /\ i \in S => rows[i].status = s /\ rows'[i].status = "deleted"
                          /\ i \notin S => rows'[i].status = rows[i].status
  <2>1. /\ UNCHANGED <<tasks, life, claims, drawnBy, reports, epoch, calls, lost>>
        /\ \A i \in S : rows[i].status = s
        /\ rows' = [i \in Items |-> IF i \in S THEN [rows[i] EXCEPT !.status = "deleted"] ELSE rows[i]]
    BY DEF Cleanup
  <2>2. ASSUME NEW i \in Items
        PROVE  LET q == [rows[i] EXCEPT !.status = "deleted"]
               IN  /\ q \in Row /\ q.token = rows[i].token /\ q.attempts = rows[i].attempts
                   /\ q.next = rows[i].next /\ q.status = "deleted" /\ rows[i] \in Row
    <3>1. rows[i] \in Row
      BY DEF IInv, TypeOK
    <3> QED BY <3>1 DEF Row, Status
  <2> QED BY <2>1, <2>2
<1>1. TypeOK'
  BY <1>0 DEF IInv, TypeOK
<1>2. TokensDrawn' /\ RowsConsistent'
  <2>1. TokensDrawn'
    BY <1>0 DEF IInv, TokensDrawn
  <2>2. \A t \in tasks : t.id \in Items
    BY DEF IInv, TypeOK, Task
  <2>3. RowsConsistent'
    BY <1>0, <2>2 DEF IInv, RowsConsistent
  <2> QED BY <2>1, <2>3
<1>3. ReturnedReported'
  BY <1>0 DEF IInv, ReturnedReported
<1>4. LeaseCovers'
  BY <1>0 DEF IInv, TypeOK, LeaseCovers, Task
<1>5. AttemptsNumbered'
  BY <1>0 DEF IInv, TypeOK, AttemptsNumbered, Task
<1>6. LeasesAccounted'
  BY <1>0 DEF IInv, LeasesAccounted
<1> QED BY <1>1, <1>2, <1>3, <1>4, <1>5, <1>6 DEF IInv

\* A task that moves to another phase keeps its identity.
LEMMA PhaseInv ==
    ASSUME IInv, NEW t \in tasks, NEW u \in Task, Becomes(t, u),
           u.id = t.id, u.node = t.node, u.token = t.token, u.attempt = t.attempt, u.epoch = t.epoch,
           u.phase # "claimed", u.phase = "running" => t.phase = "claimed" /\ u.left = HandlerTimeout,
           u.phase = "returned" => <<t.id, t.token, u.ok>> \in reports',
           reports \subseteq reports', reports' \subseteq Items \X Tokens \X BOOLEAN,
           \A r \in reports' \ reports : r[2] = t.token,
           calls' = calls \/ (t.phase = "claimed" /\ calls' = IF t.epoch = epoch[t.id]
                      THEN [calls EXCEPT ![t.id] = @ \cup {<<t.attempt, t.token>>}] ELSE calls),
           UNCHANGED <<rows, life, claims, drawnBy, epoch, lost>>
    PROVE  IInv'
<1>0. /\ t \in Task /\ t.id \in Items /\ rows[t.id] \in Row /\ tasks' = (tasks \ {t}) \cup {u}
  BY DEF IInv, TypeOK, Task, Becomes
<1>a. calls' \in [Items -> SUBSET (Nat \X Tokens)]
  <2>1. calls \in [Items -> SUBSET (Nat \X Tokens)] /\ t.attempt \in Nat /\ t.token \in Tokens
    BY <1>0 DEF IInv, TypeOK, Task
  <2>2. <<t.attempt, t.token>> \in Nat \X Tokens
    BY <2>1
  <2>3. [calls EXCEPT ![t.id] = @ \cup {<<t.attempt, t.token>>}] \in [Items -> SUBSET (Nat \X Tokens)]
    BY <1>0, <2>1, <2>2
  <2> QED BY <2>1, <2>3
<1>1. TypeOK'
  BY <1>0, <1>a DEF IInv, TypeOK
<1>2. TokensDrawn'
  BY <1>0 DEF IInv, TokensDrawn
<1>3. RowsConsistent'
  BY <1>0 DEF IInv, RowsConsistent
<1>4. ReturnedReported'
  BY <1>0 DEF IInv, ReturnedReported
<1>5. LeaseCovers'
  <2>1. t.left \in Nat
    BY <1>0 DEF Task
  <2> QED BY <1>0, <2>1, DurationsAssumption DEF IInv, LeaseCovers, Row
<1>6. AttemptsNumbered'
  <2>1. CASE calls' = calls
    BY <1>0, <2>1 DEF IInv, AttemptsNumbered
  <2>2. CASE t.phase = "claimed" /\ t.epoch = epoch[t.id]
             /\ calls' = [calls EXCEPT ![t.id] = @ \cup {<<t.attempt, t.token>>}]
    <3> DEFINE p == <<t.attempt, t.token>>
    <3>1. /\ t.attempt \in 1..rows[t.id].attempts
          /\ \A q \in calls[t.id] : q[1] # t.attempt
          /\ calls'[t.id] = calls[t.id] \cup {p} /\ p[1] = t.attempt /\ p[2] = t.token
          /\ \A i \in Items : i # t.id => calls'[i] = calls[i]
      BY <1>0, <2>2 DEF IInv, TypeOK, AttemptsNumbered, Task
    <3> HIDE DEF p
    <3>2. \A v \in tasks' : v.id = t.id /\ v.epoch = epoch[t.id] /\ v.attempt = t.attempt => v = u
      BY <1>0, <2>2 DEF IInv, AttemptsNumbered
    <3>3. \A i \in Items : \A q \in calls'[i] : q[1] \in 1..rows'[i].attempts
      BY <3>1 DEF IInv, AttemptsNumbered
    <3>4. \A i \in Items : \A q, r \in calls'[i] : q[1] = r[1] => q = r
      BY <3>1 DEF IInv, AttemptsNumbered
    <3>5. \A v \in tasks' : v.epoch = epoch[v.id] =>
            \A q \in calls'[v.id] : q[1] = v.attempt => v.phase # "claimed" /\ q[2] = v.token
      <4> SUFFICES ASSUME NEW v \in tasks', v.epoch = epoch[v.id], NEW q \in calls'[v.id],
                          q[1] = v.attempt
                   PROVE  v.phase # "claimed" /\ q[2] = v.token
        OBVIOUS
      <4>0. v.id \in Items
        BY <1>1 DEF TypeOK, Task
      <4>1. CASE q = p /\ v.id = t.id
        BY <3>1, <3>2, <4>1
      <4>2. CASE q \in calls[v.id] /\ v = u
        BY <3>1, <4>2
      <4>3. CASE q \in calls[v.id] /\ v \in tasks
        BY <4>3 DEF IInv, AttemptsNumbered
      <4> QED BY <1>0, <3>1, <4>0, <4>1, <4>2, <4>3
    <3> QED BY <1>0, <3>3, <3>4, <3>5 DEF IInv, AttemptsNumbered
  <2> QED BY <2>1, <2>2
<1>7. LeasesAccounted'
  <2>1. \A v \in tasks : \E w \in tasks' : w.id = v.id /\ w.token = v.token
    BY <1>0
  <2> QED BY <1>0, <2>1 DEF IInv, LeasesAccounted
<1> QED BY <1>1, <1>2, <1>3, <1>4, <1>5, <1>6, <1>7 DEF IInv

\* The callback starts.
LEMMA StartInv == ASSUME IInv, NEW t \in tasks, Start(t) PROVE IInv'
<1> DEFINE u == [t EXCEPT !.phase = "running", !.left = HandlerTimeout]
<1>0. t \in Task /\ HandlerTimeout \in Nat
  BY DurationsAssumption DEF IInv, TypeOK
<1>1. /\ u \in Task /\ u.id = t.id /\ u.node = t.node /\ u.token = t.token /\ u.attempt = t.attempt
      /\ u.epoch = t.epoch /\ u.phase = "running" /\ u.left = HandlerTimeout
  BY <1>0 DEF Task
<1>2. /\ t.phase = "claimed" /\ Becomes(t, u)
      /\ calls' = IF t.epoch = epoch[t.id]
                  THEN [calls EXCEPT ![t.id] = @ \cup {<<t.attempt, t.token>>}] ELSE calls
      /\ UNCHANGED <<rows, life, claims, drawnBy, reports, epoch, lost>>
  BY DEF Start
<1>3. reports' \subseteq Items \X Tokens \X BOOLEAN
  BY <1>2 DEF IInv, TypeOK
<1> HIDE DEF u
<1> QED BY <1>1, <1>2, <1>3, PhaseInv

\* The end of a callback is reported before it is used.
LEMMA ReturnInv == ASSUME IInv, NEW t \in tasks, NEW ok \in BOOLEAN, Return(t, ok) PROVE IInv'
<1> DEFINE u == [t EXCEPT !.phase = "returned", !.ok = ok]
<1>0. t \in Task /\ reports \subseteq Items \X Tokens \X BOOLEAN
  BY DEF IInv, TypeOK
<1>1. /\ u \in Task /\ u.id = t.id /\ u.node = t.node /\ u.token = t.token /\ u.attempt = t.attempt
      /\ u.epoch = t.epoch /\ u.phase = "returned" /\ u.ok = ok
  BY <1>0 DEF Task
<1>2. /\ Becomes(t, u) /\ reports' = reports \cup {<<t.id, t.token, ok>>}
      /\ UNCHANGED <<rows, life, claims, drawnBy, epoch, calls, lost>>
  BY DEF Return
<1>3. <<t.id, t.token, ok>> \in Items \X Tokens \X BOOLEAN
  BY <1>0 DEF Task
<1>4. reports' \subseteq Items \X Tokens \X BOOLEAN /\ \A r \in reports' \ reports : r[2] = t.token
  BY <1>0, <1>2, <1>3
<1> HIDE DEF u
<1> QED BY <1>1, <1>2, <1>4, PhaseInv

\* Interrupt.
LEMMA InterruptInv == ASSUME IInv, NEW t \in tasks, Interrupt(t) PROVE IInv'
<1> DEFINE u == [t EXCEPT !.phase = "interrupted"]
<1>0. t \in Task /\ reports \subseteq Items \X Tokens \X BOOLEAN
  BY DEF IInv, TypeOK
<1>1. /\ u \in Task /\ u.id = t.id /\ u.node = t.node /\ u.token = t.token /\ u.attempt = t.attempt
      /\ u.epoch = t.epoch /\ u.phase = "interrupted"
  BY <1>0 DEF Task
<1>2. Becomes(t, u) /\ UNCHANGED <<rows, life, claims, drawnBy, reports, epoch, calls, lost>>
  BY DEF Interrupt
<1> HIDE DEF u
<1> QED BY <1>0, <1>1, <1>2, PhaseInv

\* A task that goes, and leaves no lease unaccounted for.
LEMMA RemoveInv ==
    ASSUME IInv, NEW t \in tasks, tasks' = tasks \ {t},
           lost \subseteq lost', lost' \subseteq Items \X Tokens,
           rows[t.id].token = t.token => <<t.id, t.token>> \in lost',
           UNCHANGED <<rows, life, claims, drawnBy, reports, epoch, calls>>
    PROVE  IInv'
<1>1. TypeOK' /\ TokensDrawn' /\ RowsConsistent'
  BY DEF IInv, TypeOK, TokensDrawn, RowsConsistent
<1>2. ReturnedReported' /\ LeaseCovers'
  BY DEF IInv, ReturnedReported, LeaseCovers
<1>3. AttemptsNumbered'
  BY DEF IInv, AttemptsNumbered
<1>4. LeasesAccounted'
  BY DEF IInv, LeasesAccounted
<1> QED BY <1>1, <1>2, <1>3, <1>4 DEF IInv

\* A task that has lost its row does not have its token.
LEMMA NotHolder == ASSUME IInv, NEW t \in tasks, ~HoldsToken(t) PROVE rows[t.id].token # t.token
BY DEF HoldsToken, IInv, TypeOK, RowsConsistent, Task

\* Lose.
LEMMA LoseInv == ASSUME IInv, NEW t \in tasks, Lose(t) PROVE IInv'
<1>1. /\ lost' = lost \cup {<<t.id, t.token>>} /\ tasks' = tasks \ {t}
      /\ UNCHANGED <<rows, life, claims, drawnBy, reports, epoch, calls>>
  BY DEF Lose
<1>2. t.id \in Items /\ t.token \in Tokens /\ lost \subseteq Items \X Tokens
  BY DEF IInv, TypeOK, Task
<1>3. lost' \subseteq Items \X Tokens /\ <<t.id, t.token>> \in lost'
  BY <1>1, <1>2
<1> QED BY <1>1, <1>3, RemoveInv

\* The holder writes its row and goes; if the attempt is refunded, so is the
\* callback that used it.
LEMMA SettleInv ==
    ASSUME IInv, NEW t \in tasks, HoldsToken(t), NEW q \in Row,
           rows' = [rows EXCEPT ![t.id] = q], tasks' = tasks \ {t},
           q.token = 0, q.status \notin {"running", "absent"},
           \/ q.attempts = rows[t.id].attempts /\ calls' = calls
           \/ /\ q.attempts = rows[t.id].attempts - 1
              /\ calls' = [calls EXCEPT ![t.id] = @ \ {<<t.attempt, t.token>>}],
           UNCHANGED <<life, claims, drawnBy, reports, epoch, lost>>
    PROVE  IInv'
<1>0. /\ t \in Task /\ t.id \in Items /\ rows \in [Items -> Row] /\ rows[t.id] \in Row
      /\ calls \in [Items -> SUBSET (Nat \X Tokens)]
  BY DEF IInv, TypeOK, Task
<1>1. /\ rows[t.id].token = t.token /\ t.attempt = rows[t.id].attempts /\ t.epoch = epoch[t.id]
      /\ rows[t.id].status = "running"
      /\ \A u \in tasks' : u \in tasks /\ u \in Task /\ u.token # 0 /\ (u.id = t.id => u.token # t.token)
  BY DEF HoldsToken, IInv, TypeOK, TokensDrawn, RowsConsistent, Task
<1>2. rows' \in [Items -> Row] /\ rows'[t.id] = q /\ \A i \in Items : i # t.id => rows'[i] = rows[i]
  BY <1>0
<1>3. /\ calls' \in [Items -> SUBSET (Nat \X Tokens)]
      /\ \A i \in Items : calls'[i] \subseteq calls[i]
  BY <1>0
<1>4. q.attempts \in Nat /\ rows[t.id].attempts \in Nat /\ q.attempts <= rows[t.id].attempts
  BY <1>0 DEF Row
<1>5. TypeOK'
  BY <1>2, <1>3 DEF IInv, TypeOK
<1>6. TokensDrawn'
  BY <1>2 DEF IInv, TypeOK, TokensDrawn
<1>7. RowsConsistent'
  <2>1. \A i \in Items : /\ rows'[i].status = "running" <=> rows'[i].token # 0
                         /\ rows'[i].status = "absent" => rows'[i].attempts = 0
    BY <1>2 DEF IInv, RowsConsistent
  <2>2. \A i \in Items : rows'[i].attempts <= MaxAttempts
    <3>1. rows[t.id].attempts <= MaxAttempts
      BY <1>0 DEF IInv, RowsConsistent
    <3> QED BY <1>2, <1>4, <3>1, AttemptsAssumption DEF IInv, RowsConsistent
  <2>3. \A u \in tasks' : rows'[u.id].token = u.token =>
          u.attempt = rows'[u.id].attempts /\ u.epoch = epoch[u.id]
    BY <1>1, <1>2 DEF IInv, RowsConsistent, Task
  <2> QED BY <2>1, <2>2, <2>3 DEF RowsConsistent
<1>8. ReturnedReported'
  BY DEF IInv, ReturnedReported
<1>9. LeaseCovers'
  BY <1>1, <1>2 DEF IInv, LeaseCovers, Task
<1>10. AttemptsNumbered'
  <2>1. \A p \in calls'[t.id] : p[1] \in 1..q.attempts
    <3>1. \A p \in calls[t.id] : p \in Nat \X Tokens /\ p[1] \in 1..rows[t.id].attempts
                                 /\ (p[1] = t.attempt => p[2] = t.token)
      BY <1>0, <1>1 DEF IInv, AttemptsNumbered
    <3>2. CASE q.attempts = rows[t.id].attempts /\ calls' = calls
      BY <3>1, <3>2
    <3>3. CASE /\ q.attempts = rows[t.id].attempts - 1
               /\ calls' = [calls EXCEPT ![t.id] = @ \ {<<t.attempt, t.token>>}]
      <4> SUFFICES ASSUME NEW p \in calls'[t.id] PROVE p[1] \in 1..q.attempts
        OBVIOUS
      <4>1. p \in calls[t.id] /\ p # <<t.attempt, t.token>>
        BY <1>0, <3>3
      <4>2. p[1] # t.attempt
        BY <3>1, <4>1
      <4> QED BY <1>1, <1>4, <3>1, <3>3, <4>1, <4>2
    <3> QED BY <3>2, <3>3
  <2>2. \A u \in tasks' : u.id = t.id /\ u.epoch = epoch[u.id] =>
          u.attempt \in 1..rows[t.id].attempts /\ u.attempt # t.attempt
    BY <1>1 DEF IInv, AttemptsNumbered
  <2>3. \A u \in tasks' : u.id = t.id /\ u.epoch = epoch[u.id] => u.attempt \in 1..q.attempts
    BY <1>1, <1>4, <2>2 DEF Task
  <2>4. \A i \in Items : \A p \in calls'[i] : p[1] \in 1..rows'[i].attempts
    BY <1>2, <1>3, <2>1 DEF IInv, AttemptsNumbered
  <2>5. \A i \in Items : \A p, r \in calls'[i] : p[1] = r[1] => p = r
    BY <1>3 DEF IInv, AttemptsNumbered
  <2>6. \A u \in tasks' : u.epoch = epoch[u.id] => u.attempt \in 1..rows'[u.id].attempts
    BY <1>1, <1>2, <2>3 DEF IInv, AttemptsNumbered, Task
  <2>7. \A u \in tasks' : u.epoch = epoch[u.id] =>
          \A p \in calls'[u.id] : p[1] = u.attempt => u.phase # "claimed" /\ p[2] = u.token
    BY <1>1, <1>3 DEF IInv, AttemptsNumbered, Task
  <2> QED BY <1>1, <2>4, <2>5, <2>6, <2>7 DEF IInv, AttemptsNumbered
<1>11. LeasesAccounted'
  BY <1>1, <1>2 DEF IInv, LeasesAccounted
<1> QED BY <1>5, <1>6, <1>7, <1>8, <1>9, <1>10, <1>11 DEF IInv

\* finish, by the holder or too late.
LEMMA FinishInv == ASSUME IInv, NEW t \in tasks, Finish(t) PROVE IInv'
<1>0. /\ t \in Task /\ rows[t.id] \in Row /\ tasks' = tasks \ {t}
      /\ UNCHANGED <<life, claims, drawnBy, reports, epoch, calls, lost>>
  BY DEF IInv, TypeOK, Finish, Task
<1>1. ASSUME HoldsToken(t), NEW delay \in Backoff(t.attempt),
             rows' = [rows EXCEPT ![t.id] = Outcome(t, delay)]
      PROVE  IInv'
  BY <1>0, <1>1, BackoffType, OutcomeRow, SettleInv
<1>2. CASE ~HoldsToken(t) /\ UNCHANGED rows
  BY <1>0, <1>2, NotHolder, RemoveInv DEF IInv, TypeOK
<1> QED BY <1>1, <1>2 DEF Finish

\* abandon, by the holder or too late.
LEMMA AbandonInv == ASSUME IInv, NEW t \in tasks, Abandon(t) PROVE IInv'
<1>0. /\ t \in Task /\ t.id \in Items /\ rows \in [Items -> Row] /\ rows[t.id] \in Row
      /\ tasks' = tasks \ {t}
      /\ UNCHANGED <<life, claims, drawnBy, reports, epoch, lost>>
  BY DEF IInv, TypeOK, Abandon, Task
<1>1. CASE HoldsToken(t)
  <2> DEFINE less == rows[t.id].attempts - 1
             q == [rows[t.id] EXCEPT !.status = "pending", !.attempts = less, !.token = 0, !.next = 0]
  <2>1. /\ t.epoch = epoch[t.id] /\ t.attempt = rows[t.id].attempts /\ rows[t.id].attempts \in Nat \ {0}
    BY <1>0, <1>1 DEF HoldsToken, IInv, RowsConsistent, AttemptsNumbered, Row
  <2>2. less \in Nat
    BY <2>1
  <2>3. /\ rows' = [rows EXCEPT ![t.id] = q]
        /\ calls' = [calls EXCEPT ![t.id] = @ \ {<<t.attempt, t.token>>}]
    <3>1. /\ rows' = [rows EXCEPT ![t.id].status = "pending", ![t.id].attempts = @ - 1,
                                  ![t.id].token = NoToken, ![t.id].next = 0]
          /\ calls' = IF t.epoch = epoch[t.id]
                      THEN [calls EXCEPT ![t.id] = @ \ {<<t.attempt, t.token>>}] ELSE calls
      BY <1>1 DEF Abandon
    <3> QED BY <1>0, <2>1, <3>1
  <2> DEFINE r == rows[t.id]
  <2>a. q = [r EXCEPT !.status = "pending", !.attempts = less, !.token = 0, !.next = 0] /\ r \in Row
        /\ "pending" \in Status
    BY <1>0 DEF Status
  <2> HIDE DEF less, r, q
  <2>b. /\ q = [status |-> "pending", attempts |-> less, next |-> 0, token |-> 0, kept |-> r.kept]
        /\ r.kept \in Int
    BY <2>a DEF Row
  <2>4. /\ q \in Row /\ q.token = 0 /\ q.status = "pending" /\ q.attempts = less
    BY <2>a, <2>b, <2>2 DEF Row
  <2> QED BY <1>0, <1>1, <2>3, <2>4, SettleInv DEF less
<1>2. CASE ~HoldsToken(t)
  BY <1>0, <1>2, NotHolder, RemoveInv DEF IInv, TypeOK, Abandon
<1> QED BY <1>1, <1>2

\* A claim's token is new: the rows it leases are held by its own tasks only.
LEMMA ClaimInv ==
    ASSUME IInv, NEW n \in Nodes, NEW S \in SUBSET Items, NEW lag \in Lags, Claim(n, S, lag)
    PROVE  IInv'
<1> DEFINE taken == {i \in S : rows[i].attempts < MaxAttempts}
           spent == S \ taken
           new(i) == [id |-> i, node |-> n, token |-> claims + 1, attempt |-> rows[i].attempts + 1,
                      epoch |-> epoch[i], phase |-> "claimed",
                      left |-> OperationTimeout - lag, ok |-> FALSE]
<1>0. /\ claims < MaxClaims /\ claims' = claims + 1 /\ claims \in Nat /\ claims + 1 \in Tokens
      /\ drawnBy' = [drawnBy EXCEPT ![claims + 1] = n]
      /\ life' = [life EXCEPT ![n] = IF @ = "stopping" THEN "closing" ELSE @]
      /\ life[n] \in {"up", "stopping"}
      /\ \A i \in S : Claimable(i, lag)
      /\ UNCHANGED <<reports, epoch, calls, lost>>
      /\ tasks' = tasks \cup {new(i) : i \in taken}
  BY BoundsAssumption DEF Claim, IInv, TypeOK
<1>1. /\ rows' \in [Items -> Row]
      /\ \A i \in Items \ S : rows'[i] = rows[i]
      /\ \A i \in spent : /\ rows'[i].status = "failed" /\ rows'[i].token = 0
                          /\ rows'[i].attempts = rows[i].attempts
      /\ \A i \in taken : /\ rows'[i].status = "running" /\ rows'[i].token = claims + 1
                          /\ rows'[i].attempts = rows[i].attempts + 1
                          /\ rows'[i].next = LeaseDuration - lag
                          /\ rows[i].attempts < MaxAttempts
  <2>1. rows' = [i \in Items |-> IF i \in taken THEN Leased(i, lag)
                                 ELSE IF i \in S THEN GivenUp(i) ELSE rows[i]]
    BY DEF Claim
  <2>2. \A i \in taken : rows[i].attempts < MaxAttempts
    OBVIOUS
  <2>3. \A i \in Items : rows[i] \in Row
    BY DEF IInv, TypeOK
  <2>4. spent \subseteq Items /\ taken \subseteq Items /\ S = spent \cup taken /\ spent \cap taken = {}
    OBVIOUS
  <2> HIDE DEF spent, taken
  <2>5. \A i \in Items : rows'[i] \in Row
    BY <2>1, <2>3, ClaimedRow
  <2>6. /\ \A i \in Items \ S : rows'[i] = rows[i]
        /\ \A i \in spent : rows'[i] = GivenUp(i)
        /\ \A i \in taken : rows'[i] = Leased(i, lag)
    BY <2>1, <2>4
  <2> QED BY <2>1, <2>2, <2>4, <2>5, <2>6, ClaimedRow
<1>2. \A i \in taken : /\ new(i) \in Task /\ new(i).id = i /\ new(i).token = claims + 1
                       /\ new(i).node = n
                       /\ new(i).attempt = rows[i].attempts + 1 /\ new(i).epoch = epoch[i]
                       /\ new(i).phase = "claimed" /\ new(i).left = OperationTimeout - lag
  <2> SUFFICES ASSUME NEW i \in taken
               PROVE  /\ new(i) \in Task /\ new(i).id = i /\ new(i).token = claims + 1
                      /\ new(i).node = n
                      /\ new(i).attempt = rows[i].attempts + 1 /\ new(i).epoch = epoch[i]
                      /\ new(i).phase = "claimed" /\ new(i).left = OperationTimeout - lag
    OBVIOUS
  <2>1. i \in Items /\ rows[i] \in Row /\ epoch[i] \in Nat
    BY DEF IInv, TypeOK
  <2>2. rows[i].attempts + 1 \in Nat
    BY <2>1 DEF Row
  <2>3. OperationTimeout - lag \in Nat
    BY DurationsAssumption DEF Lags
  <2> HIDE DEF taken
  <2> QED BY <1>0, <2>1, <2>2, <2>3 DEF Task
<1>3. /\ spent \subseteq Items /\ taken \subseteq Items /\ spent \cap taken = {} /\ S = spent \cup taken
      /\ \A t \in tasks : t \in Task /\ t.id \in Items /\ t.token \in Nat /\ t.token # 0 /\ t.token # claims + 1
  BY <1>0 DEF IInv, TypeOK, Task, TokensDrawn
<1>4. \A i \in S : \/ rows[i].status = "pending"
                   \/ rows[i].status = "running" /\ rows[i].next <= 0
  BY <1>0 DEF Claimable, IInv, TypeOK, Row, Lags
<1> HIDE DEF spent, taken, new
<1>5. /\ drawnBy' \in [Tokens -> Nodes \cup {NoNode}] /\ drawnBy'[claims + 1] = n
      /\ \A k \in Tokens : k # claims + 1 => drawnBy'[k] = drawnBy[k]
      /\ life' \in [Nodes -> {"up", "stopping", "closing", "closed", "gone"}]
      /\ life'[n] \in {"up", "closing"}
      /\ \A m \in Nodes : m # n => life'[m] = life[m]
  BY <1>0 DEF IInv, TypeOK
<1>a. \A i \in Items : /\ rows[i].attempts \in Nat /\ rows'[i].attempts \in Nat
                        /\ rows[i].token \in Nat /\ rows[i].token <= claims
  BY <1>1 DEF IInv, TypeOK, Row, TokensDrawn
<1>b. \A i \in Items : i \in taken \/ i \in spent \/ rows'[i] = rows[i]
  BY <1>1, <1>3
<1>6. TypeOK'
  BY <1>0, <1>1, <1>2, <1>3, <1>5, BoundsAssumption DEF IInv, TypeOK
<1>7. TokensDrawn'
  <2>1. \A k \in Tokens : k <= claims' => drawnBy'[k] \in Nodes
    BY <1>0, <1>5 DEF IInv, TokensDrawn
  <2>2. \A t \in tasks' : t.token <= claims' /\ drawnBy'[t.token] = t.node
    BY <1>0, <1>2, <1>3, <1>5 DEF IInv, TokensDrawn, Task
  <2>3. \A i \in Items : rows'[i].token <= claims'
    BY <1>0, <1>1, <1>a, <1>b
  <2>4. \A r \in reports' : r[2] <= claims'
    BY <1>0 DEF IInv, TypeOK, TokensDrawn
  <2>5. \A t, u \in tasks' : t.id = u.id /\ t.token = u.token => t = u
    BY <1>0, <1>2, <1>3 DEF IInv, TokensDrawn
  <2> QED BY <2>1, <2>2, <2>3, <2>4, <2>5 DEF TokensDrawn
<1>8. RowsConsistent'
  <2>1. \A i \in Items : rows'[i].status = "running" <=> rows'[i].token # 0
    BY <1>0, <1>1, <1>3 DEF IInv, RowsConsistent
  <2>2. \A i \in Items : /\ rows'[i].attempts <= MaxAttempts
                         /\ rows'[i].status = "absent" => rows'[i].attempts = 0
    BY <1>1, <1>a, <1>b, AttemptsAssumption DEF IInv, RowsConsistent
  <2>3. \A t \in tasks' : rows'[t.id].token = t.token =>
          t.attempt = rows'[t.id].attempts /\ t.epoch = epoch'[t.id]
    BY <1>0, <1>1, <1>2, <1>3 DEF IInv, RowsConsistent
  <2> QED BY <2>1, <2>2, <2>3 DEF RowsConsistent
<1>9. ReturnedReported'
  BY <1>0, <1>2 DEF IInv, ReturnedReported
<1>10. LeaseCovers'
  <2> SUFFICES ASSUME WideLease, NEW t \in tasks'
               PROVE  /\ t.phase = "claimed" =>
                           /\ rows'[t.id].token = t.token
                           /\ rows'[t.id].next >= t.left + HandlerTimeout
                      /\ t.phase = "running" /\ t.left > 0 =>
                           /\ rows'[t.id].token = t.token
                           /\ rows'[t.id].next >= t.left
    BY DEF LeaseCovers, WideLease
  <2>1. CASE t \in tasks
    <3>1. /\ t.phase = "claimed" => /\ rows[t.id].token = t.token
                                    /\ rows[t.id].next >= t.left + HandlerTimeout
          /\ t.phase = "running" /\ t.left > 0 => /\ rows[t.id].token = t.token
                                                  /\ rows[t.id].next >= t.left
      BY <2>1 DEF IInv, LeaseCovers
    <3>2. /\ rows[t.id] \in Row /\ t \in Task
          /\ rows[t.id].status = "running" <=> rows[t.id].token # 0
      BY <1>3, <2>1 DEF IInv, TypeOK, RowsConsistent
    <3>3. t.phase = "claimed" \/ (t.phase = "running" /\ t.left > 0) => t.id \notin S
      BY <1>3, <1>4, <2>1, <3>1, <3>2, DurationsAssumption DEF Row, Task
    <3> QED BY <1>1, <1>3, <2>1, <3>1, <3>3
  <2>2. CASE t \notin tasks
    <3>1. PICK i \in taken : t = new(i)
      BY <1>0, <2>2
    <3>2. LeaseDuration - lag >= (OperationTimeout - lag) + HandlerTimeout
      BY DurationsAssumption DEF Lags, WideLease
    <3> QED BY <1>1, <1>2, <3>1, <3>2
  <2> QED BY <2>1, <2>2
<1>11. AttemptsNumbered'
  <2>1. \A i \in Items : rows'[i].attempts \in Nat /\ rows[i].attempts \in Nat
                         /\ rows[i].attempts <= rows'[i].attempts
    BY <1>1, <1>a, <1>b
  <2>2. \A i \in Items : \A p \in calls'[i] : p[1] \in 1..rows'[i].attempts
    BY <1>0, <2>1 DEF IInv, TypeOK, AttemptsNumbered
  <2>3. \A i \in Items : \A p, q \in calls'[i] : p[1] = q[1] => p = q
    BY <1>0 DEF IInv, AttemptsNumbered
  <2>4. \A t \in tasks' : /\ t.epoch <= epoch'[t.id]
                          /\ t.epoch = epoch'[t.id] => t.attempt \in 1..rows'[t.id].attempts
    <3>1. \A t \in tasks : t.epoch <= epoch[t.id]
                           /\ (t.epoch = epoch[t.id] => t.attempt \in 1..rows[t.id].attempts)
      BY DEF IInv, AttemptsNumbered
    <3>2. \A i \in taken : epoch[i] \in Nat /\ rows[i].attempts + 1 \in 1..rows'[i].attempts
      BY <1>1, <1>3, <2>1 DEF IInv, TypeOK
    <3> QED BY <1>0, <1>2, <1>3, <2>1, <3>1, <3>2
  <2>5. \A t \in tasks, i \in taken : t.id = i /\ t.epoch = epoch[i] => t.attempt < new(i).attempt
    BY <1>2, <1>3, <2>1 DEF IInv, AttemptsNumbered, Task
  <2>6. \A t, u \in tasks' : t.id = u.id /\ t.epoch = epoch'[t.id] /\ u.epoch = epoch'[t.id]
                             /\ t.attempt = u.attempt => t = u
    <3>1. \A t, u \in tasks : t.id = u.id /\ t.epoch = epoch[t.id] /\ u.epoch = epoch[t.id]
                              /\ t.attempt = u.attempt => t = u
      BY DEF IInv, AttemptsNumbered
    <3>2. \A t \in tasks : t.attempt \in Nat
      BY <1>3 DEF Task
    <3> QED BY <1>0, <1>2, <1>3, <2>1, <2>5, <3>1, <3>2
  <2>7. \A t \in tasks' : t.epoch = epoch'[t.id] =>
          \A p \in calls'[t.id] : p[1] = t.attempt => t.phase # "claimed" /\ p[2] = t.token
    <3>1. \A i \in taken : \A p \in calls[i] : p[1] # rows[i].attempts + 1
      BY <1>3, <2>1 DEF IInv, AttemptsNumbered
    <3>2. \A t \in tasks : t.epoch = epoch[t.id] =>
            \A p \in calls[t.id] : p[1] = t.attempt => t.phase # "claimed" /\ p[2] = t.token
      BY DEF IInv, AttemptsNumbered
    <3> QED BY <1>0, <1>2, <3>1, <3>2
  <2> QED BY <2>2, <2>3, <2>4, <2>6, <2>7 DEF AttemptsNumbered
<1>12. LeasesAccounted'
  <2>1. \A t \in tasks' : life'[t.node] \in {"up", "stopping", "closing"}
    BY <1>0, <1>2, <1>3, <1>5 DEF IInv, LeasesAccounted, Task
  <2> SUFFICES ASSUME NEW i \in Items, rows'[i].status = "running", life'[drawnBy'[rows'[i].token]] # "gone"
               PROVE  \/ \E t \in tasks' : t.id = i /\ t.token = rows'[i].token
                      \/ <<i, rows'[i].token>> \in lost'
    BY <2>1 DEF LeasesAccounted
  <2>2. CASE i \in taken
    <3>1. new(i) \in tasks' /\ new(i).id = i /\ new(i).token = rows'[i].token
      BY <1>0, <1>1, <1>2, <2>2
    <3> QED BY <3>1
  <2>3. CASE i \in spent
    BY <1>1, <2>3
  <2>4. CASE i \notin S
    <3>1. rows'[i] = rows[i] /\ rows[i].token \in Tokens /\ rows[i].token <= claims
      BY <1>0, <1>1, <2>4, BoundsAssumption DEF IInv, TypeOK, Row, TokensDrawn, RowsConsistent
    <3>2. drawnBy'[rows[i].token] = drawnBy[rows[i].token] /\ drawnBy[rows[i].token] \in Nodes
      BY <1>0, <1>5, <3>1 DEF IInv, TokensDrawn
    <3>3. life[drawnBy[rows[i].token]] # "gone"
      BY <1>0, <1>5, <3>1, <3>2
    <3> QED BY <1>0, <3>1, <3>3 DEF IInv, LeasesAccounted
  <2> QED BY <1>3, <2>2, <2>3, <2>4
<1> QED BY <1>6, <1>7, <1>8, <1>9, <1>10, <1>11, <1>12 DEF IInv

\* The token of a running row was drawn by a node.
LEMMA LeaseHasNode ==
    ASSUME IInv, NEW i \in Items, rows[i].status = "running"
    PROVE  rows[i].token \in Tokens /\ drawnBy[rows[i].token] \in Nodes
<1>1. rows[i].token \in Nat /\ rows[i].token # 0 /\ rows[i].token <= claims /\ claims \in 0..MaxClaims
  BY DEF IInv, TypeOK, Row, TokensDrawn, RowsConsistent
<1>2. rows[i].token \in Tokens
  BY <1>1, BoundsAssumption
<1> QED BY <1>1, <1>2 DEF IInv, TokensDrawn

\* Close cancels the callbacks of its node.
LEMMA CloseInv == ASSUME IInv, NEW n \in Nodes, Close(n) PROVE IInv'
<1> DEFINE after(t) == IF t.node = n /\ t.phase = "running" /\ t.left > 0
                       THEN [t EXCEPT !.phase = "cancelled"] ELSE t
<1>1. /\ life[n] = "up" /\ life' = [life EXCEPT ![n] = "stopping"]
      /\ tasks' = {after(t) : t \in tasks}
      /\ UNCHANGED <<rows, claims, drawnBy, reports, epoch, calls, lost>>
  BY DEF Close
<1>2. \A t \in tasks : /\ t \in Task /\ after(t) \in Task /\ after(t).id = t.id /\ after(t).node = t.node
                       /\ after(t).token = t.token /\ after(t).attempt = t.attempt
                       /\ after(t).epoch = t.epoch /\ after(t).left = t.left /\ after(t).ok = t.ok
                       /\ \/ after(t).phase = t.phase
                          \/ after(t).phase = "cancelled" /\ t.phase = "running"
  <2> SUFFICES ASSUME NEW t \in tasks
               PROVE  /\ t \in Task /\ after(t) \in Task /\ after(t).id = t.id /\ after(t).node = t.node
                      /\ after(t).token = t.token /\ after(t).attempt = t.attempt
                      /\ after(t).epoch = t.epoch /\ after(t).left = t.left /\ after(t).ok = t.ok
                      /\ \/ after(t).phase = t.phase
                         \/ after(t).phase = "cancelled" /\ t.phase = "running"
    OBVIOUS
  <2>1. t \in Task
    BY DEF IInv, TypeOK
  <2>2. CASE t.node = n /\ t.phase = "running" /\ t.left > 0
    <3>1. after(t) = [t EXCEPT !.phase = "cancelled"]
      BY <2>2
    <3> HIDE DEF after
    <3> QED BY <2>1, <2>2, <3>1 DEF Task
  <2>3. CASE ~(t.node = n /\ t.phase = "running" /\ t.left > 0)
    BY <2>1, <2>3
  <2> QED BY <2>2, <2>3
<1> HIDE DEF after
<1>3. /\ life' \in [Nodes -> {"up", "stopping", "closing", "closed", "gone"}] /\ life'[n] = "stopping"
      /\ \A m \in Nodes : m # n => life'[m] = life[m]
  BY <1>1 DEF IInv, TypeOK
<1>4. TypeOK'
  BY <1>1, <1>2, <1>3 DEF IInv, TypeOK
<1>5. TokensDrawn' /\ RowsConsistent'
  <2>1. TokensDrawn'
    BY <1>1, <1>2 DEF IInv, TokensDrawn
  <2>2. RowsConsistent'
    BY <1>1, <1>2 DEF IInv, RowsConsistent
  <2> QED BY <2>1, <2>2
<1>6. ReturnedReported'
  <2> SUFFICES ASSUME NEW t \in tasks, after(t).phase = "returned"
               PROVE  <<after(t).id, after(t).token, after(t).ok>> \in reports
    BY <1>1 DEF ReturnedReported
  <2>1. <<t.id, t.token, t.ok>> \in reports
    BY <1>2 DEF IInv, ReturnedReported
  <2> QED BY <1>2, <2>1, Zenon
<1>7. LeaseCovers'
  BY <1>1, <1>2 DEF IInv, LeaseCovers
<1>8. AttemptsNumbered'
  BY <1>1, <1>2 DEF IInv, AttemptsNumbered
<1>9. LeasesAccounted'
  <2>1. \A t \in tasks' : life'[t.node] \in {"up", "stopping", "closing"}
    BY <1>1, <1>2, <1>3 DEF IInv, LeasesAccounted, Task
  <2>2. \A i \in Items : rows[i].status = "running" /\ life'[drawnBy[rows[i].token]] # "gone" =>
          life[drawnBy[rows[i].token]] # "gone"
    BY <1>1, <1>3, LeaseHasNode
  <2>3. \A t \in tasks : \E u \in tasks' : u.id = t.id /\ u.token = t.token
    BY <1>1, <1>2
  <2> QED BY <1>1, <2>1, <2>2, <2>3 DEF IInv, LeasesAccounted
<1> QED BY <1>4, <1>5, <1>6, <1>7, <1>8, <1>9 DEF IInv

\* A node that stops, or dies with its tasks, leaves the rest alone.
LEMMA LifeInv ==
    ASSUME IInv, NEW n \in Nodes, ScanStops(n) \/ CloseEnds(n) \/ Crash(n)
    PROVE  IInv'
<1>1. PICK s \in {"closing", "closed", "gone"} :
        /\ life' = [life EXCEPT ![n] = s]
        /\ s # "gone" => tasks' = tasks /\ life[n] # "gone"
        /\ s = "closed" => Drained(n)
        /\ s = "gone" => tasks' = {t \in tasks : t.node # n}
        /\ UNCHANGED <<rows, claims, drawnBy, reports, epoch, calls, lost>>
  BY DEF ScanStops, CloseEnds, Crash
<1>2. /\ life' \in [Nodes -> {"up", "stopping", "closing", "closed", "gone"}] /\ life'[n] = s
      /\ \A m \in Nodes : m # n => life'[m] = life[m]
      /\ tasks' \subseteq tasks
      /\ \A t \in tasks : t \in tasks' \/ (t.node = n /\ s = "gone")
  BY <1>1 DEF IInv, TypeOK
<1>3. TypeOK' /\ TokensDrawn' /\ RowsConsistent'
  BY <1>1, <1>2 DEF IInv, TypeOK, TokensDrawn, RowsConsistent
<1>4. ReturnedReported' /\ LeaseCovers'
  BY <1>1, <1>2 DEF IInv, ReturnedReported, LeaseCovers
<1>5. AttemptsNumbered'
  BY <1>1, <1>2 DEF IInv, AttemptsNumbered
<1>6. LeasesAccounted'
  <2>1. \A t \in tasks' : life'[t.node] \in {"up", "stopping", "closing"}
    BY <1>1, <1>2 DEF IInv, TypeOK, Task, LeasesAccounted, Drained
  <2>2. ASSUME NEW i \in Items, rows[i].status = "running", life'[drawnBy[rows[i].token]] # "gone"
        PROVE  \/ \E t \in tasks' : t.id = i /\ t.token = rows[i].token
               \/ <<i, rows[i].token>> \in lost
    <3>1. drawnBy[rows[i].token] \in Nodes
      BY <2>2, LeaseHasNode
    <3>2. life[drawnBy[rows[i].token]] # "gone" /\ (s = "gone" => drawnBy[rows[i].token] # n)
      BY <1>1, <1>2, <2>2, <3>1
    <3>3. CASE \E t \in tasks : t.id = i /\ t.token = rows[i].token
      <4>1. PICK t \in tasks : t.id = i /\ t.token = rows[i].token
        BY <3>3
      <4>2. t.node = drawnBy[rows[i].token]
        BY <4>1 DEF IInv, TokensDrawn
      <4> QED BY <1>2, <3>2, <4>1, <4>2
    <3> QED BY <2>2, <3>2, <3>3 DEF IInv, LeasesAccounted
  <2> QED BY <1>1, <2>1, <2>2 DEF LeasesAccounted
<1> QED BY <1>3, <1>4, <1>5, <1>6 DEF IInv

\* One unit of time leaves a claimed task its whole callback: under
\* PromptStart it started before its OperationTimeout ran out.
LEMMA TickInv == ASSUME IInv, Tick PROVE IInv'
<1> DEFINE older(t) == [t EXCEPT !.left = IF @ > 0 THEN @ - 1 ELSE 0]
<1>0. /\ tasks' = {older(t) : t \in tasks}
      /\ \A t \in tasks : /\ older(t) \in Task /\ older(t).id = t.id /\ older(t).token = t.token
                          /\ older(t).attempt = t.attempt /\ older(t).epoch = t.epoch
                          /\ older(t).phase = t.phase /\ older(t).ok = t.ok
                          /\ older(t).node = t.node
                          /\ older(t).left = IF t.left > 0 THEN t.left - 1 ELSE 0
      /\ UNCHANGED <<life, claims, drawnBy, reports, epoch, calls, lost>>
  <2>1. /\ tasks' = {older(t) : t \in tasks}
        /\ UNCHANGED <<life, claims, drawnBy, reports, epoch, calls, lost>>
    BY DEF Tick
  <2>2. ASSUME NEW t \in tasks
        PROVE  /\ older(t) \in Task /\ older(t).id = t.id /\ older(t).token = t.token
               /\ older(t).attempt = t.attempt /\ older(t).epoch = t.epoch
               /\ older(t).phase = t.phase /\ older(t).ok = t.ok
               /\ older(t).node = t.node
               /\ older(t).left = IF t.left > 0 THEN t.left - 1 ELSE 0
    <3>1. t \in Task
      BY DEF IInv, TypeOK
    <3> QED BY <3>1 DEF Task
  <2> HIDE DEF older
  <2> QED BY <2>1, <2>2
<1>1. /\ rows' \in [Items -> Row]
      /\ \A i \in Items : /\ rows'[i].token = rows[i].token /\ rows'[i].attempts = rows[i].attempts
                          /\ rows'[i].status = rows[i].status
                          /\ rows[i].next > Past => rows'[i].next = rows[i].next - 1
  <2> SUFFICES ASSUME NEW i \in Items
               PROVE  /\ rows'[i] \in Row
                      /\ rows'[i].token = rows[i].token /\ rows'[i].attempts = rows[i].attempts
                      /\ rows'[i].status = rows[i].status
                      /\ rows[i].next > Past => rows'[i].next = rows[i].next - 1
    BY DEF Tick
  <2>1. rows[i] \in Row
    BY DEF IInv, TypeOK
  <2>2. rows'[i] = [rows[i] EXCEPT !.next = Elapse(@), !.kept = Elapse(@)]
    BY DEF Tick
  <2>3. /\ Elapse(rows[i].next) \in Int /\ Elapse(rows[i].kept) \in Int
        /\ rows[i].next > Past => Elapse(rows[i].next) = rows[i].next - 1
    BY <2>1, ElapseType DEF Row
  <2> QED BY <2>1, <2>2, <2>3 DEF Row
<1> HIDE DEF older
<1>2. TypeOK'
  BY <1>0, <1>1 DEF IInv, TypeOK
<1>a. \A u \in tasks' : \E t \in tasks : u = older(t)
  BY <1>0
<1>3. TokensDrawn'
  <2>1. \A u \in tasks' : u.token <= claims /\ drawnBy[u.token] = u.node
    BY <1>0, <1>a DEF IInv, TokensDrawn
  <2>2. \A u, v \in tasks' : u.id = v.id /\ u.token = v.token => u = v
    BY <1>0, <1>a DEF IInv, TokensDrawn
  <2>3. \A i \in Items : rows'[i].token <= claims
    BY <1>1 DEF IInv, TokensDrawn
  <2> QED BY <1>0, <2>1, <2>2, <2>3 DEF IInv, TokensDrawn
<1>4. RowsConsistent'
  <2>1. \A u \in tasks' : rows'[u.id].token = u.token =>
          u.attempt = rows'[u.id].attempts /\ u.epoch = epoch[u.id]
    <3>1. \A t \in tasks : t.id \in Items
      BY DEF IInv, TypeOK, Task
    <3> QED BY <1>0, <1>1, <1>a, <3>1 DEF IInv, RowsConsistent
  <2> QED BY <1>0, <1>1, <2>1 DEF IInv, RowsConsistent
<1>5. ReturnedReported'
  <2>1. ASSUME NEW t \in tasks, older(t).phase = "returned"
        PROVE  <<older(t).id, older(t).token, older(t).ok>> \in reports
    <3>1. <<t.id, t.token, t.ok>> \in reports
      BY <1>0, <2>1 DEF IInv, ReturnedReported
    <3>2. older(t).id = t.id /\ older(t).token = t.token /\ older(t).ok = t.ok
      BY <1>0
    <3> QED BY <3>1, <3>2, Zenon
  <2>2. \A u \in tasks' : u.phase = "returned" => <<u.id, u.token, u.ok>> \in reports
    BY <1>a, <2>1
  <2> QED BY <1>0, <2>2 DEF ReturnedReported
<1>6. LeaseCovers'
  <2> SUFFICES ASSUME WideLease, NEW t \in tasks
               PROVE  /\ t.phase = "claimed" =>
                           /\ rows'[t.id].token = t.token
                           /\ rows'[t.id].next >= older(t).left + HandlerTimeout
                      /\ t.phase = "running" /\ older(t).left > 0 =>
                           /\ rows'[t.id].token = t.token
                           /\ rows'[t.id].next >= older(t).left
    BY <1>0 DEF LeaseCovers, WideLease
  <2>1. t \in Task /\ rows[t.id] \in Row
    BY DEF IInv, TypeOK, Task
  <2>2. t.phase = "claimed" => t.left > 0
    BY DEF Tick, WideLease
  <2>3. /\ t.phase = "claimed" => /\ rows[t.id].token = t.token
                                  /\ rows[t.id].next >= t.left + HandlerTimeout
        /\ t.phase = "running" /\ t.left > 0 => /\ rows[t.id].token = t.token
                                                /\ rows[t.id].next >= t.left
    BY DEF IInv, LeaseCovers
  <2> QED BY <1>0, <1>1, <2>1, <2>2, <2>3, PastType, DurationsAssumption DEF Task, Row
<1>7. AttemptsNumbered'
  BY <1>0, <1>1 DEF IInv, TypeOK, AttemptsNumbered, Task
<1>8. LeasesAccounted'
  <2>1. \A t \in tasks' : life'[t.node] \in {"up", "stopping", "closing"}
    BY <1>0 DEF IInv, LeasesAccounted
  <2>2. \A t \in tasks : \E u \in tasks' : u.id = t.id /\ u.token = t.token
    BY <1>0
  <2> QED BY <1>0, <1>1, <2>1, <2>2 DEF IInv, LeasesAccounted
<1> QED BY <1>2, <1>3, <1>4, <1>5, <1>6, <1>7, <1>8 DEF IInv

-------------------------------------------------------------------------------
\* Every step of the compensator preserves the invariant.
LEMMA NextInv == IInv /\ [Next]_vars => IInv'
<1> SUFFICES ASSUME IInv, [Next]_vars PROVE IInv'
  OBVIOUS
<1>1. ASSUME NEW S \in SUBSET Items, Insert(S) \/ Cleanup("succeeded", S) \/ Cleanup("failed", S)
      PROVE IInv'
  BY <1>1, InsertInv, CleanupInv
<1>2. ASSUME NEW i \in Items, Retry(i) PROVE IInv'
  BY <1>2, RetryInv
<1>3. ASSUME NEW n \in Nodes, NEW S \in SUBSET Items, NEW lag \in Lags, Claim(n, S, lag)
      PROVE IInv'
  BY <1>3, ClaimInv
<1>4. ASSUME NEW t \in tasks, Start(t) \/ Interrupt(t) \/ Finish(t) \/ Abandon(t) \/ Lose(t)
      PROVE IInv'
  BY <1>4, StartInv, InterruptInv, FinishInv, AbandonInv, LoseInv
<1>5. ASSUME NEW t \in tasks, NEW ok \in BOOLEAN, Return(t, ok) PROVE IInv'
  BY <1>5, ReturnInv
<1>6. ASSUME NEW n \in Nodes, Close(n) \/ ScanStops(n) \/ CloseEnds(n) \/ Crash(n) PROVE IInv'
  BY <1>6, CloseInv, LifeInv
<1>7. CASE Tick
  BY <1>7, TickInv
<1>8. CASE UNCHANGED vars
  BY <1>8 DEF vars, IInv, TypeOK, TokensDrawn, RowsConsistent, ReturnedReported, LeaseCovers,
              AttemptsNumbered, LeasesAccounted
<1> QED BY <1>1, <1>2, <1>3, <1>4, <1>5, <1>6, <1>7, <1>8 DEF Next

\* The invariant holds in every reachable state.
LEMMA Invariance == Spec => []IInv
BY InitInv, NextInv, PTL DEF Spec

\* Type correctness of the task table and its executions.
THEOREM TypeCorrect == Spec => []TypeOK
<1>1. IInv => TypeOK
  BY DEF IInv
<1> QED BY <1>1, Invariance, PTL

(***************************************************************************)
(* A callback whose context is live still holds its task's lease, for at   *)
(* least as long, for every configuration whose lease exceeds the          *)
(* handler's time by the time a claim may take.                            *)
(***************************************************************************)
THEOREM ExclusiveExecution == Spec => []LiveHandlerHoldsLease
<1>1. IInv => LiveHandlerHoldsLease
  BY DEF IInv, TypeOK, LeaseCovers, WideLease, RowsConsistent, LiveHandlerHoldsLease, HoldsToken,
         Task, Row
<1> QED BY <1>1, Invariance, PTL

\* Once Close has returned on a node it holds no lease, except of tasks whose
\* finish or abandon statement, or whose claim's answer, got lost.
THEOREM ClosedHoldsNothing == Spec => []CloseHandsBack
<1>1. IInv => CloseHandsBack
  <2> SUFFICES ASSUME IInv, NEW i \in Items, rows[i].status = "running",
                      life[drawnBy[rows[i].token]] = "closed"
               PROVE  <<i, rows[i].token>> \in lost
    BY DEF CloseHandsBack
  <2>1. \A t \in tasks : ~(t.id = i /\ t.token = rows[i].token)
    BY DEF IInv, TokensDrawn, LeasesAccounted
  <2> QED BY <2>1 DEF IInv, LeasesAccounted
<1> QED BY <1>1, Invariance, PTL

(***************************************************************************)
(* At most MaxAttempts callbacks per budget that Close did not hand back:  *)
(* an attempt number that abandon refunds is given out again, but the call *)
(* it numbered is struck off.                                              *)
(***************************************************************************)
THEOREM BudgetKept == Spec => []DeliveryBudget
<1>1. IInv => DeliveryBudget
  <2> SUFFICES ASSUME IInv, NEW i \in Items PROVE Cardinality(calls[i]) <= MaxAttempts
    BY DEF DeliveryBudget
  <2> DEFINE f == [p \in calls[i] |-> p[1]]
  <2>1. IsFiniteSet(1..MaxAttempts) /\ Cardinality(1..MaxAttempts) = MaxAttempts
    BY FS_Interval, AttemptsAssumption
  <2>2. f \in Injection(calls[i], 1..MaxAttempts)
    <3>1. \A p \in calls[i] : p[1] \in 1..MaxAttempts
      BY AttemptsAssumption DEF IInv, TypeOK, Row, AttemptsNumbered, RowsConsistent
    <3>2. \A p, q \in calls[i] : p[1] = q[1] => p = q
      BY DEF IInv, AttemptsNumbered
    <3> QED BY <3>1, <3>2 DEF Injection, IsInjective
  <2> QED BY <2>1, <2>2, FS_Injection, AttemptsAssumption
<1> QED BY <1>1, Invariance, PTL

-------------------------------------------------------------------------------
(* The refinement: which step of the ledger each step of the table is. *)

\* The initial table is the empty ledger.
LEMMA LedgerInit == Init => Ledger!Init
BY DEF Init, Ledger!Init, Ledger!NoHolder, Absent, LedgerState

\* A step that keeps what the ledger sees of every row is no ledger step.
LEMMA LedgerStutter ==
    ASSUME \A i \in Items : /\ rows'[i].status = rows[i].status
                            /\ rows'[i].attempts = rows[i].attempts
                            /\ rows'[i].token = rows[i].token,
           UNCHANGED reports
    PROVE  UNCHANGED Ledger!vars
BY DEF Ledger!vars, LedgerState

\* insert submits the tasks of its transaction.
LEMMA LedgerSubmit == ASSUME IInv, NEW S \in SUBSET Items, Insert(S) PROVE Ledger!Submit(S)
<1>1. /\ rows' = [i \in Items |-> IF i \in S THEN Fresh ELSE rows[i]]
      /\ \A i \in S : rows[i].status = "absent" /\ rows[i].attempts = 0 /\ rows[i].token = 0
      /\ UNCHANGED reports
  BY DEF IInv, TypeOK, Row, RowsConsistent, Insert
<1>2. \A i \in Items : /\ rows'[i].attempts = rows[i].attempts /\ rows'[i].token = rows[i].token
                       /\ i \in S => rows'[i].status = "pending"
                       /\ i \notin S => rows'[i].status = rows[i].status
  BY <1>1, FreshType
<1> QED BY <1>1, <1>2 DEF Ledger!Submit, LedgerState

\* Retry requeues its task.
LEMMA LedgerRequeue == ASSUME IInv, NEW i \in Items, Retry(i) PROVE Ledger!Requeue(i)
<1>1. rows \in [Items -> Row] /\ rows' = [rows EXCEPT ![i] = Fresh] /\ rows[i].status = "failed"
  BY DEF IInv, TypeOK, Retry
<1>2. rows[i].token = 0
  BY <1>1 DEF IInv, TypeOK, RowsConsistent, Row
<1> QED BY <1>1, <1>2, FreshType DEF Ledger!Requeue, LedgerState, Retry

\* cleanupStatus forgets tasks, failed ones only if a retention is configured.
LEMMA LedgerForget ==
    ASSUME IInv, NEW status \in {"succeeded", "failed"}, NEW S \in SUBSET Items, Cleanup(status, S)
    PROVE  Ledger!Forget(S)
<1>1. /\ rows \in [Items -> Row] /\ \A i \in S : rows[i].status = status
      /\ UNCHANGED reports /\ (status = "failed" => FailedRetention > 0)
      /\ \A i \in Items : /\ rows'[i].token = rows[i].token /\ rows'[i].attempts = rows[i].attempts
                          /\ i \in S => rows'[i].status = "deleted"
                          /\ i \notin S => rows'[i].status = rows[i].status
  BY DEF IInv, TypeOK, Cleanup, Row
<1>2. LedgerState(status) \in IF FailedRetention > 0 THEN {"done", "dead"} ELSE {"done"}
  BY <1>1 DEF LedgerState
<1> QED BY <1>1, <1>2 DEF Ledger!Forget, LedgerState

\* A claim grants its rows under the token it drew.
LEMMA LedgerGrant ==
    ASSUME IInv, NEW n \in Nodes, NEW S \in SUBSET Items, NEW lag \in Lags, Claim(n, S, lag)
    PROVE  \E h \in Tokens : Ledger!Grant(S, h)
<1> DEFINE taken == {i \in S : rows[i].attempts < MaxAttempts}
           spent == S \ taken
<1>0. PICK h \in Tokens : h = claims + 1
  BY BoundsAssumption DEF IInv, TypeOK, Claim
<1>1. /\ \A i \in Items : rows[i].token # h
      /\ \A i \in Items, ok \in BOOLEAN : <<i, h, ok>> \notin reports
      /\ UNCHANGED reports
  BY <1>0 DEF IInv, TypeOK, TokensDrawn, Claim, Row
<1>2. /\ \A i \in Items \ S : rows'[i] = rows[i]
      /\ \A i \in spent : rows'[i] = GivenUp(i)
      /\ \A i \in taken : rows'[i] = Leased(i, lag)
  BY DEF Claim
<1>3. /\ \A i \in spent : /\ rows'[i].status = "failed" /\ rows'[i].token = 0
                          /\ rows'[i].attempts = rows[i].attempts
      /\ \A i \in taken : /\ rows'[i].status = "running" /\ rows'[i].token = h
                          /\ rows'[i].attempts = rows[i].attempts + 1
  BY <1>0, <1>2, ClaimedRow
<1>4. \A i \in S : rows[i].status \in {"pending", "running"}
  BY DEF Claim, Claimable
<1>5. \A i \in S : rows[i].attempts \in Nat
  BY DEF IInv, TypeOK, Row
<1>6. Ledger!Grant(S, h)
  <2> DEFINE sp == {i \in S : [j \in Items |-> rows[j].attempts][i] >= MaxAttempts}
  <2>1. sp = spent /\ S \ sp = taken
    BY <1>5, AttemptsAssumption
  <2> HIDE DEF taken, spent
  <2>2. \A i \in S : [j \in Items |-> LedgerState(rows[j].status)][i] \in {"waiting", "held"}
    BY <1>4 DEF LedgerState
  <2>3. [j \in Items |-> LedgerState(rows'[j].status)] =
          [i \in Items |-> CASE i \in sp -> "dead" [] i \in S \ sp -> "held"
                            [] OTHER -> [j \in Items |-> LedgerState(rows[j].status)][i]]
    <3> SUFFICES ASSUME NEW i \in Items
                 PROVE  LedgerState(rows'[i].status) =
                          CASE i \in sp -> "dead" [] i \in S \ sp -> "held"
                            [] OTHER -> LedgerState(rows[i].status)
      OBVIOUS
    <3> HIDE DEF sp
    <3>1. i \in sp => LedgerState(rows'[i].status) = "dead"
      BY <1>3, <2>1 DEF LedgerState
    <3>2. i \in S \ sp => LedgerState(rows'[i].status) = "held"
      BY <1>3, <2>1 DEF LedgerState
    <3>3. i \notin S => rows'[i] = rows[i]
      BY <1>2
    <3>4. sp \subseteq S
      BY DEF sp
    <3> QED BY <3>1, <3>2, <3>3, <3>4
  <2>4. [j \in Items |-> rows'[j].attempts] =
          [i \in Items |-> IF i \in S \ sp THEN [j \in Items |-> rows[j].attempts][i] + 1
                          ELSE [j \in Items |-> rows[j].attempts][i]]
    BY <1>2, <1>3, <2>1, ZenonT(30)
  <2>5. [j \in Items |-> rows'[j].token] =
          [i \in Items |-> CASE i \in sp -> 0 [] i \in S \ sp -> h
                            [] OTHER -> [j \in Items |-> rows[j].token][i]]
    BY <1>2, <1>3, <2>1
  <2> QED BY <1>1, <2>2, <2>3, <2>4, <2>5 DEF Ledger!Grant, Ledger!NoHolder
<1> QED BY <1>6

\* finish settles the row it holds, by the report of its own callback, or
\* finds its lease lost.
LEMMA LedgerSettle ==
    ASSUME IInv, NEW t \in tasks, Finish(t) PROVE Ledger!Settle(t.id) \/ UNCHANGED Ledger!vars
<1>0. /\ t \in Task /\ t.id \in Items /\ rows \in [Items -> Row] /\ rows[t.id] \in Row
      /\ t.phase = "returned" /\ UNCHANGED reports
  BY DEF IInv, TypeOK, Finish, Task
<1>1. CASE UNCHANGED rows
  BY <1>0, <1>1, LedgerStutter
<1>2. ASSUME HoldsToken(t), NEW delay \in Backoff(t.attempt),
             rows' = [rows EXCEPT ![t.id] = Outcome(t, delay)]
      PROVE  Ledger!Settle(t.id)
  <2> DEFINE q == Outcome(t, delay)
             attempts == [i \in Items |-> rows[i].attempts]
             state == [i \in Items |-> LedgerState(rows[i].status)]
             token == [i \in Items |-> rows[i].token]
  <2>1. /\ q.token = 0 /\ q.attempts = rows[t.id].attempts
        /\ q.status \in {"pending", "succeeded", "failed"}
        /\ q.status = "succeeded" <=> t.ok
        /\ q.status = "failed" <=> ~t.ok /\ t.attempt >= MaxAttempts
    BY <1>0, BackoffType, OutcomeRow
  <2>2. /\ rows[t.id].status = "running" /\ rows[t.id].token = t.token
        /\ t.attempt = rows[t.id].attempts
    BY <1>2 DEF HoldsToken, IInv, RowsConsistent
  <2>3. <<t.id, t.token, t.ok>> \in reports /\ t.ok \in BOOLEAN
    BY <1>0 DEF IInv, ReturnedReported, Task
  <2>4. rows'[t.id] = q /\ \A i \in Items : i # t.id => rows'[i] = rows[i]
    BY <1>0, <1>2
  <2> HIDE DEF q
  <2>5. LedgerState(q.status) = IF t.ok THEN "done" ELSE IF attempts[t.id] >= MaxAttempts THEN "dead"
                                ELSE "waiting"
    BY <1>0, <2>1, <2>2 DEF LedgerState
  <2>6. [i \in Items |-> LedgerState(rows'[i].status)] =
          [state EXCEPT ![t.id] = IF t.ok THEN "done" ELSE IF attempts[t.id] >= MaxAttempts
                                  THEN "dead" ELSE "waiting"]
    BY <1>0, <2>4, <2>5
  <2>7. [i \in Items |-> rows'[i].token] = [token EXCEPT ![t.id] = 0]
    BY <1>0, <2>1, <2>4
  <2>8. [i \in Items |-> rows'[i].attempts] = attempts
    BY <1>0, <2>1, <2>4
  <2>9. state[t.id] = "held" /\ <<t.id, token[t.id], t.ok>> \in reports
    BY <1>0, <2>2, <2>3 DEF LedgerState
  <2> QED BY <1>0, <2>3, <2>6, <2>7, <2>8, <2>9, Zenon DEF Ledger!Settle, Ledger!NoHolder
<1> QED BY <1>1, <1>2 DEF Finish

\* abandon gives the row it holds back, or finds its lease lost.
LEMMA LedgerGiveBack ==
    ASSUME IInv, NEW t \in tasks, Abandon(t) PROVE Ledger!GiveBack(t.id) \/ UNCHANGED Ledger!vars
<1>0. t.id \in Items /\ rows \in [Items -> Row] /\ rows[t.id] \in Row /\ UNCHANGED reports
  BY DEF IInv, TypeOK, Abandon, Task
<1>1. CASE UNCHANGED rows
  BY <1>0, <1>1, LedgerStutter
<1>2. ASSUME HoldsToken(t),
             rows' = [rows EXCEPT ![t.id].status = "pending", ![t.id].attempts = @ - 1,
                                  ![t.id].token = 0, ![t.id].next = 0]
      PROVE  Ledger!GiveBack(t.id)
  <2>1. /\ rows'[t.id].status = "pending" /\ rows'[t.id].attempts = rows[t.id].attempts - 1
        /\ rows'[t.id].token = 0
        /\ \A i \in Items : i # t.id => rows'[i] = rows[i]
    BY <1>0, <1>2 DEF Row
  <2>2. rows[t.id].status = "running"
    BY <1>2 DEF HoldsToken
  <2> QED BY <1>0, <2>1, <2>2 DEF Ledger!GiveBack, Ledger!NoHolder, LedgerState
<1> QED BY <1>1, <1>2 DEF Abandon

(***************************************************************************)
(* The task table implements the delivery ledger: within the budget,       *)
(* settled or handed back by the present holder only.                      *)
(***************************************************************************)
THEOREM Refinement == Spec => ImplementsLedger
<1>1. IInv /\ IInv' /\ [Next]_vars => [Ledger!Next]_(Ledger!vars)
  <2> SUFFICES ASSUME IInv, [Next]_vars PROVE Ledger!Next \/ UNCHANGED Ledger!vars
    OBVIOUS
  <2>0. rows \in [Items -> Row] /\ tasks \subseteq Task
    BY DEF IInv, TypeOK
  <2>1. ASSUME NEW S \in SUBSET Items, Insert(S) PROVE Ledger!Next
    BY <2>1, LedgerSubmit DEF Ledger!Next
  <2>2. ASSUME NEW S \in SUBSET Items, Cleanup("succeeded", S) \/ Cleanup("failed", S)
        PROVE Ledger!Next
    BY <2>2, LedgerForget DEF Ledger!Next
  <2>3. ASSUME NEW i \in Items, Retry(i) PROVE Ledger!Next
    BY <2>3, LedgerRequeue DEF Ledger!Next
  <2>4. ASSUME NEW n \in Nodes, NEW S \in SUBSET Items, NEW lag \in Lags, Claim(n, S, lag)
        PROVE Ledger!Next
    BY <2>4, LedgerGrant DEF Ledger!Next
  <2>5. ASSUME NEW t \in tasks, Finish(t) PROVE Ledger!Next \/ UNCHANGED Ledger!vars
    BY <2>0, <2>5, LedgerSettle DEF Ledger!Next, Task
  <2>6. ASSUME NEW t \in tasks, Abandon(t) PROVE Ledger!Next \/ UNCHANGED Ledger!vars
    BY <2>0, <2>6, LedgerGiveBack DEF Ledger!Next, Task
  <2>7. ASSUME NEW t \in tasks, Start(t) \/ Interrupt(t) \/ Lose(t) PROVE UNCHANGED Ledger!vars
    BY <2>7, LedgerStutter DEF Start, Interrupt, Lose
  <2>8. ASSUME NEW t \in tasks, NEW ok \in BOOLEAN, Return(t, ok) PROVE Ledger!Next
    <3>1. Ledger!Report(t.id, t.token, ok)
      BY <2>8 DEF Return, Ledger!Report
    <3> QED BY <2>0, <3>1 DEF Ledger!Next, Task
  <2>9. ASSUME NEW n \in Nodes, Close(n) \/ ScanStops(n) \/ CloseEnds(n) \/ Crash(n)
        PROVE UNCHANGED Ledger!vars
    BY <2>9, LedgerStutter DEF Close, ScanStops, CloseEnds, Crash
  <2>10. ASSUME Tick PROVE UNCHANGED Ledger!vars
    <3>1. /\ UNCHANGED reports
          /\ \A i \in Items : /\ rows'[i].status = rows[i].status
                              /\ rows'[i].attempts = rows[i].attempts
                              /\ rows'[i].token = rows[i].token
      BY <2>0, <2>10 DEF Tick, Row
    <3> QED BY <3>1, LedgerStutter
  <2>11. CASE UNCHANGED vars
    BY <2>11, LedgerStutter DEF vars
  <2> QED BY <2>1, <2>2, <2>3, <2>4, <2>5, <2>6, <2>7, <2>8, <2>9, <2>10, <2>11 DEF Next
<1> QED BY <1>1, LedgerInit, Invariance, PTL DEF Spec, ImplementsLedger, Ledger!Spec
===============================================================================
