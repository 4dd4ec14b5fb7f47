---------------------------- MODULE DeliveryLedger ----------------------------
(***************************************************************************)
(* What a durable delivery queue promises its users, with no leases, no    *)
(* clocks and no processes.  Work items are granted to executors a limited *)
(* number of times; an executor reports the outcome of its own grant; and  *)
(* the state of an item is only ever settled by the report of the executor *)
(* that currently holds it.                                                *)
(*                                                                         *)
(* The outbox (OutboxStore) and the compensator (CompensatorStore) both    *)
(* implement this specification.                                           *)
(***************************************************************************)
EXTENDS Integers

CONSTANTS Items,   \* the work items
          Budget,  \* grants an item may get before it is given up
          Grants,  \* the identities of grants
          Forgettable  \* the states in which an item may be forgotten

NoHolder == 0   \* never the identity of a grant

VARIABLES state,   \* state[i]: where the item is in its life
          grants,  \* grants[i]: grants charged against the budget
          holder,  \* holder[i]: the grant that holds the item, or NoHolder
          reports  \* the outcomes reported so far: <<item, grant, success>>

vars == <<state, grants, holder, reports>>

Init == /\ state = [i \in Items |-> "absent"]
        /\ grants = [i \in Items |-> 0]
        /\ holder = [i \in Items |-> NoHolder]
        /\ reports = {}

\* The item becomes durable together with the business change it belongs to.
Submit(S) == /\ \A i \in S : state[i] = "absent"
             /\ state' = [i \in Items |-> IF i \in S THEN "waiting" ELSE state[i]]
             /\ UNCHANGED <<grants, holder, reports>>

(***************************************************************************)
(* The items of S are granted together, as grant h, except those whose     *)
(* budget is spent: they are given up.  A held item may be granted again   *)
(* (its executor is presumed lost).                                        *)
(***************************************************************************)
Grant(S, h) ==
    LET spent == {i \in S : grants[i] >= Budget} IN
    /\ \A i \in S : state[i] \in {"waiting", "held"}
    /\ \A i \in Items : holder[i] # h
    /\ \A i \in Items, ok \in BOOLEAN : <<i, h, ok>> \notin reports
    /\ state' = [i \in Items |-> CASE i \in spent -> "dead"
                                   [] i \in S \ spent -> "held"
                                   [] OTHER -> state[i]]
    /\ grants' = [i \in Items |-> IF i \in S \ spent THEN grants[i] + 1 ELSE grants[i]]
    /\ holder' = [i \in Items |-> CASE i \in spent -> NoHolder
                                    [] i \in S \ spent -> h
                                    [] OTHER -> holder[i]]
    /\ UNCHANGED reports

\* An executor reports how its grant ended; the report alone settles nothing.
Report(i, h, ok) == /\ reports' = reports \cup {<<i, h, ok>>}
                    /\ UNCHANGED <<state, grants, holder>>

\* The report of the present holder settles the item.
Settle(i) ==
    /\ state[i] = "held"
    /\ \E ok \in BOOLEAN :
         /\ <<i, holder[i], ok>> \in reports
         /\ state' = [state EXCEPT ![i] = IF ok THEN "done"
                                          ELSE IF grants[i] >= Budget THEN "dead"
                                          ELSE "waiting"]
    /\ holder' = [holder EXCEPT ![i] = NoHolder]
    /\ UNCHANGED <<grants, reports>>

\* The present holder hands the item back unexecuted; the grant is refunded.
GiveBack(i) == /\ state[i] = "held"
               /\ state' = [state EXCEPT ![i] = "waiting"]
               /\ grants' = [grants EXCEPT ![i] = @ - 1]
               /\ holder' = [holder EXCEPT ![i] = NoHolder]
               /\ UNCHANGED reports

\* The operator puts a given-up item back with a new budget.
Requeue(i) == /\ state[i] = "dead"
              /\ state' = [state EXCEPT ![i] = "waiting"]
              /\ grants' = [grants EXCEPT ![i] = 0]
              /\ UNCHANGED <<holder, reports>>

\* Completed items are forgotten after a while.
Forget(S) == /\ \A i \in S : state[i] \in Forgettable
             /\ state' = [i \in Items |-> IF i \in S THEN "gone" ELSE state[i]]
             /\ UNCHANGED <<grants, holder, reports>>

Next == \/ \E S \in SUBSET Items : Submit(S) \/ Forget(S)
        \/ \E S \in SUBSET Items, h \in Grants : Grant(S, h)
        \/ \E i \in Items, h \in Grants, ok \in BOOLEAN : Report(i, h, ok)
        \/ \E i \in Items : Settle(i) \/ GiveBack(i) \/ Requeue(i)

Spec == Init /\ [][Next]_vars
===============================================================================
