------------------------------- MODULE MCBalancer -------------------------------
(* Balancer on small instances: three callers on one instance that does not     *)
(* move, two callers on two instances, and one caller while the topology        *)
(* changes.  Callers are interchangeable.                                       *)
EXTENDS Balancer, TLC
CONSTANTS c1, c2, c3
Both == (1 :> "x") @@ (2 :> "x")
One == (1 :> "x") @@ (2 :> "none")
Moved == (1 :> "y") @@ (2 :> "x")
Contended == [callers |-> 3, snapshots |-> {One}, puts |-> {}, removes |-> {},
              changes |-> 1, time |-> 3]
Pair == [callers |-> 2, snapshots |-> {Both}, puts |-> {}, removes |-> {},
         changes |-> 1, time |-> 2]
Changing == [callers |-> 1, snapshots |-> {Both, Moved}, puts |-> {<<1, "y">>},
             removes |-> {1, 2}, changes |-> 4, time |-> 1]
MCSymmetry == Permutations(Callers)
MCScenarios == {Contended, Pair, Changing}
===============================================================================
