------------------------------- MODULE MCRegistry -------------------------------
(* Registry on small instances: one cache against a changing etcd, eviction     *)
(* and Close against callers of Resolve, and Register against Close.            *)
EXTENDS Registry, TLC
CONSTANTS r1, r2
None == [resolvers |-> {}, changes |-> 0, faults |-> 1, evict |-> FALSE, register |-> FALSE,
         close |-> FALSE, lead |-> FALSE]
Caching == [None EXCEPT !.resolvers = {r1}, !.changes = 1, !.register = TRUE]
CachingBehind == [Caching EXCEPT !.lead = TRUE]
Evicting == [None EXCEPT !.resolvers = {r1, r2}, !.changes = 1, !.evict = TRUE, !.close = TRUE]
Registering == [None EXCEPT !.register = TRUE, !.close = TRUE, !.faults = 2]
MCScenarios == {Caching, CachingBehind, Evicting, Registering}
===============================================================================
