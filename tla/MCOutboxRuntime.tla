---------------------------- MODULE MCOutboxRuntime ----------------------------
(* OutboxRuntime on small instances: a Dispatch beside a ScanOnce, and one       *)
(* caller of transactions and the short operations.                             *)
EXTENDS OutboxRuntime, TLC
CONSTANTS w1, w2, d1, s1
Contended == {<<s1, "scan">>, <<d1, "dispatch">>}
Publishing == {d1} \X {"transaction", "call"}
MCScenarios == {Contended, Publishing}
===============================================================================
