------------------------- MODULE MCCompensatorRuntime -------------------------
(* CompensatorRuntime on small instances. *)
EXTENDS CompensatorRuntime, TLC

CONSTANTS w1, w2, c1
===============================================================================
