-------------------------- MODULE MCCompensatorStore --------------------------
(* CompensatorStore on small instances. *)
EXTENDS CompensatorStore, TLC

CONSTANTS i1, n1, n2
===============================================================================
