------------------------------ MODULE MCSnowflake ------------------------------
(* Snowflake on small instances. *)
EXTENDS Snowflake, TLC

CONSTANTS p1, p2

MCSymmetry == Permutations(Procs)
===============================================================================
