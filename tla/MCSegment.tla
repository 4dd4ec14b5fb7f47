------------------------------- MODULE MCSegment -------------------------------
(* Segment on small instances: g1 has two callers, g2 has one. *)
EXTENDS Segment, TLC

CONSTANTS g1, g2, c1, c2, c3

MCGenOf == (c1 :> g1) @@ (c2 :> g1) @@ (c3 :> g2)
===============================================================================
