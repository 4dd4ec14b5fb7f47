----------------------------- MODULE MCKafkaGroup -----------------------------
(* KafkaGroup on small instances. *)
EXTENDS KafkaGroup, TLC

CONSTANTS m1, m2
===============================================================================
