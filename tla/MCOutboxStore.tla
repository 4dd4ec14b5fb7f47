---------------------------- MODULE MCOutboxStore ----------------------------
(* OutboxStore on small instances. *)
EXTENDS OutboxStore

CONSTANT m1

\* All messages lie in one shard.
MCShardOf == [m \in Msgs |-> 0]
===============================================================================
