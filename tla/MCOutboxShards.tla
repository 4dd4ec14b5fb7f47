---------------------------- MODULE MCOutboxShards ----------------------------
(* OutboxShards on small instances. *)
EXTENDS OutboxShards
===============================================================================
