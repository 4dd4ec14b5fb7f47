----------------------------- MODULE MCRedisStream -----------------------------
(* RedisStream on small instances: an entry that moves between two consumers,  *)
(* and one consumer with more entries than its queue takes, of which the       *)
(* second cannot be decoded.                                                   *)
EXTENDS RedisStream, TLC
CONSTANTS c1, c2, w1
Takeover ==
    [clients |-> {c1, c2}, publishers |-> {}, stops |-> {}, closes |-> {}, crashes |-> {c1},
     entries |-> 1, first |-> 1, faults |-> 1]
FullQueue ==
    [clients |-> {c1}, publishers |-> {}, stops |-> {}, closes |-> {}, crashes |-> {},
     entries |-> 2, first |-> 2, faults |-> 1]
StopUnderLoad ==
    [clients |-> {c1}, publishers |-> {}, stops |-> {c1}, closes |-> {}, crashes |-> {},
     entries |-> 2, first |-> 2, faults |-> 0]
PublishAndClose ==
    [clients |-> {c1}, publishers |-> {c1}, stops |-> {c1}, closes |-> {c1}, crashes |-> {},
     entries |-> 1, first |-> 0, faults |-> 1]
MCScenarios == {Takeover, FullQueue, StopUnderLoad, PublishAndClose}
===============================================================================
