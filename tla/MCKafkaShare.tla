------------------------------ MODULE MCKafkaShare ------------------------------
(* KafkaShare on small instances: one record until its deliveries are used up,  *)
(* a client that crashes next to one that stays, a client that is stopped or    *)
(* closed under load or while it publishes, and more records than slots on      *)
(* consumers of unequal size.                                                   *)
EXTENDS KafkaShare, TLC
CONSTANTS c1, c2, r1, r2, r3, r4
Base == [clients |-> {c1}, publishers |-> {}, stops |-> {}, crashes |-> {}, records |-> {r1},
         first |-> {r1}, concurrency |-> 2, batchSize |-> 2, shareConsumers |-> 0,
         hard |-> TRUE, faults |-> 2]
Exhausted == [Base EXCEPT !.records = {r1, r2}, !.first = {r1, r2}, !.shareConsumers = 1]
Takeover == [Base EXCEPT !.clients = {c1, c2}, !.crashes = {c1}, !.concurrency = 1]
StopUnderLoad == [Base EXCEPT !.stops = {c1}]
PublishAndClose == [StopUnderLoad EXCEPT !.publishers = {c1}, !.records = {r1, r2},
                                         !.faults = 1, !.hard = FALSE]
Loaded == [Base EXCEPT !.records = {r1, r2, r3, r4}, !.first = {r1, r2, r3, r4},
                       !.concurrency = 3, !.shareConsumers = 2, !.hard = FALSE, !.faults = 0]
MCScenarios == {Exhausted, Takeover, StopUnderLoad, PublishAndClose, Loaded}
===============================================================================
