----------------------- MODULE MCKVPrefetchScheduler -----------------------
(* A small instance of KVPrefetchScheduler for TLC.                        *)
EXTENDS KVPrefetchScheduler

CONSTANTS b1, b2

TwoBlocks == {b1, b2}
OneLayer == [b \in Blocks |-> 0]

(* Callers that pass the caches of the one layer, or none at all.          *)
AnyCaches == {1, NoCaches}
=============================================================================
