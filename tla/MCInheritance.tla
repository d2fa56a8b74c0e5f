--------------------------- MODULE MCInheritance ---------------------------
(* A small instance of the inheritance cascade: 6 nodes in two succession  *)
(* cycles of 3, three executor offsets of which two must be controlled,    *)
(* buckets of 2 nodes so that the time-weighted pool has weights 1, 2, 3.  *)
EXTENDS Inheritance

MCN == 6
MCGroupSize == 3
MCOffsets == {1, 2, 4}
MCThreshold == 2
MCBucketSize == 2
MCTrials == 2
=============================================================================
