------------------------ MODULE MCInheritanceScript ------------------------
(* The constants the script itself uses (lines 10-12, 19-32, 60): used to  *)
(* evaluate the pool weights and the succession map at full size.          *)
EXTENDS Inheritance

ScriptN == 600
ScriptGroupSize == 60
ScriptOffsets == {9, 11, 17, 22, 29, 31}
ScriptThreshold == 5
ScriptBucketSize == 100
ScriptTrials == 1000
=============================================================================
