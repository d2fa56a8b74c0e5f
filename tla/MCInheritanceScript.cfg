\* The script run as "python inheritance.py timeweighted".
CONSTANTS
    N <- ScriptN
    GroupSize <- ScriptGroupSize
    Offsets <- ScriptOffsets
    Threshold <- ScriptThreshold
    BucketSize <- ScriptBucketSize
    TimeWeighted = TRUE
    Trials <- ScriptTrials
SPECIFICATION Spec
INVARIANTS
    PoolWeightsAsSpecified
