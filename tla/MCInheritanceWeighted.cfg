\* Time-weighted pool: a sampling round may draw copies of nodes already held.
CONSTANTS
    N <- MCN
    GroupSize <- MCGroupSize
    Offsets <- MCOffsets
    Threshold <- MCThreshold
    BucketSize <- MCBucketSize
    TimeWeighted = TRUE
    Trials <- MCTrials
SPECIFICATION Spec
\* map(final_fraction, fractions) returns after Trials calls: the program ends.
CHECK_DEADLOCK FALSE
INVARIANTS
    InitialSetExact
PROPERTIES
    AllTrialsComplete
    ImplementsCascadeFunction
