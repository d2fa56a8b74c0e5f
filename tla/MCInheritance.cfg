\* Unweighted pool: the sampling loop always finishes in one round.
CONSTANTS
    N <- MCN
    GroupSize <- MCGroupSize
    Offsets <- MCOffsets
    Threshold <- MCThreshold
    BucketSize <- MCBucketSize
    TimeWeighted = FALSE
    Trials <- MCTrials
SPECIFICATION Spec
\* map(final_fraction, fractions) returns after Trials calls: the program ends.
CHECK_DEADLOCK FALSE
INVARIANTS
    TypeOK
    SuccessorIsPermutation
    CascadeSound
    
PROPERTIES
    CascadeProgress
    CascadeTerminates
    AllTrialsComplete
