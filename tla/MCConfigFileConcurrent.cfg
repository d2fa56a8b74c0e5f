\* Configuration helpers, two processes.
CONSTANTS
    p1 = p1
    p2 = p2
    Procs <- MCTwoProcs
    Keys <- MCKeys
    Values <- MCValues
SPECIFICATION Spec
PROPERTY ImplementsConfigStore
