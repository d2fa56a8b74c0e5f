\* Configuration helpers, one process in turn.
CONSTANTS
    p1 = p1
    p2 = p2
    Procs <- MCOneProc
    Keys <- MCKeys
    Values <- MCValues
SPECIFICATION Spec
PROPERTY ImplementsConfigStore
