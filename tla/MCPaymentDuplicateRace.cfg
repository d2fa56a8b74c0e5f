\* Two request threads: the threaded Flask development server.
CONSTANTS
    u1 = u1
    u2 = u2
    w1 = w1
    w2 = w2
    Users <- MCUsers
    Amounts <- MCAmounts
    Workers <- MCTwoWorkers
    MaxRequests <- MCMaxRequests
SPECIFICATION Spec
\* The server stops receiving once MaxRequests requests have been served.
CHECK_DEADLOCK FALSE
INVARIANTS
    AppliedAtMostOnce
