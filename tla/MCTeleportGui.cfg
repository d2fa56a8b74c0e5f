\* The GUI backend served by one thread.
CONSTANTS
    w1 = w1
    w2 = w2
    Workers <- MCOneWorker
    MaxRequests <- MCMaxRequests
SPECIFICATION Spec
CHECK_DEADLOCK FALSE
INVARIANT LedgerShownWhenIdle
INVARIANT LatestAddressShownWhenIdle
