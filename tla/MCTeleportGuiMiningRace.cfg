\* start_mining and stop_mining on two threads.
CONSTANTS
    w1 = w1
    w2 = w2
    Workers <- MCTwoWorkers
    MaxRequests <- MCMaxRequests
SPECIFICATION Spec
CHECK_DEADLOCK FALSE
INVARIANT MiningShownWhenIdle
