\* One request thread: the Flask development server without threading.
CONSTANTS
    u1 = u1
    u2 = u2
    w1 = w1
    w2 = w2
    Users <- MCUsers
    Amounts <- MCAmounts
    Workers <- MCOneWorker
    MaxRequests <- MCMaxRequests
SPECIFICATION Spec
\* The server stops receiving once MaxRequests requests have been served.
CHECK_DEADLOCK FALSE
INVARIANTS
    TypeOK
    AppliedAtMostOnce
PROPERTIES
    ImplementsPaymentLedger
