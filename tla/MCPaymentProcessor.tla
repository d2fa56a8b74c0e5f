------------------------ MODULE MCPaymentProcessor ------------------------
(* Two users, two amounts and at most three payment requests.  The number  *)
(* of request threads is set per run.                                      *)
EXTENDS PaymentProcessor

CONSTANTS u1, u2, w1, w2

MCUsers == {u1, u2}
MCAmounts == {1, 2}
MCOneWorker == {w1}
MCTwoWorkers == {w1, w2}
MCMaxRequests == 3
=============================================================================
