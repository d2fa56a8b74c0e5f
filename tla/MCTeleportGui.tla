---------------------------- MODULE MCTeleportGui ----------------------------
EXTENDS TeleportGui

CONSTANTS w1, w2

MCOneWorker == {w1}
MCTwoWorkers == {w1, w2}
MCMaxRequests == 4

=============================================================================
