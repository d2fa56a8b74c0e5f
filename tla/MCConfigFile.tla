---------------------------- MODULE MCConfigFile ----------------------------
EXTENDS ConfigFile

CONSTANTS p1, p2

MCOneProc == {p1}
MCTwoProcs == {p1, p2}
MCKeys == {"rpcuser", "rpcport"}
MCValues == {"a", "b"}

=============================================================================
