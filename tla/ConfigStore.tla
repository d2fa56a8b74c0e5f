---------------------------- MODULE ConfigStore ----------------------------
(***************************************************************************)
(* What the configuration helpers of src/python/flex/__init__.py promise  *)
(* their callers: a key-value store in which set_config_value(key, value) *)
(* replaces one entry and leaves the others, and get_config returns the   *)
(* whole store, each as one indivisible step.                             *)
(***************************************************************************)

CONSTANTS
    Procs,    \* the processes using the helpers
    Keys,     \* configuration keys
    Values    \* configuration values

(* The configurations: partial functions from keys to values.             *)
Configs == UNION {[D -> Values] : D \in SUBSET Keys}

(* The dict d with d[k] = v.                                               *)
Assign(d, k, v) == [x \in DOMAIN d \cup {k} |-> IF x = k THEN v ELSE d[x]]

VARIABLES
    config,   \* the stored configuration
    seen      \* seen[p]: what p's last get_config returned

vars == <<config, seen>>

Init ==
    /\ config \in Configs
    /\ seen = [p \in Procs |-> <<>>]

SetConfigValue(p, k, v) ==
    /\ config' = Assign(config, k, v)
    /\ UNCHANGED seen

GetConfig(p) ==
    /\ seen' = [seen EXCEPT ![p] = config]
    /\ UNCHANGED config

Next ==
    \E p \in Procs :
        \/ \E k \in Keys, v \in Values : SetConfigValue(p, k, v)
        \/ GetConfig(p)

Spec == Init /\ [][Next]_vars

=============================================================================
