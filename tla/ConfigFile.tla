----------------------------- MODULE ConfigFile -----------------------------
(***************************************************************************)
(* The configuration file helpers of src/python/flex/__init__.py.         *)
(*                                                                         *)
(* The file flex.conf holds one key=value line per entry.  get_config      *)
(* reads it whole and parses it; set_config_value reads it, changes one    *)
(* entry in the parsed dict and hands the dict to set_config, which        *)
(* formats it and calls write_config_file: open(..., "w") truncates the    *)
(* file, write puts the new text.  Another process can act between the     *)
(* read and the truncation and between the truncation and the write.       *)
(*                                                                         *)
(* Keys and values are tokens without "=", newline or surrounding blanks,  *)
(* for which parsing the formatted text gives back the dict; the file's    *)
(* text is represented by that dict, and an empty file by the empty dict. *)
(***************************************************************************)

CONSTANTS
    Procs,    \* processes that call the helpers
    Keys,     \* configuration keys
    Values    \* configuration values

Configs == UNION {[D -> Values] : D \in SUBSET Keys}

(* config[key] = value on the parsed dict (line 31).                       *)
Assign(d, k, v) == [x \in DOMAIN d \cup {k} |-> IF x = k THEN v ELSE d[x]]

VARIABLES
    file,     \* the dict the file's text parses to
    pc,       \* pc[p]: "idle", "open" (dict computed), "write" (file truncated)
    local,    \* local[p]: the dict set_config_value of p will write
    seen      \* seen[p]: what p's last get_config returned

vars == <<file, pc, local, seen>>

Init ==
    /\ file \in Configs
    /\ pc = [p \in Procs |-> "idle"]
    /\ local = [p \in Procs |-> <<>>]
    /\ seen = [p \in Procs |-> <<>>]

(* get_config (lines 19-23), and the get_client and get_rpc lookups that   *)
(* call it (lines 38-52): one read of the whole file.                      *)
GetConfig(p) ==
    /\ pc[p] = "idle"
    /\ seen' = [seen EXCEPT ![p] = file]
    /\ UNCHANGED <<file, pc, local>>

(* Mutant: set_config writes a dict holding only the new entry.           *)
ReadForSetForgetful(p, k, v) ==
    /\ pc[p] = "idle"
    /\ local' = [local EXCEPT ![p] = [x \in {k} |-> v]]
    /\ pc' = [pc EXCEPT ![p] = "open"]
    /\ UNCHANGED <<file, seen>>

(* set_config_value (lines 29-32): get_config, then config[key] = value.   *)
ReadForSet(p, k, v) ==
    /\ pc[p] = "idle"
    /\ local' = [local EXCEPT ![p] = Assign(file, k, v)]
    /\ pc' = [pc EXCEPT ![p] = "open"]
    /\ UNCHANGED <<file, seen>>

(* set_config (lines 25-27) calls write_config_file (lines 15-17):         *)
(* open(get_config_file(), "w") truncates the file ...                     *)
Truncate(p) ==
    /\ pc[p] = "open"
    /\ file' = <<>>
    /\ pc' = [pc EXCEPT ![p] = "write"]
    /\ UNCHANGED <<local, seen>>

(* ... and file_.write(text), flushed when the with block closes it.       *)
Write(p) ==
    /\ pc[p] = "write"
    /\ file' = local[p]
    /\ pc' = [pc EXCEPT ![p] = "idle"]
    /\ UNCHANGED <<local, seen>>

Next ==
    \E p \in Procs :
        \/ GetConfig(p)
        \/ \E k \in Keys, v \in Values : ReadForSet(p, k, v)
        \/ Truncate(p)
        \/ Write(p)

Spec == Init /\ [][Next]_vars

-----------------------------------------------------------------------------
(* The configuration the file stands for: once a writer has truncated the  *)
(* file, the dict it is about to write.                                    *)
stored ==
    IF \E p \in Procs : pc[p] = "write"
      THEN local[CHOOSE p \in Procs : pc[p] = "write"]
      ELSE file

Store == INSTANCE ConfigStore WITH config <- stored

(* The helpers behave as the atomic store: set_config_value changes only   *)
(* its own key, no completed update is lost, and get_config never returns  *)
(* a truncated file.                                                       *)
ImplementsConfigStore == Store!Spec

=============================================================================
