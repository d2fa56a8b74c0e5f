--------------------------- MODULE ConfigFileProofs ---------------------------
(***************************************************************************)
(* Proof that the configuration file helpers, used by one process at a     *)
(* time, implement the atomic key-value store ConfigStore under the        *)
(* refinement mapping `stored`.                                            *)
(***************************************************************************)
EXTENDS ConfigFile, TLAPS

PcValues == {"idle", "open", "write"}

(* What the single process p0's position says: between set_config_value's *)
(* get_config and the truncation it holds the file with one entry changed; *)
(* after the truncation the file is empty.                                 *)
RefInv(p0) ==
    /\ pc \in [Procs -> PcValues]
    /\ DOMAIN local = Procs
    /\ pc[p0] = "open" => \E k \in Keys, v \in Values : local[p0] = Assign(file, k, v)
    /\ pc[p0] = "write" => file = <<>>

LEMMA RefInvInit ==
    ASSUME NEW p0, Procs = {p0}
    PROVE  Init => RefInv(p0)
BY DEF Init, RefInv, PcValues

LEMMA RefInvStep ==
    ASSUME NEW p0, Procs = {p0}
    PROVE  RefInv(p0) /\ [Next]_vars => RefInv(p0)'
<1> SUFFICES ASSUME RefInv(p0), [Next]_vars PROVE RefInv(p0)'
  OBVIOUS
<1>1. ASSUME NEW p \in Procs, GetConfig(p) PROVE RefInv(p0)'
  BY <1>1 DEF GetConfig, RefInv
<1>2. ASSUME NEW p \in Procs, NEW k \in Keys, NEW v \in Values, ReadForSet(p, k, v)
      PROVE  RefInv(p0)'
  <2>1. p = p0 /\ pc' = [pc EXCEPT ![p0] = "open"]
        /\ local' = [local EXCEPT ![p0] = Assign(file, k, v)] /\ UNCHANGED <<file, seen>>
    BY <1>2 DEF ReadForSet
  <2>2. local'[p0] = Assign(file', k, v) /\ DOMAIN local' = Procs
    BY <2>1 DEF RefInv
  <2>3. QED BY <2>1, <2>2 DEF RefInv, PcValues
<1>3. ASSUME NEW p \in Procs, Truncate(p) PROVE RefInv(p0)'
  BY <1>3 DEF Truncate, RefInv, PcValues
<1>4. ASSUME NEW p \in Procs, Write(p) PROVE RefInv(p0)'
  <2>1. p = p0 /\ pc' = [pc EXCEPT ![p0] = "idle"] /\ file' = local[p0]
        /\ UNCHANGED <<local, seen>>
    BY <1>4 DEF Write
  <2>2. QED BY <2>1 DEF RefInv, PcValues
<1>5. CASE UNCHANGED vars
  BY <1>5 DEF vars, RefInv
<1>6. QED BY <1>1, <1>2, <1>3, <1>4, <1>5 DEF Next

(* Every step of the single process is a step of the store or leaves it    *)
(* unchanged: the truncation is set_config_value's abstract update, the    *)
(* read before it and the write after it are stutters, and get_config      *)
(* returns the stored dict.                                                *)
LEMMA StepRefines ==
    ASSUME NEW p0, Procs = {p0}
    PROVE  RefInv(p0) /\ [Next]_vars => [Store!Next]_Store!vars
<1> SUFFICES ASSUME RefInv(p0), [Next]_vars PROVE [Store!Next]_Store!vars
  OBVIOUS
<1>0. /\ stored = (IF pc[p0] = "write" THEN local[p0] ELSE file)
      /\ stored' = (IF pc'[p0] = "write" THEN local'[p0] ELSE file')
  BY DEF stored
<1>1. ASSUME NEW p \in Procs, GetConfig(p) PROVE [Store!Next]_Store!vars
  <2>1. p = p0 /\ pc[p0] = "idle" /\ seen' = [seen EXCEPT ![p0] = file]
        /\ UNCHANGED <<file, pc, local>>
    BY <1>1 DEF GetConfig
  <2>2. Store!GetConfig(p0)
    BY <1>0, <2>1 DEF Store!GetConfig
  <2>3. QED BY <2>2 DEF Store!Next
<1>2. ASSUME NEW p \in Procs, NEW k \in Keys, NEW v \in Values, ReadForSet(p, k, v)
      PROVE  [Store!Next]_Store!vars
  <2>1. p = p0 /\ pc[p0] = "idle" /\ pc'[p0] = "open" /\ UNCHANGED <<file, seen>>
    BY <1>2 DEF ReadForSet, RefInv
  <2>2. UNCHANGED <<stored, seen>>
    BY <1>0, <2>1
  <2>3. QED BY <2>2 DEF Store!vars
<1>3. ASSUME NEW p \in Procs, Truncate(p) PROVE [Store!Next]_Store!vars
  <2>1. p = p0 /\ pc[p0] = "open" /\ pc'[p0] = "write" /\ UNCHANGED <<local, seen>>
    BY <1>3 DEF Truncate, RefInv
  <2>2. PICK k \in Keys, v \in Values : local[p0] = Assign(file, k, v)
    BY <2>1 DEF RefInv
  <2>3. stored = file /\ stored' = Assign(file, k, v)
    BY <1>0, <2>1, <2>2
  <2>4. Store!SetConfigValue(p0, k, v)
    BY <2>1, <2>3 DEF Store!SetConfigValue, Store!Assign, Assign
  <2>5. QED BY <2>4 DEF Store!Next
<1>4. ASSUME NEW p \in Procs, Write(p) PROVE [Store!Next]_Store!vars
  <2>1. p = p0 /\ pc[p0] = "write" /\ pc'[p0] = "idle" /\ file' = local[p0]
        /\ UNCHANGED <<local, seen>>
    BY <1>4 DEF Write, RefInv
  <2>2. UNCHANGED <<stored, seen>>
    BY <1>0, <2>1
  <2>3. QED BY <2>2 DEF Store!vars
<1>5. CASE UNCHANGED vars
  BY <1>0, <1>5 DEF vars, Store!vars
<1>6. QED BY <1>1, <1>2, <1>3, <1>4, <1>5 DEF Next

(* One process calling get_config and set_config_value in turn sees the    *)
(* helpers as an atomic key-value store: no update lost, no torn read.     *)
THEOREM SingleProcessImplementsStore ==
    ASSUME NEW p0, Procs = {p0}
    PROVE  Spec => ImplementsConfigStore
<1>1. Init => RefInv(p0) BY RefInvInit
<1>2. RefInv(p0) /\ [Next]_vars => RefInv(p0)' BY RefInvStep
<1>3. Init => Store!Init
  BY DEF Init, Store!Init, stored, Configs, Store!Configs
<1>4. RefInv(p0) /\ [Next]_vars => [Store!Next]_Store!vars BY StepRefines
<1>5. QED BY <1>1, <1>2, <1>3, <1>4, PTL DEF Spec, ImplementsConfigStore, Store!Spec

=============================================================================
