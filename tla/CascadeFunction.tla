-------------------------- MODULE CascadeFunction --------------------------
(***************************************************************************)
(* What the simulation promises, in the spec's terms: the Monte Carlo      *)
(* driver runs Trials trials; a trial takes an initial controlled set of   *)
(* nodes, runs the cascade to its fixed point and records the pair         *)
(* (initial size, final size).  Cascade(I) is the fixed point reached from *)
(* I, a pure function of the graph and the initial set.  Sampling and the  *)
(* rounds of the cascade loop are invisible here: a trial is one step.     *)
(***************************************************************************)
EXTENDS Naturals, Sequences, FiniteSets

CONSTANTS
    N,            \* number of relay nodes
    Trials,       \* number of trials of the driver
    Cascade(_)    \* the cascade's fixed point reached from an initial set

nodes == 0..N-1

VARIABLES
    count,        \* trials done
    results       \* the recorded (initial size, final size) pairs

vars == <<count, results>>

Init ==
    /\ count = 0
    /\ results = << >>

(* One trial: some initial set I, and the size of its cascade.             *)
Trial ==
    /\ count < Trials
    /\ count' = count + 1
    /\ \E I \in SUBSET nodes :
          results' = Append(results, <<Cardinality(I), Cardinality(Cascade(I))>>)

Spec == Init /\ [][Trial]_vars

=============================================================================
