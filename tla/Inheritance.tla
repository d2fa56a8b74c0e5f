---------------------------- MODULE Inheritance ----------------------------
(***************************************************************************)
(* The inheritance-cascade simulation of src/src/relays/inheritance.py.    *)
(*                                                                         *)
(* The script builds a fixed succession map over nodes 0..N-1 and a        *)
(* (possibly time-weighted) sampling pool, then calls final_fraction once  *)
(* per random fraction.  One call draws an initial controlled set of       *)
(* size int(fraction * N) by repeated random.sample, then grows it until   *)
(* an iteration adds nothing: a node joins when its successor and at least *)
(* Threshold of its executor positions are controlled.                     *)
(*                                                                         *)
(* Data is abstracted: the fraction f is represented by size = int(f * N)  *)
(* (every value 0..N-1 is reachable since f ranges over [0,1)), and the    *)
(* recorded result is <<size, len(my_nodes)>>, i.e. the two fractions      *)
(* times N.  The progress print every 100 trials is left out.              *)
(***************************************************************************)
EXTENDS Integers, FiniteSets, Sequences

CONSTANTS
    N,             \* len(nodes); 600 in the script
    GroupSize,     \* 60: a node n with n % 60 = 0 succeeds to n + 59
    Offsets,       \* executor_offsets, {9, 11, 17, 22, 29, 31}
    Threshold,     \* 5, the quorum of have_five_executors
    BucketSize,    \* 100, the bucket width of the sampling pool
    TimeWeighted,  \* 'timeweighted' in sys.argv
    Trials         \* len(fractions), 1000 in the script

NAssumption == N \in Nat \ {0}
GroupAssumption == GroupSize \in 1..N /\ N % GroupSize = 0
OffsetsAssumption == Offsets \subseteq Nat /\ IsFiniteSet(Offsets)
ThresholdAssumption == Threshold \in Nat
BucketAssumption == BucketSize \in 1..N
FlagAssumption == TimeWeighted \in BOOLEAN
TrialsAssumption == Trials \in Nat

ASSUME NAssumption
ASSUME GroupAssumption
ASSUME OffsetsAssumption
ASSUME ThresholdAssumption
ASSUME BucketAssumption
ASSUME FlagAssumption
ASSUME TrialsAssumption

nodes == 0..N-1

(* Mutant: the wrap edge of a group lands one node too far.              *)
successorsWrapTooFar ==
    [n \in nodes |-> IF n % GroupSize # 0 THEN (n - 1) % N
                                          ELSE (n + GroupSize) % N]

(* The succession map built at module load (line 14).                      *)
successors ==
    [n \in nodes |-> IF n % GroupSize # 0 THEN (n - 1) % N
                                          ELSE (n + GroupSize - 1) % N]

(* The executor positions of n that lie in some_nodes, and the quorum test *)
(* of have_five_executors.                                                 *)
ExecutorsPresent(n, some_nodes) ==
    {o \in Offsets : (n - o) % N \in some_nodes}

have_five_executors(n, some_nodes) ==
    Cardinality(ExecutorsPresent(n, some_nodes)) >= Threshold

(* Mutant: the successor test of the list comprehension is dropped.      *)
NewNodesNoSuccessor(my_nodes) ==
    {n \in nodes : have_five_executors(n, my_nodes)}

(* One round of the cascade loop (lines 48-50): the nodes whose successor  *)
(* is controlled and which have a quorum of controlled executors.          *)
NewNodes(my_nodes) ==
    {n \in nodes : successors[n] \in my_nodes /\ have_five_executors(n, my_nodes)}

(* Pool construction (lines 24-32).  Node n lies in the bucket that starts *)
(* at i = n - n % BucketSize; hours_ago uses Python 2 integer division.    *)
(* The list nodes_to_sample_from holds Weight(n) copies of n; random.sample*)
(* picks positions without replacement, so only the multiset matters and   *)
(* a position is the pair <<n, copy>>.                                     *)
HoursAgo(n) == (N - (n - (n % BucketSize))) \div BucketSize

Weight(n) ==
    IF TimeWeighted THEN (IF 4 - HoursAgo(n) > 1 THEN 4 - HoursAgo(n) ELSE 1)
                    ELSE 1

nodes_to_sample_from == UNION {{<<n, c>> : c \in 1..Weight(n)} : n \in nodes}

-----------------------------------------------------------------------------
VARIABLES
    pc,          \* "start" (between calls), "sample" (line 40), "cascade" (line 46)
    size,        \* int(fraction * len(nodes)) of the current call
    my_nodes,    \* the controlled set of the current call
    last_size,   \* the cascade loop's previous size
    count,       \* the global call counter
    results,     \* final_fractions so far, as <<size, len(my_nodes)>>
    initial      \* history: my_nodes when the sampling loop ended

vars == <<pc, size, my_nodes, last_size, count, results, initial>>

Init ==
    /\ pc = "start"
    /\ size = 0
    /\ my_nodes = {}
    /\ last_size = 0
    /\ count = 0
    /\ results = << >>
    /\ initial = {}

(* Mutant: size computed as ceil(fraction * N), as section 4.4 says.     *)
StartTrialCeil ==
    /\ pc = "start"
    /\ count < Trials
    /\ \E s \in 0..N : size' = s
    /\ my_nodes' = {}
    /\ pc' = "sample"
    /\ UNCHANGED <<last_size, count, results, initial>>

(* map(final_fraction, fractions) calls final_fraction on the next         *)
(* fraction (lines 37-39, 61).                                             *)
StartTrial ==
    /\ pc = "start"
    /\ count < Trials
    /\ \E s \in 0..N-1 : size' = s
    /\ my_nodes' = {}
    /\ pc' = "sample"
    /\ UNCHANGED <<last_size, count, results, initial>>

(* Mutant: each round asks for size positions, not the missing ones.     *)
SampleRoundAsksSize ==
    /\ pc = "sample"
    /\ Cardinality(my_nodes) < size
    /\ \E P \in SUBSET nodes_to_sample_from :
          /\ Cardinality(P) = size
          /\ my_nodes' = my_nodes \cup {p[1] : p \in P}
    /\ UNCHANGED <<pc, size, last_size, count, results, initial>>

(* Mutant: each round asks for one position fewer than are missing.      *)
SampleRoundOneShort ==
    /\ pc = "sample"
    /\ Cardinality(my_nodes) < size
    /\ \E P \in SUBSET nodes_to_sample_from :
          /\ Cardinality(P) = size - Cardinality(my_nodes) - 1
          /\ my_nodes' = my_nodes \cup {p[1] : p \in P}
    /\ UNCHANGED <<pc, size, last_size, count, results, initial>>

(* One pass of the sampling loop (lines 40-42): random.sample draws        *)
(* size - len(my_nodes) distinct positions of the pool; their nodes are    *)
(* added, duplicates of each other or of my_nodes collapsing.              *)
SampleRound ==
    /\ pc = "sample"
    /\ Cardinality(my_nodes) < size
    /\ \E P \in SUBSET nodes_to_sample_from :
          /\ Cardinality(P) = size - Cardinality(my_nodes)
          /\ my_nodes' = my_nodes \cup {p[1] : p \in P}
    /\ UNCHANGED <<pc, size, last_size, count, results, initial>>

(* The sampling loop exits and last_size = 0 (lines 40, 44).               *)
EndSampling ==
    /\ pc = "sample"
    /\ Cardinality(my_nodes) >= size
    /\ pc' = "cascade"
    /\ last_size' = 0
    /\ initial' = my_nodes
    /\ UNCHANGED <<size, my_nodes, count, results>>

(* Mutant: last_size is taken after the union instead of before it.     *)
IterateLateSize ==
    /\ pc = "cascade"
    /\ Cardinality(my_nodes) # last_size
    /\ last_size' = Cardinality(my_nodes \cup NewNodes(my_nodes))
    /\ my_nodes' = my_nodes \cup NewNodes(my_nodes)
    /\ UNCHANGED <<pc, size, count, results, initial>>

(* Mutant: the assignment last_size = len(my_nodes) is missing.          *)
IterateNoSizeUpdate ==
    /\ pc = "cascade"
    /\ Cardinality(my_nodes) # last_size
    /\ my_nodes' = my_nodes \cup NewNodes(my_nodes)
    /\ UNCHANGED <<pc, size, last_size, count, results, initial>>

(* One pass of the cascade loop (lines 46-51).                             *)
Iterate ==
    /\ pc = "cascade"
    /\ Cardinality(my_nodes) # last_size
    /\ last_size' = Cardinality(my_nodes)
    /\ my_nodes' = my_nodes \cup NewNodes(my_nodes)
    /\ UNCHANGED <<pc, size, count, results, initial>>

(* The cascade loop exits; count is incremented and the fraction returned  *)
(* into the result list (lines 46, 53-57, 61).                             *)
FinishTrial ==
    /\ pc = "cascade"
    /\ Cardinality(my_nodes) = last_size
    /\ count' = count + 1
    /\ results' = Append(results, <<size, Cardinality(my_nodes)>>)
    /\ pc' = "start"
    /\ UNCHANGED <<size, my_nodes, last_size, initial>>

Next ==
    \/ StartTrial
    \/ SampleRound
    \/ EndSampling
    \/ Iterate
    \/ FinishTrial

(* The script is a single thread that never blocks: every enabled step of  *)
(* final_fraction and of map is eventually taken.                          *)
Fairness ==
    /\ WF_vars(StartTrial)
    /\ WF_vars(SampleRound)
    /\ WF_vars(EndSampling)
    /\ WF_vars(Iterate)
    /\ WF_vars(FinishTrial)

Spec == Init /\ [][Next]_vars /\ Fairness

-----------------------------------------------------------------------------
(* Reference definitions, independent of the loop: a set is closed when    *)
(* one more cascade round adds nothing, and the cascade of I is the least  *)
(* closed superset of I.                                                   *)
Closed(T) ==
    \A n \in nodes : (successors[n] \in T /\ have_five_executors(n, T)) => n \in T

LeastClosed(I) ==
    {n \in nodes : \A T \in SUBSET nodes : (I \subseteq T /\ Closed(T)) => n \in T}

(* Every state of the program has well-typed variables.                    *)
TypeOK ==
    /\ pc \in {"start", "sample", "cascade"}
    /\ size \in 0..N-1
    /\ my_nodes \in SUBSET nodes
    /\ last_size \in 0..N
    /\ count \in 0..Trials
    /\ results \in Seq((0..N-1) \X (0..N))
    /\ initial \in SUBSET nodes

(* The nodes whose successor is m: the ones m inherits from.             *)
Predecessors(m) == {n \in nodes : successors[n] = m}

(* The succession map is a permutation (section 3 and 8): every node the   *)
(* cascade controls is the successor of exactly one node, so inheritance   *)
(* chains close into cycles and no controlled key is claimed twice.        *)
SuccessorIsPermutation ==
    \A m \in my_nodes : Cardinality(Predecessors(m)) = 1

(* The sampling loop never overshoots: while sampling, my_nodes holds at   *)
(* most size nodes, so the set handed to the cascade has exactly           *)
(* int(fraction * N) members and the recorded initial fraction is honest   *)
(* (lines 39-42: each round asks for size - len(my_nodes) more).           *)
InitialSetExact ==
    /\ pc = "sample" => Cardinality(my_nodes) <= size
    /\ pc = "cascade" => Cardinality(initial) = size

(* The cascade only admits nodes the rule forces: during the cascade loop  *)
(* my_nodes lies between the sampled set and its least closed superset.    *)
CascadeSound ==
    pc = "cascade" => initial \subseteq my_nodes /\ my_nodes \subseteq LeastClosed(initial)

(* When the loop's exit test len(my_nodes) = last_size holds (line 46),    *)
(* the cascade has reached exactly the least fixed point of the rule: the  *)
(* size comparison is a sound test for "no new node was added".            *)
FixedPointReached ==
    (pc = "cascade" /\ Cardinality(my_nodes) = last_size)
        => my_nodes = LeastClosed(initial)

(* Spec section 4.3: each pass of the cascade loop (lines 46-51) that does *)
(* not exit adds members and raises last_size, which never passes the size *)
(* of the controlled set: last_size is a variant bounded by N, so the loop *)
(* ends after at most N passes, whatever the scheduling.                   *)
CascadeProgress ==
    [][pc = "cascade" /\ pc' = "cascade" =>
          /\ my_nodes \subseteq my_nodes'
          /\ last_size < last_size'
          /\ last_size' <= Cardinality(my_nodes')]_vars

(* Every call of final_fraction that enters the cascade loop returns       *)
(* (lines 46-57): the loop cannot spin forever.                            *)
CascadeTerminates == (pc = "cascade") ~> (pc = "start")

(* The whole map over the fractions completes (lines 40-42 and 61): every  *)
(* sampling loop ends, so all Trials results are produced.                 *)
AllTrialsComplete == <>(count = Trials)

(* The spec (section 4.2 and 8) gives the bucket at distance d buckets     *)
(* from the end the weight max(4 - d, 1), i.e. 1,1,1,2,3,4 for six         *)
(* buckets.  Whenever the sampling loop runs (line 41), the pool it draws  *)
(* from, built by lines 26-32, should carry those weights.                 *)
SpecWeight(n) ==
    LET d == (N - 1 - n) \div BucketSize
    IN  IF 4 - d > 1 THEN 4 - d ELSE 1

PoolWeightsAsSpecified ==
    (pc = "sample" /\ TimeWeighted) => \A n \in nodes : Weight(n) = SpecWeight(n)


(* The driver implements the spec's trials (sections 2 and 5): each result *)
(* that map(final_fraction, fractions) records pairs the size of a sampled *)
(* set with the size of its least closed superset, the fixed point the     *)
(* cascade engine must reach.  count and results map to themselves; the    *)
(* sampling and cascade rounds are stutters, FinishTrial is the trial.     *)
Abstract == INSTANCE CascadeFunction WITH Cascade <- LeastClosed

ImplementsCascadeFunction == Abstract!Spec

=============================================================================
