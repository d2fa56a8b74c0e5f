------------------------- MODULE InheritanceProofs -------------------------
(***************************************************************************)
(* Proofs about the inheritance cascade of Inheritance, for every value of *)
(* the constants that satisfies the module's assumptions.                  *)
(***************************************************************************)
EXTENDS Inheritance, FiniteSetTheorems, TLAPS

USE NAssumption, GroupAssumption, OffsetsAssumption, ThresholdAssumption,
    BucketAssumption, FlagAssumption, TrialsAssumption
    DEF NAssumption, GroupAssumption, OffsetsAssumption, ThresholdAssumption,
        BucketAssumption, FlagAssumption, TrialsAssumption

-----------------------------------------------------------------------------
(* Every set of nodes is finite and has at most N members.                 *)
LEMMA NodeSetCardinality ==
    ASSUME NEW S \in SUBSET nodes
    PROVE  IsFiniteSet(S) /\ Cardinality(S) \in 0..N
<1>1. IsFiniteSet(nodes) /\ Cardinality(nodes) = N
    BY FS_Interval DEF nodes
<1>2. QED
    BY <1>1, FS_Subset, FS_CardinalityType

-----------------------------------------------------------------------------
(* TypeOK is not inductive by itself: FinishTrial increments count without *)
(* testing it, so the strengthening records that a call in progress was    *)
(* started below the Trials bound (line 61 maps over Trials fractions).    *)
TypeInv ==
    /\ TypeOK
    /\ pc # "start" => count < Trials

LEMMA TypeInvInit == Init => TypeInv
BY DEF Init, TypeInv, TypeOK

LEMMA TypeInvStep == TypeInv /\ [Next]_vars => TypeInv'
<1> SUFFICES ASSUME TypeInv, [Next]_vars PROVE TypeInv'
    OBVIOUS
<1>1. CASE StartTrial
    BY <1>1 DEF StartTrial, TypeInv, TypeOK
<1>2. CASE SampleRound
    <2>1. PICK P \in SUBSET nodes_to_sample_from :
                my_nodes' = my_nodes \cup {p[1] : p \in P}
        BY <1>2 DEF SampleRound
    <2>2. {p[1] : p \in P} \subseteq nodes
        BY DEF nodes_to_sample_from
    <2>3. QED
        BY <1>2, <2>1, <2>2 DEF SampleRound, TypeInv, TypeOK
<1>3. CASE EndSampling
    BY <1>3 DEF EndSampling, TypeInv, TypeOK
<1>4. CASE Iterate
    <2>1. NewNodes(my_nodes) \subseteq nodes
        BY DEF NewNodes
    <2>2. Cardinality(my_nodes) \in 0..N
        BY NodeSetCardinality DEF TypeInv, TypeOK
    <2>3. QED
        BY <1>4, <2>1, <2>2 DEF Iterate, TypeInv, TypeOK
<1>5. CASE FinishTrial
    <2>1. Cardinality(my_nodes) \in 0..N
        BY NodeSetCardinality DEF TypeInv, TypeOK
    <2>2. QED
        BY <1>5, <2>1 DEF FinishTrial, TypeInv, TypeOK
<1>6. CASE UNCHANGED vars
    BY <1>6 DEF vars, TypeInv, TypeOK
<1>7. QED
    BY <1>1, <1>2, <1>3, <1>4, <1>5, <1>6 DEF Next

(* Every reachable state of the script is well typed.                      *)
THEOREM TypeCorrect == Spec => []TypeOK
<1>1. Spec => []TypeInv
    BY TypeInvInit, TypeInvStep, PTL DEF Spec
<1>2. QED
    BY <1>1, PTL DEF TypeInv

-----------------------------------------------------------------------------
(* The quorum test is monotone: more controlled nodes never take away an   *)
(* executor of n (line 21 only tests membership).                          *)
LEMMA QuorumMonotone ==
    ASSUME NEW n, NEW S, NEW T, S \subseteq T, have_five_executors(n, S)
    PROVE  have_five_executors(n, T)
<1>1. ExecutorsPresent(n, S) \subseteq ExecutorsPresent(n, T)
    BY DEF ExecutorsPresent
<1>2. IsFiniteSet(ExecutorsPresent(n, T))
    BY FS_Subset DEF ExecutorsPresent
<1>3. Cardinality(ExecutorsPresent(n, S)) <= Cardinality(ExecutorsPresent(n, T))
    BY <1>1, <1>2, FS_Subset
<1>4. Cardinality(ExecutorsPresent(n, S)) \in Nat /\ Cardinality(ExecutorsPresent(n, T)) \in Nat
    BY <1>1, <1>2, FS_Subset, FS_CardinalityType
<1>5. QED
    BY <1>3, <1>4 DEF have_five_executors

(* A node one cascade round adds to a part of the least closed superset of *)
(* I lies in that least closed superset as well.                           *)
LEMMA NewNodesStayInLeast ==
    ASSUME NEW I, NEW S, S \subseteq LeastClosed(I)
    PROVE  NewNodes(S) \subseteq LeastClosed(I)
<1> SUFFICES ASSUME NEW n \in NewNodes(S),
                    NEW T \in SUBSET nodes, I \subseteq T, Closed(T)
             PROVE  n \in T
    BY DEF LeastClosed, NewNodes
<1>1. S \subseteq T
    BY DEF LeastClosed
<1>2. successors[n] \in T /\ have_five_executors(n, S) /\ n \in nodes
    BY <1>1 DEF NewNodes
<1>3. have_five_executors(n, T)
    BY <1>1, <1>2, QuorumMonotone
<1>4. QED
    BY <1>2, <1>3 DEF Closed

(* A closed set of nodes containing I contains the least closed superset.  *)
LEMMA LeastBelowClosed ==
    ASSUME NEW I, NEW T \in SUBSET nodes, I \subseteq T, Closed(T)
    PROVE  LeastClosed(I) \subseteq T
BY DEF LeastClosed

(* Every set is contained in its least closed superset.                    *)
LEMMA LeastAbove ==
    ASSUME NEW I \in SUBSET nodes
    PROVE  I \subseteq LeastClosed(I)
BY DEF LeastClosed

-----------------------------------------------------------------------------
(* The cascade invariant: CascadeSound together with the fact that makes   *)
(* the loop's exit test meaningful.  last_size is the size of the set one  *)
(* round ago, so equal sizes mean the last round added nothing and the set *)
(* is closed; before the first round last_size = 0, and only the empty     *)
(* set, which is closed, has size 0.                                       *)
ExitMeansClosed ==
    (pc = "cascade" /\ Cardinality(my_nodes) = last_size) => Closed(my_nodes)

IInv == TypeInv /\ CascadeSound /\ ExitMeansClosed

(* The empty set is closed: no node has its successor in it.               *)
LEMMA EmptyClosed == Closed({})
BY DEF Closed

(* A set that one round does not enlarge is closed.                        *)
LEMMA NoGrowthClosed ==
    ASSUME NEW S \in SUBSET nodes, NewNodes(S) \subseteq S
    PROVE  Closed(S)
BY DEF Closed, NewNodes

LEMMA IInvInit == Init => IInv
<1> SUFFICES ASSUME Init PROVE IInv
    OBVIOUS
<1>1. TypeInv
    BY TypeInvInit
<1>2. QED
    BY <1>1 DEF Init, IInv, CascadeSound, ExitMeansClosed

LEMMA IInvStep == IInv /\ [Next]_vars => IInv'
<1> SUFFICES ASSUME IInv, [Next]_vars PROVE IInv'
    OBVIOUS
<1>1. TypeInv'
    BY TypeInvStep DEF IInv
<1>2. CASE StartTrial
    BY <1>1, <1>2 DEF StartTrial, IInv, CascadeSound, ExitMeansClosed
<1>3. CASE SampleRound
    BY <1>1, <1>3 DEF SampleRound, IInv, CascadeSound, ExitMeansClosed
<1>4. CASE EndSampling
    <2>1. my_nodes \in SUBSET nodes
        BY DEF IInv, TypeInv, TypeOK
    <2>2. CascadeSound'
        BY <1>4, <2>1, LeastAbove DEF EndSampling, CascadeSound
    <2>3. ExitMeansClosed'
        <3>1. SUFFICES ASSUME Cardinality(my_nodes) = 0 PROVE Closed(my_nodes)
            BY <1>4 DEF EndSampling, ExitMeansClosed
        <3>2. my_nodes = {}
            BY <2>1, <3>1, NodeSetCardinality, FS_EmptySet
        <3>3. QED
            BY <3>2, EmptyClosed
    <2>4. QED
        BY <1>1, <2>2, <2>3 DEF IInv
<1>5. CASE Iterate
    <2>1. my_nodes \in SUBSET nodes
        BY DEF IInv, TypeInv, TypeOK
    <2>2. pc = "cascade"
        BY <1>5 DEF Iterate
    <2>3. my_nodes \subseteq LeastClosed(initial) /\ initial \subseteq my_nodes
        BY <2>2 DEF IInv, CascadeSound
    <2>4. NewNodes(my_nodes) \subseteq LeastClosed(initial)
        BY <2>3, NewNodesStayInLeast
    <2>5. CascadeSound'
        BY <1>5, <2>3, <2>4 DEF Iterate, CascadeSound
    <2>6. ExitMeansClosed'
        <3>1. SUFFICES ASSUME Cardinality(my_nodes') = Cardinality(my_nodes)
                       PROVE  Closed(my_nodes')
            BY <1>5 DEF Iterate, ExitMeansClosed
        <3>2. my_nodes' \in SUBSET nodes
            BY <1>1 DEF TypeInv, TypeOK
        <3>3. IsFiniteSet(my_nodes')
            BY <3>2, NodeSetCardinality
        <3>4. my_nodes' = my_nodes
            BY <1>5, <3>1, <3>3, FS_Subset DEF Iterate
        <3>5. NewNodes(my_nodes) \subseteq my_nodes
            BY <1>5, <3>4 DEF Iterate
        <3>6. QED
            BY <2>1, <3>4, <3>5, NoGrowthClosed
    <2>7. QED
        BY <1>1, <2>5, <2>6 DEF IInv
<1>6. CASE FinishTrial
    BY <1>1, <1>6 DEF FinishTrial, IInv, CascadeSound, ExitMeansClosed
<1>7. CASE UNCHANGED vars
    BY <1>1, <1>7 DEF vars, IInv, CascadeSound, ExitMeansClosed
<1>8. QED
    BY <1>2, <1>3, <1>4, <1>5, <1>6, <1>7 DEF Next

(* The cascade loop never admits a node that the inheritance rule does not *)
(* force from the sampled set (lines 46-51).                               *)
THEOREM CascadeSoundness == Spec => []CascadeSound
<1>1. Spec => []IInv
    BY IInvInit, IInvStep, PTL DEF Spec
<1>2. QED
    BY <1>1, PTL DEF IInv

(* Under the cascade invariant, equal sizes at the loop test mean my_nodes *)
(* is the least closed superset of the sampled set.                        *)
LEMMA ExitIsFixedPoint == IInv => FixedPointReached
<1> SUFFICES ASSUME IInv, pc = "cascade", Cardinality(my_nodes) = last_size
             PROVE  my_nodes = LeastClosed(initial)
    BY DEF FixedPointReached
<1>1. Closed(my_nodes) /\ my_nodes \in SUBSET nodes
    BY DEF IInv, ExitMeansClosed, TypeInv, TypeOK
<1>2. initial \subseteq my_nodes /\ my_nodes \subseteq LeastClosed(initial)
    BY DEF IInv, CascadeSound
<1>3. LeastClosed(initial) \subseteq my_nodes
    BY <1>1, <1>2, LeastBelowClosed
<1>4. QED
    BY <1>2, <1>3

(* When the loop's size test ends the cascade (line 46), my_nodes is the   *)
(* least fixed point of the rule above the sampled set.                    *)
THEOREM CascadeReachesFixedPoint == Spec => []FixedPointReached
<1>1. Spec => []IInv
    BY IInvInit, IInvStep, PTL DEF Spec
<1>2. QED
    BY <1>1, ExitIsFixedPoint, PTL

(* Spec section 8: if A is a subset of B then runCascade(A) is a subset of *)
(* runCascade(B).  With CascadeReachesFixedPoint (the loop exits at         *)
(* LeastClosed of the sampled set) this is the spec's property of the code: *)
(* every closed superset of B is one of A, so the least one above A lies    *)
(* inside it.                                                               *)
LEMMA LeastClosedMonotone ==
    ASSUME NEW A, NEW B, A \subseteq B
    PROVE  LeastClosed(A) \subseteq LeastClosed(B)
BY DEF LeastClosed

-----------------------------------------------------------------------------
(* The loop's variant.  last_size is a size the controlled set had earlier *)
(* in the same call, and the set only grows, so inside the loop last_size  *)
(* never exceeds the set's size; the test of line 46 then makes every pass *)
(* that does not exit a strict increase.                                   *)
SizeBelow == pc = "cascade" => last_size <= Cardinality(my_nodes)

PInv == TypeInv /\ SizeBelow

LEMMA PInvInit == Init => PInv
BY TypeInvInit DEF Init, PInv, SizeBelow

LEMMA PInvStep == PInv /\ [Next]_vars => PInv'
<1> SUFFICES ASSUME PInv, [Next]_vars PROVE PInv'
    OBVIOUS
<1>1. TypeInv'
    BY TypeInvStep DEF PInv
<1>2. my_nodes \in SUBSET nodes /\ my_nodes' \in SUBSET nodes
    BY <1>1 DEF PInv, TypeInv, TypeOK
<1>3. IsFiniteSet(my_nodes') /\ Cardinality(my_nodes') \in Nat
      /\ IsFiniteSet(my_nodes) /\ Cardinality(my_nodes) \in Nat
    BY <1>2, NodeSetCardinality
<1>4. CASE EndSampling
    BY <1>1, <1>3, <1>4 DEF EndSampling, PInv, SizeBelow
<1>5. CASE Iterate
    <2>1. my_nodes \subseteq my_nodes'
        BY <1>5 DEF Iterate
    <2>2. Cardinality(my_nodes) <= Cardinality(my_nodes')
        BY <1>3, <2>1, FS_Subset
    <2>3. QED
        BY <1>1, <1>5, <2>2 DEF Iterate, PInv, SizeBelow
<1>6. CASE StartTrial \/ SampleRound \/ FinishTrial
    BY <1>1, <1>6 DEF StartTrial, SampleRound, FinishTrial, PInv, SizeBelow
<1>7. CASE UNCHANGED vars
    BY <1>1, <1>7 DEF vars, PInv, SizeBelow
<1>8. QED
    BY <1>4, <1>5, <1>6, <1>7 DEF Next

(* Every pass of the cascade loop that stays in the loop enlarges          *)
(* last_size and keeps it within the controlled set's size (lines 46-51), *)
(* the variant that bounds the loop by N passes (spec section 4.3).        *)
THEOREM CascadeProgresses == Spec => CascadeProgress
<1> DEFINE Progress ==
        pc = "cascade" /\ pc' = "cascade" =>
            /\ my_nodes \subseteq my_nodes'
            /\ last_size < last_size'
            /\ last_size' <= Cardinality(my_nodes')
<1>1. PInv /\ [Next]_vars => [Progress]_vars
    <2> SUFFICES ASSUME PInv, [Next]_vars PROVE [Progress]_vars
        OBVIOUS
    <2>1. CASE UNCHANGED vars
        BY <2>1
    <2>2. CASE Next /\ ~(pc = "cascade" /\ pc' = "cascade")
        BY <2>2
    <2>3. CASE Next /\ pc = "cascade" /\ pc' = "cascade"
        <3>1. Iterate
            BY <2>3 DEF Next, StartTrial, SampleRound, EndSampling, FinishTrial
        <3>2. my_nodes \in SUBSET nodes /\ last_size \in Nat
            BY DEF PInv, TypeInv, TypeOK
        <3>3. my_nodes \subseteq my_nodes' /\ my_nodes' \in SUBSET nodes
            BY <3>1, <3>2 DEF Iterate, NewNodes
        <3>4. /\ IsFiniteSet(my_nodes) /\ Cardinality(my_nodes) \in Nat
              /\ IsFiniteSet(my_nodes') /\ Cardinality(my_nodes') \in Nat
            BY <3>2, <3>3, NodeSetCardinality
        <3>5. Cardinality(my_nodes) <= Cardinality(my_nodes')
            BY <3>3, <3>4, FS_Subset
        <3>6. last_size < Cardinality(my_nodes)
            BY <2>3, <3>1, <3>2, <3>4 DEF Iterate, PInv, SizeBelow
        <3>7. last_size' = Cardinality(my_nodes)
            BY <3>1 DEF Iterate
        <3>8. QED
            BY <3>3, <3>4, <3>5, <3>6, <3>7
    <2>4. QED
        BY <2>1, <2>2, <2>3
<1>2. QED
    BY <1>1, PInvInit, PInvStep, PTL DEF Spec, CascadeProgress

-----------------------------------------------------------------------------
(* The wrap edge of a group never wraps around the ring: since GroupSize   *)
(* divides N, a group start a is at most N - GroupSize, so a + GroupSize - 1 *)
(* is the last node of the same group.                                     *)
LEMMA WrapStaysInGroup ==
    ASSUME NEW a \in nodes, a % GroupSize = 0
    PROVE  a + GroupSize - 1 \in nodes /\ (a + GroupSize - 1) % N = a + GroupSize - 1
<1> DEFINE ka == a \div GroupSize
           kn == N \div GroupSize
<1>1. a = GroupSize * ka /\ N = GroupSize * kn /\ ka \in Nat /\ kn \in Nat
    BY DEF nodes
<1>2. ka < kn
    BY <1>1 DEF nodes
<1>3. a <= N - GroupSize
    <2>1. ka <= kn - 1
        BY <1>1, <1>2
    <2>2. GroupSize * ka <= GroupSize * (kn - 1)
        BY <1>1, <2>1
    <2>3. QED
        BY <1>1, <2>2
<1>4. QED
    BY <1>3 DEF nodes

(* Every node other than a group start has successor n - 1, in nodes.      *)
LEMMA StepBack ==
    ASSUME NEW a \in nodes, a % GroupSize # 0
    PROVE  a \in 1..N-1 /\ (a - 1) % N = a - 1
<1>1. a # 0
    BY DEF nodes
<1>2. QED
    BY <1>1 DEF nodes

(* The succession map of line 14 maps the nodes into themselves and no    *)
(* two nodes have the same successor, for every GroupSize dividing N.      *)
LEMMA SuccessorInjective ==
    /\ successors \in [nodes -> nodes]
    /\ \A a, b \in nodes : successors[a] = successors[b] => a = b
<1>1. successors \in [nodes -> nodes]
    <2> SUFFICES ASSUME NEW n \in nodes PROVE successors[n] \in nodes
        BY DEF successors
    <2>1. CASE n % GroupSize # 0
        BY <2>1, StepBack DEF successors, nodes
    <2>2. CASE n % GroupSize = 0
        BY <2>2, WrapStaysInGroup DEF successors
    <2>3. QED
        BY <2>1, <2>2
<1>2. \A a, b \in nodes : successors[a] = successors[b] => a = b
    <2> SUFFICES ASSUME NEW a \in nodes, NEW b \in nodes,
                        successors[a] = successors[b]
                 PROVE  a = b
        OBVIOUS
    <2>1. CASE a % GroupSize # 0 /\ b % GroupSize # 0
        BY <2>1, StepBack DEF successors
    <2>2. CASE a % GroupSize = 0 /\ b % GroupSize = 0
        <3>1. successors[a] = a + GroupSize - 1
            BY <2>2, WrapStaysInGroup DEF successors
        <3>2. successors[b] = b + GroupSize - 1
            BY <2>2, WrapStaysInGroup DEF successors
        <3>3. a + GroupSize - 1 = b + GroupSize - 1
            BY <3>1, <3>2, Zenon
        <3>4. QED
            BY <3>3 DEF nodes
    <2>3. ASSUME NEW x \in nodes, NEW y \in nodes, x % GroupSize # 0, y % GroupSize = 0,
                 successors[x] = successors[y]
          PROVE  FALSE
        <3>1. x - 1 = y + GroupSize - 1
            BY <2>3, StepBack, WrapStaysInGroup DEF successors
        <3>2. x = y + GroupSize
            BY <3>1 DEF nodes
        <3>3. x % GroupSize = 0
            <4>1. y = GroupSize * (y \div GroupSize) /\ y \div GroupSize \in Nat
                BY <2>3 DEF nodes
            <4>2. x = GroupSize * (y \div GroupSize + 1)
                BY <3>2, <4>1
            <4>3. QED
                BY <4>1, <4>2
        <3>4. QED
            BY <2>3, <3>3
    <2>4. QED
        BY <2>1, <2>2, <2>3
<1>3. QED
    BY <1>1, <1>2

(* Every node has exactly one predecessor: an injection of the finite set  *)
(* of nodes into itself is onto.                                           *)
LEMMA OnePredecessor ==
    ASSUME NEW m \in nodes
    PROVE  Cardinality(Predecessors(m)) = 1
<1>1. successors \in Injection(nodes, nodes)
    BY SuccessorInjective DEF Injection, IsInjective
<1>2. IsFiniteSet(nodes)
    BY FS_Interval DEF nodes
<1>3. successors \in Surjection(nodes, nodes)
    BY <1>1, <1>2, FS_Injection
<1>4. PICK p \in nodes : successors[p] = m
    BY <1>3 DEF Surjection
<1>5. Predecessors(m) = {p}
    BY <1>4, SuccessorInjective DEF Predecessors
<1>6. QED
    BY <1>5, FS_Singleton

(* Every node the cascade controls has exactly one predecessor in the      *)
(* succession map of line 14, for every N and every GroupSize dividing it. *)
THEOREM SuccessorPermutation == Spec => []SuccessorIsPermutation
<1>1. TypeOK => SuccessorIsPermutation
    BY OnePredecessor DEF TypeOK, SuccessorIsPermutation
<1>2. QED
    BY <1>1, TypeCorrect, PTL

-----------------------------------------------------------------------------
(* hours_ago is never negative (the bucket start i is at most n < N), so   *)
(* each node has between one and four copies in the pool (lines 28-32).   *)
LEMMA WeightBounds ==
    ASSUME NEW n \in nodes
    PROVE  Weight(n) \in 1..4
<1>1. HoursAgo(n) \in Nat
    <2>1. n % BucketSize \in 0..BucketSize-1 /\ N - (n - (n % BucketSize)) \in Nat
        BY DEF nodes
    <2>2. QED
        BY <2>1 DEF HoursAgo
<1>2. QED
    BY <1>1 DEF Weight

(* The sampling pool is finite: its positions are pairs of a node and one  *)
(* of at most four copies.                                                 *)
LEMMA PoolFinite ==
    /\ nodes_to_sample_from \subseteq nodes \X (1..4)
    /\ IsFiniteSet(nodes_to_sample_from)
<1>1. nodes_to_sample_from \subseteq nodes \X (1..4)
    BY WeightBounds DEF nodes_to_sample_from
<1>2. IsFiniteSet(nodes \X (1..4))
    <2>1. IsFiniteSet(nodes)
        BY NodeSetCardinality
    <2>2. IsFiniteSet(1..4)
        <3>1. 1 \in Int /\ 4 \in Int
            OBVIOUS
        <3>2. QED
            BY <3>1, FS_Interval, Zenon
    <2>3. QED
        BY <2>1, <2>2, FS_Product
<1>3. QED
    BY <1>1, <1>2, FS_Subset

(* random.sample of k positions adds at most k distinct nodes to my_nodes  *)
(* (line 41 takes the union of their node numbers).                        *)
LEMMA SampleAddsAtMost ==
    ASSUME NEW M \in SUBSET nodes, NEW P \in SUBSET nodes_to_sample_from
    PROVE  /\ IsFiniteSet(P)
           /\ Cardinality(M \cup {p[1] : p \in P}) <= Cardinality(M) + Cardinality(P)
<1> DEFINE Img == {p[1] : p \in P}
<1>1. IsFiniteSet(P)
    BY PoolFinite, FS_Subset
<1>2. [p \in P |-> p[1]] \in Surjection(P, Img)
    BY DEF Surjection
<1>3. IsFiniteSet(Img) /\ Cardinality(Img) <= Cardinality(P)
    BY <1>1, <1>2, FS_Surjection
<1>4. IsFiniteSet(M)
    BY NodeSetCardinality
<1>5. IsFiniteSet(M \cap Img) /\ Cardinality(M \cap Img) \in Nat
    BY <1>4, FS_Subset, FS_CardinalityType
<1>6. Cardinality(M \cup Img) = Cardinality(M) + Cardinality(Img) - Cardinality(M \cap Img)
    BY <1>3, <1>4, FS_Union
<1>7. Cardinality(M) \in Nat /\ Cardinality(Img) \in Nat /\ Cardinality(P) \in Nat
    BY <1>1, <1>3, <1>4, FS_CardinalityType
<1>8. QED
    BY <1>1, <1>3, <1>5, <1>6, <1>7

(* The sampling bound with the type invariant: the loop of lines 39-42     *)
(* never puts more than size nodes in my_nodes.                            *)
ExactInv == TypeInv /\ InitialSetExact

LEMMA ExactInvInit == Init => ExactInv
<1> SUFFICES ASSUME Init PROVE ExactInv
    OBVIOUS
<1>1. TypeInv
    BY TypeInvInit
<1>2. QED
    BY <1>1 DEF Init, ExactInv, InitialSetExact

LEMMA ExactInvStep == ExactInv /\ [Next]_vars => ExactInv'
<1> SUFFICES ASSUME ExactInv, [Next]_vars PROVE ExactInv'
    OBVIOUS
<1>0. TypeInv'
    BY TypeInvStep DEF ExactInv
<1> USE <1>0
<1>1. CASE StartTrial
    <2>1. my_nodes' = {} /\ pc' = "sample" /\ size' \in Nat
        BY <1>1 DEF StartTrial
    <2>2. QED
        BY <2>1, FS_EmptySet DEF ExactInv, InitialSetExact
<1>2. CASE SampleRound
    <2>1. PICK P \in SUBSET nodes_to_sample_from :
              /\ Cardinality(P) = size - Cardinality(my_nodes)
              /\ my_nodes' = my_nodes \cup {p[1] : p \in P}
        BY <1>2 DEF SampleRound
    <2>2. Cardinality(my_nodes') <= Cardinality(my_nodes) + Cardinality(P)
        <3>1. my_nodes \in SUBSET nodes
            BY DEF ExactInv, TypeInv, TypeOK
        <3>2. Cardinality(my_nodes \cup {p[1] : p \in P})
                  <= Cardinality(my_nodes) + Cardinality(P)
            BY <3>1, SampleAddsAtMost
        <3>3. QED
            BY <2>1, <3>2
    <2>3. Cardinality(my_nodes) \in Nat /\ size \in Nat
        BY NodeSetCardinality DEF ExactInv, TypeInv, TypeOK
    <2>4. Cardinality(my_nodes') <= size'
        BY <1>2, <2>1, <2>2, <2>3 DEF SampleRound
    <2>5. QED
        BY <1>2, <2>4 DEF SampleRound, ExactInv, InitialSetExact
<1>3. CASE EndSampling
    <2>1. Cardinality(my_nodes) \in Nat /\ size \in Nat
        BY NodeSetCardinality DEF ExactInv, TypeInv, TypeOK
    <2>2. QED
        BY <1>3, <2>1 DEF EndSampling, ExactInv, InitialSetExact
<1>4. CASE Iterate
    BY <1>4 DEF Iterate, ExactInv, InitialSetExact
<1>5. CASE FinishTrial
    BY <1>5 DEF FinishTrial, ExactInv, InitialSetExact
<1>6. CASE UNCHANGED vars
    BY <1>6 DEF vars, ExactInv, InitialSetExact
<1>7. QED
    BY <1>1, <1>2, <1>3, <1>4, <1>5, <1>6 DEF Next

(* For every N, group size, bucket width and weighting, the sampling loop  *)
(* hands the cascade exactly int(fraction * N) nodes (lines 39-42).        *)
THEOREM InitialSetExactness == Spec => []InitialSetExact
<1>1. Spec => []ExactInv
    BY ExactInvInit, ExactInvStep, PTL DEF Spec
<1>2. QED
    BY <1>1, PTL DEF ExactInv

-----------------------------------------------------------------------------
(* The refinement of CascadeFunction rests on both invariants: the cascade *)
(* invariant for the final size and the sampling bound for the initial one.*)
RInv == IInv /\ ExactInv

(* CascadeFunction's Cardinality is the one of FiniteSets.                  *)
LEMMA AbstractCardinality ==
    ASSUME NEW S
    PROVE  Abstract!Cardinality(S) = Cardinality(S)
BY DEF Abstract!Cardinality, Cardinality

(* Every step of the driver is a trial of the abstract specification or    *)
(* leaves count and results alone.                                         *)
LEMMA StepIsTrialOrStutter == RInv /\ [Next]_vars => [Abstract!Trial]_Abstract!vars
<1> SUFFICES ASSUME RInv, [Next]_vars PROVE [Abstract!Trial]_Abstract!vars
    OBVIOUS
<1>1. CASE FinishTrial
    <2>1. pc = "cascade" /\ Cardinality(my_nodes) = last_size
        BY <1>1 DEF FinishTrial
    <2>2. count < Trials
        BY <2>1 DEF RInv, IInv, TypeInv
    <2>3. my_nodes = LeastClosed(initial)
        BY <2>1, ExitIsFixedPoint DEF RInv, FixedPointReached
    <2>4. Cardinality(initial) = size /\ initial \in SUBSET nodes
        BY <2>1 DEF RInv, ExactInv, InitialSetExact, IInv, TypeInv, TypeOK
    <2>5. results' = Append(results, <<Cardinality(initial), Cardinality(LeastClosed(initial))>>)
        BY <1>1, <2>3, <2>4 DEF FinishTrial
    <2>6. \E I \in SUBSET nodes :
              results' = Append(results, <<Cardinality(I), Cardinality(LeastClosed(I))>>)
        BY <2>4, <2>5
    <2>7. count' = count + 1
        BY <1>1 DEF FinishTrial
    <2>8. Abstract!Trial
        BY <2>2, <2>6, <2>7, AbstractCardinality DEF Abstract!Trial, Abstract!nodes, nodes
    <2>9. QED
        BY <2>8
<1>2. CASE StartTrial \/ SampleRound \/ EndSampling \/ Iterate \/ UNCHANGED vars
    BY <1>2 DEF StartTrial, SampleRound, EndSampling, Iterate, vars, Abstract!vars
<1>3. QED
    BY <1>1, <1>2 DEF Next

(* For every graph size, group size, quorum and weighting, the driver      *)
(* implements the spec's trials: every recorded pair is the size of some   *)
(* initial set and the size of its least closed superset (lines 37-61).    *)
THEOREM CascadeRefinement == Spec => ImplementsCascadeFunction
<1>1. Init => RInv
    BY IInvInit, ExactInvInit DEF RInv
<1>2. RInv /\ [Next]_vars => RInv'
    BY IInvStep, ExactInvStep DEF RInv
<1>3. Init => Abstract!Init
    BY DEF Init, Abstract!Init
<1>4. QED
    BY <1>1, <1>2, <1>3, StepIsTrialOrStutter, PTL
       DEF Spec, ImplementsCascadeFunction, Abstract!Spec

=============================================================================
