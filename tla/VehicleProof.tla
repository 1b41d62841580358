-------------------------------- MODULE VehicleProof --------------------------
(***************************************************************************)
(* The path of a decision from the trained forest to the report of the     *)
(* board, for every forest, every sample and every size.                   *)
(*                                                                         *)
(* What traverse_tree and aggregate_predictions compute, for every forest. *)
(* Both are recursive functions.  The prover has no induction over an      *)
(* arbitrary predicate, so induction is done here with sets: a set that    *)
(* holds 0 and the successor of each of its numbers holds all of them.     *)
(*                                                                         *)
(* The exported forest makes the decisions of the trained one, and not     *)
(* only for the test samples with which the script compares the two; and   *)
(* the invariant of main: what it has written is the forest it was given,  *)
(* its own simulation is the engine, and so its verdict is right.          *)
(*                                                                         *)
(* The engine in any environment implements the classifier, for every      *)
(* number and depth of trees and every contents of the memories.           *)
(*                                                                         *)
(* The whole system is safe, for every forest, every set of samples, every *)
(* length of the reset and every duration of the instructions between two  *)
(* accesses.                                                               *)
(***************************************************************************)
EXTENDS VehicleSoC, RandomForestHistory, ExportScript, FiniteSetTheorems,
        WellFoundedInduction, TLAPS

-------------------------------------------------------------------------------
(* Induction. *)

LessThan == { p \in Nat \X Nat : p[1] < p[2] }

\* The order of the natural numbers is well-founded.
LEMMA LessThanWellFounded == IsWellFoundedOn(LessThan, Nat)
<1>1. LessThan = OpToRel(<, Nat)
  BY DEF LessThan, OpToRel
<1> QED
  BY <1>1, NatLessThanWellFounded

\* Induction: the least number missing from T would have a predecessor in T.
LEMMA SetInduction ==
  ASSUME NEW T, 0 \in T, \A n \in Nat : n \in T => n + 1 \in T
  PROVE  Nat \subseteq T
<1> DEFINE Missing == Nat \ T
<1> SUFFICES ASSUME Missing # {} PROVE FALSE
  OBVIOUS
<1>1. PICK x \in Missing : \A y \in Missing : <<y, x>> \notin LessThan
  BY LessThanWellFounded, WFMin
<1>2. x \in Nat /\ x # 0 /\ x \notin T
  OBVIOUS
<1>3. x - 1 \in Nat /\ x - 1 + 1 = x
  BY <1>2
<1>4. x - 1 \notin T
  BY <1>2, <1>3
<1>5. <<x - 1, x>> \in LessThan
  BY <1>2, <1>3 DEF LessThan
<1> QED
  BY <1>1, <1>3, <1>4, <1>5

\* g is the sequence of N + 1 values in S that begins with first and goes on
\* with step.
IsSequence(g, N, S, first, step) ==
    /\ g \in [0 .. N -> S]
    /\ g[0] = first
    /\ \A d \in 1 .. N : g[d] = step[d][g[d - 1]]

\* There is such a sequence: the recursive definition defines something.
LEMMA RecursiveSequence ==
  ASSUME NEW N \in Nat, NEW S, NEW first \in S, NEW step \in [Nat -> [S -> S]]
  PROVE  \E g : IsSequence(g, N, S, first, step)
<1> DEFINE Step(g, n) == /\ g[0] = first
                         /\ \A d \in 1 .. n : g[d] = step[d][g[d - 1]]
           Good == { n \in Nat : \E g \in [0 .. n -> S] : Step(g, n) }
<1>1. 0 \in Good
  <2>1. Step([d \in 0 .. 0 |-> first], 0)
    OBVIOUS
  <2> QED
    BY <2>1
<1>2. ASSUME NEW n \in Nat, n \in Good
      PROVE  n + 1 \in Good
  <2>1. PICK g \in [0 .. n -> S] : Step(g, n)
    BY <1>2
  <2> DEFINE h == [d \in 0 .. n + 1 |-> IF d \in 0 .. n THEN g[d]
                                        ELSE step[d][g[n]]]
  <2>2. h \in [0 .. n + 1 -> S]
    <3> SUFFICES ASSUME NEW d \in 0 .. n + 1
                 PROVE  (IF d \in 0 .. n THEN g[d] ELSE step[d][g[n]]) \in S
      OBVIOUS
    <3>1. g[n] \in S
      OBVIOUS
    <3>2. step[d] \in [S -> S]
      OBVIOUS
    <3> QED
      BY <3>1, <3>2
  <2>3. ASSUME NEW d \in 1 .. n + 1
        PROVE  h[d] = step[d][h[d - 1]]
    <3>1. CASE d \in 1 .. n
      <4>1. h[d] = g[d] /\ h[d - 1] = g[d - 1]
        BY <3>1
      <4> QED
        BY <4>1, <3>1, <2>1
    <3>2. CASE d = n + 1
      <4>1. h[d] = step[d][g[n]] /\ h[d - 1] = g[n]
        BY <3>2
      <4> QED
        BY <4>1
    <3> QED
      BY <3>1, <3>2
  <2>4. h[0] = first
    BY <2>1
  <2>5. Step(h, n + 1)
    <3> HIDE DEF h
    <3> QED
      BY <2>3, <2>4
  <2>6. n + 1 \in Nat
    OBVIOUS
  <2> HIDE DEF h, Step
  <2> QED
    BY <2>2, <2>5, <2>6
<1>3. N \in Good
  <2> HIDE DEF Good
  <2> QED
    BY <1>1, <1>2, SetInduction
<1> QED
  BY <1>3 DEF IsSequence

-------------------------------------------------------------------------------
(* The vote. *)

\* A class has no more votes than there are trees.
LEMMA VotesType ==
  ASSUME NEW p, NEW c
  PROVE  Votes(p, c) \in Nat
<1>1. IsFiniteSet(Trees)
  BY FS_Interval, ForestAssumption DEF Trees
<1> QED
  BY <1>1, FS_Subset, FS_CardinalityType DEF Votes

\* The recursive definition of the count has the values it says.
LEMMA CountRecursion ==
  ASSUME NEW p
  PROVE  /\ Count(p)[0] = [max_votes |-> 0, max_class |-> 0]
         /\ \A i \in 1 .. CLASS_COUNT :
               Count(p)[i] = IF Votes(p, i - 1) > Count(p)[i - 1].max_votes
                             THEN [max_votes |-> Votes(p, i - 1),
                                   max_class |-> i - 1]
                             ELSE Count(p)[i - 1]
<1> DEFINE S == [max_votes : Nat, max_class : Int]
           zero == [max_votes |-> 0, max_class |-> 0]
           next(i, b) == IF Votes(p, i - 1) > b.max_votes
                         THEN [max_votes |-> Votes(p, i - 1), max_class |-> i - 1]
                         ELSE b
           step == [i \in Nat |-> [b \in S |-> next(i, b)]]
           body(g) == [i \in 0 .. CLASS_COUNT |->
                          IF i = 0 THEN zero ELSE next(i, g[i - 1])]
<1>0. CLASS_COUNT \in Nat
  BY ForestAssumption
<1>1. step \in [Nat -> [S -> S]]
  <2> SUFFICES ASSUME NEW i \in Nat, NEW b \in S
               PROVE  next(i, b) \in S
    BY Zenon
  <2> QED
    BY VotesType
<1>2. PICK g : IsSequence(g, CLASS_COUNT, S, zero, step)
  <2>1. zero \in S
    OBVIOUS
  <2> HIDE DEF step, S, zero
  <2> QED
    BY <1>0, <1>1, <2>1, RecursiveSequence
<1>3. \A i \in 1 .. CLASS_COUNT : g[i] = next(i, g[i - 1])
  <2> SUFFICES ASSUME NEW i \in 1 .. CLASS_COUNT
               PROVE  g[i] = next(i, g[i - 1])
    OBVIOUS
  <2>1. i \in Nat /\ g[i - 1] \in S
    BY <1>0, <1>2 DEF IsSequence
  <2>2. step[i][g[i - 1]] = next(i, g[i - 1])
    BY <2>1
  <2> QED
    BY <1>2, <2>2 DEF IsSequence
<1>4. g = body(g)
  <2> HIDE DEF next, S
  <2> QED
    BY <1>0, <1>2, <1>3 DEF IsSequence
<1>5. Count(p) = CHOOSE b : b = body(b)
  BY DEF Count
<1>6. Count(p) = body(Count(p))
  <2> HIDE DEF body
  <2> QED
    BY <1>4, <1>5
<1>7. Count(p)[0] = zero
  BY <1>0, <1>6
<1>8. \A i \in 1 .. CLASS_COUNT : Count(p)[i] = next(i, Count(p)[i - 1])
  <2> HIDE DEF next
  <2> QED
    BY <1>0, <1>6
<1> QED
  BY <1>7, <1>8

\* The vote elects the lowest of the classes with the most votes, whatever the
\* trees say: function aggregate_predictions.
THEOREM VoteElectsPlurality ==
  ASSUME NEW p
  PROVE  IsPlurality(p, aggregate_predictions(p))
<1> DEFINE Elected(i) ==
             LET b == Count(p)[i] IN
             /\ b.max_votes \in Nat
             /\ b.max_class \in 0 .. CLASS_COUNT - 1
             /\ \A c \in 0 .. i - 1 : Votes(p, c) <= b.max_votes
             /\ \/ b.max_votes = 0 /\ b.max_class = 0
                \/ /\ b.max_votes = Votes(p, b.max_class)
                   /\ \A c \in 0 .. b.max_class - 1 : Votes(p, c) < b.max_votes
           T == { i \in Nat : i <= CLASS_COUNT => Elected(i) }
<1>0. CLASS_COUNT \in Nat \ {0}
  BY ForestAssumption
<1>1. 0 \in T
  BY <1>0, CountRecursion
<1>2. ASSUME NEW n \in Nat, n \in T
      PROVE  n + 1 \in T
  <2> SUFFICES ASSUME n + 1 <= CLASS_COUNT
               PROVE  Elected(n + 1)
    BY <1>0
  <2> DEFINE b == Count(p)[n]
             v == Votes(p, n)
  <2>1. Elected(n)
    BY <1>0, <1>2
  <2>2. n + 1 \in 1 .. CLASS_COUNT /\ n + 1 - 1 = n
    BY <1>0
  <2>3. Count(p)[n + 1] = IF v > b.max_votes
                          THEN [max_votes |-> v, max_class |-> n] ELSE b
    BY <2>2, CountRecursion
  <2>4. v \in Nat
    BY VotesType
  <2>5. CASE v > b.max_votes
    <3>1. /\ Count(p)[n + 1].max_votes = v
          /\ Count(p)[n + 1].max_class = n
      BY <2>3, <2>5
    <3>2. \A c \in 0 .. n - 1 : Votes(p, c) < v
      BY <2>1, <2>4, <2>5, VotesType
    <3> QED
      BY <1>0, <2>4, <3>1, <3>2, VotesType
  <2>6. CASE ~(v > b.max_votes)
    <3>1. Count(p)[n + 1] = b
      BY <2>3, <2>6
    <3>2. v <= b.max_votes
      BY <2>1, <2>4, <2>6
    <3>3. \A c \in 0 .. n : Votes(p, c) <= b.max_votes
      BY <2>1, <3>2
    <3> QED
      BY <2>1, <3>1, <3>3
  <2> QED
    BY <2>5, <2>6
<1>3. Elected(CLASS_COUNT)
  <2> HIDE DEF Elected
  <2>1. CLASS_COUNT \in T
    BY <1>0, <1>1, <1>2, SetInduction
  <2> QED
    BY <1>0, <2>1
<1> QED
  BY <1>0, <1>3, VotesType DEF IsPlurality, aggregate_predictions

-------------------------------------------------------------------------------
(* The walk. *)

\* The recursive definition of the walk has the values it says.
LEMMA WalkRecursion ==
  ASSUME NEW memory, NEW bank, NEW t
  PROVE  Walk(memory, bank, t) =
            [d \in 0 .. DEPTH |->
                IF d = 0 THEN {0}
                ELSE NextLevel(memory, bank, t, Walk(memory, bank, t)[d - 1])]
<1> DEFINE S == SUBSET Nat
           next(l) == NextLevel(memory, bank, t, l)
           step == [d \in Nat |-> [l \in S |-> next(l)]]
           body(g) == [d \in 0 .. DEPTH |-> IF d = 0 THEN {0} ELSE next(g[d - 1])]
<1>0. DEPTH \in Nat
  BY ForestAssumption
<1>1. ASSUME NEW l \in S
      PROVE  next(l) \in S
  <2>1. ASSUME NEW n \in Nat
        PROVE  Children(bank, memory[t * NODES_PER_TREE + n], n) \subseteq Nat
    BY DEF Children
  <2> QED
    BY <2>1 DEF NextLevel
<1>2. step \in [Nat -> [S -> S]]
  <2> HIDE DEF next, S
  <2> QED
    BY <1>1
<1>3. PICK g : IsSequence(g, DEPTH, S, {0}, step)
  <2>1. {0} \in S
    OBVIOUS
  <2> HIDE DEF step, S
  <2> QED
    BY <1>0, <1>2, <2>1, RecursiveSequence
<1>4. \A d \in 1 .. DEPTH : g[d] = next(g[d - 1])
  <2> HIDE DEF next, S
  <2> SUFFICES ASSUME NEW d \in 1 .. DEPTH
               PROVE  g[d] = next(g[d - 1])
    OBVIOUS
  <2>1. d \in Nat /\ g[d - 1] \in S
    BY <1>0, <1>3 DEF IsSequence
  <2>2. step[d][g[d - 1]] = next(g[d - 1])
    BY <2>1
  <2> QED
    BY <1>3, <2>2 DEF IsSequence
<1>5. g = body(g)
  <2> HIDE DEF next, S
  <2> QED
    BY <1>0, <1>3, <1>4 DEF IsSequence
<1>6. Walk(memory, bank, t) = CHOOSE l : l = body(l)
  BY DEF Walk
<1>7. Walk(memory, bank, t) = body(Walk(memory, bank, t))
  <2> HIDE DEF body
  <2> QED
    BY <1>5, <1>6
<1> QED
  BY <1>7

LEMMA WalkFirst ==
  ASSUME NEW memory, NEW bank, NEW t
  PROVE  Walk(memory, bank, t)[0] = {0}
<1> DEFINE W == Walk(memory, bank, t)
<1>1. 0 \in 0 .. DEPTH
  BY ForestAssumption
<1>2. W = [i \in 0 .. DEPTH |->
              IF i = 0 THEN {0} ELSE NextLevel(memory, bank, t, W[i - 1])]
  BY WalkRecursion
<1> HIDE DEF W
<1>3. W[0] = {0}
  BY <1>1, <1>2
<1> QED
  BY <1>3 DEF W

LEMMA WalkStep ==
  ASSUME NEW memory, NEW bank, NEW t, NEW d \in 1 .. DEPTH
  PROVE  Walk(memory, bank, t)[d] =
            NextLevel(memory, bank, t, Walk(memory, bank, t)[d - 1])
<1> DEFINE W == Walk(memory, bank, t)
<1>1. d # 0 /\ d \in 0 .. DEPTH
  BY ForestAssumption
<1>2. W = [i \in 0 .. DEPTH |->
              IF i = 0 THEN {0} ELSE NextLevel(memory, bank, t, W[i - 1])]
  BY WalkRecursion
<1> HIDE DEF W
<1>3. W[d] = NextLevel(memory, bank, t, W[d - 1])
  BY <1>1, <1>2
<1> QED
  BY <1>3 DEF W

\* The levels of the heap grow, and the last one ends within the tree.
LEMMA LastNodeRecursion ==
  /\ LastNode \in [0 .. DEPTH -> Nat]
  /\ LastNode[0] = 0
  /\ \A d \in 1 .. DEPTH : LastNode[d] = 2 * LastNode[d - 1] + 2
  /\ \A d \in 0 .. DEPTH : LastNode[d] < NODES_PER_TREE
<1> DEFINE step == [d \in Nat |-> [l \in Nat |-> 2 * l + 2]]
           body(g) == [d \in 0 .. DEPTH |-> IF d = 0 THEN 0 ELSE 2 * g[d - 1] + 2]
<1>0. DEPTH \in Nat /\ NODES_PER_TREE \in Nat
  BY ForestAssumption
<1>1. PICK g : IsSequence(g, DEPTH, Nat, 0, step)
  <2>1. step \in [Nat -> [Nat -> Nat]]
    OBVIOUS
  <2> HIDE DEF step
  <2> QED
    BY <1>0, <2>1, RecursiveSequence
<1>2. \A d \in 1 .. DEPTH : g[d] = 2 * g[d - 1] + 2
  <2> SUFFICES ASSUME NEW d \in 1 .. DEPTH
               PROVE  g[d] = 2 * g[d - 1] + 2
    OBVIOUS
  <2>1. d \in Nat /\ g[d - 1] \in Nat
    BY <1>0, <1>1 DEF IsSequence
  <2> QED
    BY <1>1, <2>1 DEF IsSequence
<1>3. g = body(g)
  BY <1>0, <1>1, <1>2 DEF IsSequence
<1>4. LastNode = CHOOSE l : l = body(l)
  BY DEF LastNode
<1>5. LastNode = body(LastNode)
  <2> HIDE DEF body
  <2> QED
    BY <1>3, <1>4
<1>6. LastNode[0] = 0
  BY <1>0, <1>5
<1>7. \A d \in 1 .. DEPTH : LastNode[d] = 2 * LastNode[d - 1] + 2
  BY <1>0, <1>5
<1>8. ASSUME NEW d \in 0 .. DEPTH
      PROVE  LastNode[d] \in Nat
  <2> DEFINE T == { i \in Nat : i <= DEPTH => LastNode[i] \in Nat }
  <2>1. 0 \in T
    BY <1>6
  <2>2. ASSUME NEW i \in Nat, i \in T
        PROVE  i + 1 \in T
    BY <1>0, <1>7, <2>2
  <2> HIDE DEF T
  <2>3. d \in T
    BY <1>0, <2>1, <2>2, SetInduction
  <2> QED
    BY <1>0, <2>3 DEF T
<1>9. LastNode \in [0 .. DEPTH -> Nat]
  <2>1. LastNode = [d \in 0 .. DEPTH |-> LastNode[d]]
    BY <1>5
  <2> QED
    BY <1>8, <2>1
<1>10. ASSUME NEW d \in 0 .. DEPTH
       PROVE  LastNode[d] < NODES_PER_TREE
  <2> DEFINE T == { i \in Nat : i <= DEPTH => LastNode[DEPTH - i] < NODES_PER_TREE }
  <2>1. 0 \in T
    BY <1>0, HeapAssumption
  <2>2. ASSUME NEW i \in Nat, i \in T
        PROVE  i + 1 \in T
    <3> SUFFICES ASSUME i + 1 <= DEPTH
                 PROVE  LastNode[DEPTH - (i + 1)] < NODES_PER_TREE
      OBVIOUS
    <3>1. LastNode[DEPTH - i] < NODES_PER_TREE
      BY <1>0, <2>2
    <3>2. DEPTH - i \in 1 .. DEPTH /\ DEPTH - i - 1 = DEPTH - (i + 1)
      BY <1>0
    <3>3. LastNode[DEPTH - i] = 2 * LastNode[DEPTH - (i + 1)] + 2
      BY <1>7, <3>2
    <3>4. LastNode[DEPTH - (i + 1)] \in Nat
      BY <1>8, <1>0
    <3> QED
      BY <1>0, <3>1, <3>3, <3>4
  <2> HIDE DEF T
  <2>3. DEPTH - d \in T
    BY <1>0, <2>1, <2>2, SetInduction
  <2>4. DEPTH - d \in Nat /\ DEPTH - d <= DEPTH /\ DEPTH - (DEPTH - d) = d
    BY <1>0
  <2> QED
    BY <2>3, <2>4 DEF T
<1> QED
  BY <1>6, <1>7, <1>9, <1>10

\* A comparison leads somewhere, and at most two nodes past twice the number.
LEMMA ChildrenRange ==
  ASSUME NEW bank \in FeatureBank, NEW node, NEW n \in Nat
  PROVE  /\ Children(bank, node, n) # {}
         /\ Children(bank, node, n) \subseteq {2 * n + 1, 2 * n + 2}
<1>1. FeatureRead(bank, node.feature_idx) # {}
  BY ForestAssumption DEF FeatureRead
<1> QED
  BY <1>1 DEF Children

\* Every level of the walk is reached, and lies within its level of the heap.
LEMMA WalkRange ==
  ASSUME NEW memory, NEW bank \in FeatureBank, NEW t, NEW d \in 0 .. DEPTH
  PROVE  /\ Walk(memory, bank, t)[d] # {}
         /\ Walk(memory, bank, t)[d] \subseteq 0 .. LastNode[d]
<1> DEFINE W == Walk(memory, bank, t)
           InRange(i) == W[i] # {} /\ W[i] \subseteq 0 .. LastNode[i]
           T == { i \in Nat : i <= DEPTH => InRange(i) }
           next(n) == Children(bank, memory[t * NODES_PER_TREE + n], n)
<1>0. DEPTH \in Nat
  BY ForestAssumption
<1>a. W[0] = {0}
  BY WalkFirst
<1>b. \A i \in 1 .. DEPTH : W[i] = NextLevel(memory, bank, t, W[i - 1])
  BY WalkStep
<1>1. 0 \in T
  <2>1. LastNode[0] = 0
    BY LastNodeRecursion
  <2> HIDE DEF W
  <2> QED
    BY <1>a, <2>1
<1>2. ASSUME NEW i \in Nat, i \in T
      PROVE  i + 1 \in T
  <2> SUFFICES ASSUME i + 1 <= DEPTH
               PROVE  InRange(i + 1)
    OBVIOUS
  <2>1. i + 1 \in 1 .. DEPTH /\ i \in 0 .. DEPTH /\ i + 1 - 1 = i
    BY <1>0
  <2>2. W[i + 1] = UNION { next(n) : n \in W[i] }
    <3> HIDE DEF W
    <3> QED
      BY <1>b, <2>1 DEF NextLevel
  <2>3. LastNode[i] \in Nat /\ LastNode[i + 1] = 2 * LastNode[i] + 2
    BY <2>1, LastNodeRecursion
  <2>4. W[i] # {} /\ W[i] \subseteq 0 .. LastNode[i]
    BY <1>0, <1>2, <2>1
  <2>5. ASSUME NEW n \in W[i]
        PROVE  next(n) # {} /\ next(n) \subseteq 0 .. LastNode[i + 1]
    <3>1. n \in Nat /\ n <= LastNode[i]
      BY <2>3, <2>4
    <3>2. next(n) # {} /\ next(n) \subseteq {2 * n + 1, 2 * n + 2}
      BY <3>1, ChildrenRange
    <3> HIDE DEF next
    <3> QED
      BY <2>3, <3>1, <3>2
  <2> HIDE DEF W, next
  <2> QED
    BY <2>2, <2>4, <2>5
<1>3. d \in T
  <2> HIDE DEF T
  <2> QED
    BY <1>0, <1>1, <1>2, SetInduction
<1> QED
  BY <1>0, <1>3

\* A node number within a tree is an address of the memory.
LEMMA NodeAddress ==
  ASSUME NEW t \in Trees, NEW n \in 0 .. NODES_PER_TREE - 1
  PROVE  t * NODES_PER_TREE + n \in Address
<1>1. /\ TREE_COUNT \in Nat /\ NODES_PER_TREE \in Nat
      /\ t \in Nat /\ t + 1 <= TREE_COUNT
  BY ForestAssumption DEF Trees
<1>2. (t + 1) * NODES_PER_TREE <= TREE_COUNT * NODES_PER_TREE
  BY <1>1
<1>3. (t + 1) * NODES_PER_TREE = t * NODES_PER_TREE + NODES_PER_TREE
  BY <1>1
<1>4. t * NODES_PER_TREE \in Nat /\ TREE_COUNT * NODES_PER_TREE \in Nat
  BY <1>1
<1> QED
  BY <1>1, <1>2, <1>3, <1>4 DEF Address

\* The walk down a tree stays in the words of this tree.
LEMMA WalkAddress ==
  ASSUME NEW memory, NEW bank \in FeatureBank, NEW t \in Trees,
         NEW d \in 0 .. DEPTH, NEW n \in Walk(memory, bank, t)[d]
  PROVE  n \in Nat /\ t * NODES_PER_TREE + n \in Address
<1>1. n \in 0 .. LastNode[d]
  BY WalkRange
<1>2. LastNode[d] \in Nat /\ LastNode[d] < NODES_PER_TREE /\ NODES_PER_TREE \in Nat
  BY LastNodeRecursion, ForestAssumption
<1>3. n \in 0 .. NODES_PER_TREE - 1
  BY <1>1, <1>2
<1> QED
  BY <1>3, NodeAddress

\* Whatever words are in the memory, task traverse_tree ends within the words of
\* its tree and returns a class.
THEOREM TraverseReturnsClass ==
  ASSUME NEW memory \in Forest, NEW bank \in FeatureBank, NEW t \in Trees
  PROVE  /\ traverse_tree(memory, bank, t) # {}
         /\ traverse_tree(memory, bank, t) \subseteq Class
<1>1. DEPTH \in 0 .. DEPTH
  BY ForestAssumption
<1>2. Walk(memory, bank, t)[DEPTH] # {}
  BY <1>1, WalkRange
<1>3. ASSUME NEW n \in Walk(memory, bank, t)[DEPTH]
      PROVE  memory[t * NODES_PER_TREE + n].class \in Class
  BY <1>1, WalkAddress DEF Forest, Node
<1> QED
  BY <1>2, <1>3 DEF traverse_tree

\* When no node names a missing register every walk has one outcome: the RTL has
\* no undefined behaviour on a well-formed forest.
THEOREM TraverseIsDeterministic ==
  ASSUME NEW memory \in Forest, WellFormed(memory),
         NEW bank \in FeatureBank, NEW t \in Trees
  PROVE  \E c \in Class : traverse_tree(memory, bank, t) = {c}
<1> DEFINE W == Walk(memory, bank, t)
           Single(i) == \E n : W[i] = {n}
           T == { i \in Nat : i <= DEPTH => Single(i) }
<1>0. DEPTH \in Nat
  BY ForestAssumption
<1>a. W[0] = {0}
  BY WalkFirst
<1>1. 0 \in T
  BY <1>a
<1>2. ASSUME NEW i \in Nat, i \in T
      PROVE  i + 1 \in T
  <2> SUFFICES ASSUME i + 1 <= DEPTH
               PROVE  Single(i + 1)
    OBVIOUS
  <2>1. i + 1 \in 1 .. DEPTH /\ i \in 0 .. DEPTH /\ i + 1 - 1 = i /\ i <= DEPTH
    BY <1>0
  <2>2. PICK n : W[i] = {n}
    BY <1>2, <2>1
  <2>3. n \in Nat /\ t * NODES_PER_TREE + n \in Address
    BY <2>1, <2>2, WalkAddress
  <2> DEFINE node == memory[t * NODES_PER_TREE + n]
  <2>4. node.feature_idx \in Slot
    BY <2>3 DEF WellFormed
  <2>5. PICK m : Children(bank, node, n) = {m}
    BY <2>4 DEF Children, FeatureRead
  <2>6. W[i + 1] = NextLevel(memory, bank, t, W[i])
    BY <2>1, WalkStep
  <2> HIDE DEF W
  <2>7. W[i + 1] = UNION { Children(bank, memory[t * NODES_PER_TREE + k], k) : k \in {n} }
    BY <2>2, <2>6 DEF NextLevel
  <2>8. W[i + 1] = {m}
    BY <2>5, <2>7
  <2> QED
    BY <2>8
<1>3. DEPTH \in T
  <2> HIDE DEF T
  <2> QED
    BY <1>0, <1>1, <1>2, SetInduction
<1>4. PICK n : W[DEPTH] = {n}
  BY <1>0, <1>3
<1>5. traverse_tree(memory, bank, t) = { memory[t * NODES_PER_TREE + n].class }
  BY <1>4 DEF traverse_tree
<1> QED
  BY <1>5, TraverseReturnsClass

-------------------------------------------------------------------------------
(* The answer. *)

\* For any memory contents there is an answer, and result can hold it.
LEMMA ClassifyType ==
  ASSUME NEW memory \in Forest, NEW bank \in FeatureBank
  PROVE  /\ Classify(memory, bank) # {}
         /\ Classify(memory, bank) \subseteq Results
<1> DEFINE p == [t \in Trees |-> CHOOSE c : c \in traverse_tree(memory, bank, t)]
<1>1. ASSUME NEW t \in Trees
      PROVE  p[t] \in traverse_tree(memory, bank, t) /\ p[t] \in Class
  BY TraverseReturnsClass
<1>2. p \in TreePredictions(memory, bank)
  BY <1>1 DEF TreePredictions
<1>3. TreePredictions(memory, bank) \subseteq [Trees -> Class]
  BY DEF TreePredictions
<1> QED
  BY <1>2, <1>3 DEF Classify, Results

\* On a well-formed forest there is one answer.
THEOREM OneAnswer ==
  ASSUME NEW memory \in Forest, WellFormed(memory), NEW bank \in FeatureBank
  PROVE  \E c \in Results : Classify(memory, bank) = {c}
<1>1. \A t \in Trees : \E c \in Class : traverse_tree(memory, bank, t) = {c}
  BY TraverseIsDeterministic
<1> DEFINE p == [t \in Trees |-> CHOOSE c \in Class :
                                    traverse_tree(memory, bank, t) = {c}]
<1>2. ASSUME NEW t \in Trees
      PROVE  p[t] \in Class /\ traverse_tree(memory, bank, t) = {p[t]}
  BY <1>1
<1>3. p \in [Trees -> Class]
  BY <1>2
<1>4. TreePredictions(memory, bank) = {p}
  <2> HIDE DEF p
  <2>1. ASSUME NEW q \in TreePredictions(memory, bank)
        PROVE  q = p
    <3>1. q \in [Trees -> Class] /\ \A t \in Trees : q[t] = p[t]
      BY <1>2 DEF TreePredictions
    <3> QED
      BY <1>3, <3>1
  <2>2. p \in TreePredictions(memory, bank)
    BY <1>2, <1>3 DEF TreePredictions
  <2> QED
    BY <2>1, <2>2
<1>5. Classify(memory, bank) = {aggregate_predictions(p)}
  <2> HIDE DEF p
  <2> QED
    BY <1>4 DEF Classify
<1> QED
  BY <1>5, ClassifyType

-------------------------------------------------------------------------------
(* The export of the trained forest. *)

(* Recursion over the heap. *)

\* g assigns a value of S to every position of a heap of N + 1: first to the
\* root, and to any other what step makes of the value of its parent.
IsHeap(g, N, S, first, step) ==
    /\ g \in [0 .. N -> S]
    /\ g[0] = first
    /\ \A h \in 1 .. N : g[h] = step[h][g[(h - 1) \div 2]]

LEMMA RecursiveHeap ==
  ASSUME NEW N \in Nat, NEW S, NEW first \in S, NEW step \in [Nat -> [S -> S]]
  PROVE  \E g : IsHeap(g, N, S, first, step)
<1> DEFINE Step(g, n) == /\ g[0] = first
                         /\ \A h \in 1 .. n : g[h] = step[h][g[(h - 1) \div 2]]
           Good == { n \in Nat : \E g \in [0 .. n -> S] : Step(g, n) }
<1>1. 0 \in Good
  <2>1. Step([h \in 0 .. 0 |-> first], 0)
    OBVIOUS
  <2> QED
    BY <2>1
<1>2. ASSUME NEW n \in Nat, n \in Good
      PROVE  n + 1 \in Good
  <2>1. PICK g \in [0 .. n -> S] : Step(g, n)
    BY <1>2
  <2>a. n \div 2 \in 0 .. n
    OBVIOUS
  <2> DEFINE k == [h \in 0 .. n + 1 |-> IF h \in 0 .. n THEN g[h]
                                        ELSE step[h][g[n \div 2]]]
  <2>2. k \in [0 .. n + 1 -> S]
    <3> SUFFICES ASSUME NEW h \in 0 .. n + 1
                 PROVE  (IF h \in 0 .. n THEN g[h] ELSE step[h][g[n \div 2]]) \in S
      OBVIOUS
    <3>1. g[n \div 2] \in S
      BY <2>a
    <3>2. step[h] \in [S -> S]
      OBVIOUS
    <3> QED
      BY <3>1, <3>2
  <2>3. ASSUME NEW h \in 1 .. n + 1
        PROVE  k[h] = step[h][k[(h - 1) \div 2]]
    <3>0. (h - 1) \div 2 \in 0 .. n
      OBVIOUS
    <3>1. CASE h \in 1 .. n
      <4>1. k[h] = g[h] /\ k[(h - 1) \div 2] = g[(h - 1) \div 2]
        BY <3>0, <3>1
      <4> QED
        BY <4>1, <3>1, <2>1
    <3>2. CASE h = n + 1
      <4>1. (h - 1) \div 2 = n \div 2
        BY <3>2
      <4>2. k[h] = step[h][g[n \div 2]] /\ k[n \div 2] = g[n \div 2]
        BY <3>2, <2>a
      <4> QED
        BY <4>1, <4>2
    <3> QED
      BY <3>1, <3>2
  <2>4. k[0] = first
    BY <2>1
  <2>5. Step(k, n + 1)
    <3> HIDE DEF k
    <3> QED
      BY <2>3, <2>4
  <2>6. n + 1 \in Nat
    OBVIOUS
  <2> HIDE DEF k, Step
  <2> QED
    BY <2>2, <2>5, <2>6
<1>3. N \in Good
  <2> HIDE DEF Good
  <2> QED
    BY <1>1, <1>2, SetInduction
<1> QED
  BY <1>3 DEF IsHeap

-------------------------------------------------------------------------------
(* The recursive definitions have the values they say. *)

\* A child of a source node is a source node.
LEMMA ChildIsNode ==
  ASSUME NEW tree, IsSourceTree(tree), NEW n \in SourceNodes(tree), ~is_leaf(tree, n)
  PROVE  /\ tree.children_left[n] \in SourceNodes(tree)
         /\ tree.children_right[n] \in SourceNodes(tree)
BY DEF IsSourceTree, is_leaf

\* The node exported at position h, given that at its parent.
Below(tree, h, n) ==
    IF is_leaf(tree, n) THEN n
    ELSE IF h % 2 = 1 THEN tree.children_left[n]
    ELSE tree.children_right[n]

LEMMA HeapSourceRecursion ==
  ASSUME NEW tree, IsSourceTree(tree)
  PROVE  /\ HeapSource(tree) \in [0 .. NODES_PER_TREE - 1 -> SourceNodes(tree)]
         /\ HeapSource(tree)[0] = 0
         /\ \A h \in 1 .. NODES_PER_TREE - 1 :
               HeapSource(tree)[h] = Below(tree, h, HeapSource(tree)[(h - 1) \div 2])
<1> DEFINE S == SourceNodes(tree)
           N == NODES_PER_TREE - 1
           step == [h \in Nat |-> [n \in S |-> Below(tree, h, n)]]
           body(g) == [h \in 0 .. N |->
                          IF h = 0 THEN 0 ELSE Below(tree, h, g[(h - 1) \div 2])]
<1>0. N \in Nat /\ 0 \in S
  BY ForestAssumption DEF IsSourceTree
<1>1. step \in [Nat -> [S -> S]]
  <2> SUFFICES ASSUME NEW h \in Nat, NEW n \in S
               PROVE  Below(tree, h, n) \in S
    BY Zenon
  <2> QED
    BY ChildIsNode DEF Below
<1>2. PICK g : IsHeap(g, N, S, 0, step)
  <2> HIDE DEF step, S, N
  <2> QED
    BY <1>0, <1>1, RecursiveHeap
<1>3. \A h \in 1 .. N : (h - 1) \div 2 \in 0 .. N
  BY <1>0
<1>4. \A h \in 1 .. N : g[h] = Below(tree, h, g[(h - 1) \div 2])
  <2> HIDE DEF S, N
  <2> SUFFICES ASSUME NEW h \in 1 .. N
               PROVE  g[h] = Below(tree, h, g[(h - 1) \div 2])
    OBVIOUS
  <2>1. h \in Nat /\ g[(h - 1) \div 2] \in S
    BY <1>0, <1>2, <1>3 DEF IsHeap
  <2>2. step[h][g[(h - 1) \div 2]] = Below(tree, h, g[(h - 1) \div 2])
    BY <2>1
  <2> QED
    BY <1>2, <2>2 DEF IsHeap
<1>5. g = body(g)
  <2> HIDE DEF N, S
  <2> QED
    BY <1>0, <1>2, <1>4 DEF IsHeap
<1>6. HeapSource(tree) = CHOOSE f : f = body(f)
  BY DEF HeapSource, Below
<1>7. HeapSource(tree) = body(HeapSource(tree))
  <2> HIDE DEF body
  <2> QED
    BY <1>5, <1>6
<1>8. HeapSource(tree)[0] = 0
  BY <1>0, <1>7
<1>9. \A h \in 1 .. N :
          HeapSource(tree)[h] = Below(tree, h, HeapSource(tree)[(h - 1) \div 2])
  <2> HIDE DEF N
  <2> QED
    BY <1>0, <1>7
<1> QED
  <2> DEFINE H == HeapSource(tree)
             T == { n \in Nat : n <= N => \A h \in 0 .. n : H[h] \in S }
  <2>1. 0 \in T
    BY <1>0, <1>8
  <2>2. ASSUME NEW n \in Nat, n \in T
        PROVE  n + 1 \in T
    <3> SUFFICES ASSUME n + 1 <= N
                 PROVE  \A h \in 0 .. n + 1 : H[h] \in S
      OBVIOUS
    <3>1. \A h \in 0 .. n : H[h] \in S
      BY <1>0, <2>2
    <3>2. n \div 2 \in 0 .. n /\ n + 1 - 1 = n /\ n + 1 \in 1 .. N
      BY <1>0
    <3>3. H[n + 1] = Below(tree, n + 1, H[n \div 2])
      <4> HIDE DEF H, N
      <4> QED
        BY <1>9, <3>2 DEF H
    <3>4. H[n + 1] \in S
      <4> HIDE DEF H, N
      <4> QED
        BY <3>1, <3>2, <3>3, ChildIsNode DEF Below
    <3> QED
      BY <3>1, <3>4
  <2>3. N \in T
    <3> HIDE DEF T
    <3> QED
      BY <1>0, <2>1, <2>2, SetInduction
  <2>4. H = [h \in 0 .. N |-> H[h]]
    BY <1>7
  <2>5. H \in [0 .. N -> S]
    <3> HIDE DEF H, S, N
    <3> QED
      BY <1>0, <2>3, <2>4
  <2> QED
    BY <1>8, <1>9, <2>5

LEMMA DecisionPathRecursion ==
  ASSUME NEW tree, IsSourceTree(tree), NEW x
  PROVE  /\ Enough(tree) \in Nat
         /\ Enough(tree) >= DEPTH
         /\ DecisionPath(tree, x) \in [0 .. Enough(tree) -> SourceNodes(tree)]
         /\ DecisionPath(tree, x)[0] = 0
         /\ \A d \in 1 .. Enough(tree) :
               DecisionPath(tree, x)[d] = Decide(tree, x, DecisionPath(tree, x)[d - 1])
<1> DEFINE S == SourceNodes(tree)
           N == Enough(tree)
           step == [d \in Nat |-> [n \in S |-> Decide(tree, x, n)]]
           body(g) == [d \in 0 .. N |-> IF d = 0 THEN 0 ELSE Decide(tree, x, g[d - 1])]
<1>0. N \in Nat /\ N >= DEPTH
  <2>1. Cardinality(S) \in Nat
    BY FS_CardinalityType DEF IsSourceTree
  <2> QED
    BY <2>1, ForestAssumption DEF Enough
<1>a. 0 \in S
  BY DEF IsSourceTree
<1>1. \A n \in S : Decide(tree, x, n) \in S
  BY ChildIsNode DEF Decide
<1>2. PICK g : IsSequence(g, N, S, 0, step)
  <2>1. step \in [Nat -> [S -> S]]
    BY <1>1
  <2> HIDE DEF step, S, N
  <2> QED
    BY <1>0, <1>a, <2>1, RecursiveSequence
<1>3. \A d \in 1 .. N : g[d] = Decide(tree, x, g[d - 1])
  <2> HIDE DEF S, N
  <2> SUFFICES ASSUME NEW d \in 1 .. N
               PROVE  g[d] = Decide(tree, x, g[d - 1])
    OBVIOUS
  <2>1. d \in Nat /\ g[d - 1] \in S
    BY <1>0, <1>2 DEF IsSequence
  <2>2. step[d][g[d - 1]] = Decide(tree, x, g[d - 1])
    BY <2>1
  <2> QED
    BY <1>2, <2>2 DEF IsSequence
<1>4. g = body(g)
  <2> HIDE DEF N, S
  <2> QED
    BY <1>0, <1>2, <1>3 DEF IsSequence
<1>5. DecisionPath(tree, x) = CHOOSE f : f = body(f)
  BY DEF DecisionPath
<1>6. DecisionPath(tree, x) = body(DecisionPath(tree, x))
  <2> HIDE DEF body
  <2> QED
    BY <1>4, <1>5
<1> DEFINE P == DecisionPath(tree, x)
<1>7. P = [d \in 0 .. N |-> IF d = 0 THEN 0 ELSE Decide(tree, x, P[d - 1])]
  BY <1>6
<1> HIDE DEF P, N
<1>8. P[0] = 0
  BY <1>0, <1>7
<1>9. \A d \in 1 .. N : P[d] = Decide(tree, x, P[d - 1])
  BY <1>0, <1>7
<1> DEFINE T == { d \in Nat : d <= N => P[d] \in S }
<1>10. 0 \in T
  BY <1>8, <1>a
<1>11. ASSUME NEW d \in Nat, d \in T
       PROVE  d + 1 \in T
  <2> SUFFICES ASSUME d + 1 <= N
               PROVE  P[d + 1] \in S
    OBVIOUS
  <2> HIDE DEF S
  <2>1. d + 1 \in 1 .. N /\ d + 1 - 1 = d /\ d <= N
    BY <1>0
  <2> QED
    BY <1>1, <1>9, <1>11, <2>1
<1>12. Nat \subseteq T
  <2> HIDE DEF T
  <2> QED
    BY <1>10, <1>11, SetInduction
<1>13. P \in [0 .. N -> S]
  <2> HIDE DEF S
  <2>1. \A d \in 0 .. N : P[d] \in S
    BY <1>0, <1>12
  <2> QED
    BY <1>7, <2>1
<1> QED
  BY <1>0, <1>8, <1>9, <1>13 DEF P, N

\* A prediction stays at the leaf it has reached.
LEMMA StaysAtLeaf ==
  ASSUME NEW tree, IsSourceTree(tree), NEW x,
         NEW d \in 0 .. Enough(tree), is_leaf(tree, DecisionPath(tree, x)[d])
  PROVE  DecisionPath(tree, x)[Enough(tree)] = DecisionPath(tree, x)[d]
<1> DEFINE P == DecisionPath(tree, x)
           N == Enough(tree)
           T == { i \in Nat : d + i <= N => P[d + i] = P[d] }
<1>0. N \in Nat /\ \A e \in 1 .. N : P[e] = Decide(tree, x, P[e - 1])
  BY DecisionPathRecursion
<1>1. is_leaf(tree, P[d])
  OBVIOUS
<1> HIDE DEF P
<1>2. 0 \in T
  BY <1>0
<1>3. ASSUME NEW i \in Nat, i \in T
      PROVE  i + 1 \in T
  <2> SUFFICES ASSUME d + (i + 1) <= N
               PROVE  P[d + (i + 1)] = P[d]
    OBVIOUS
  <2> HIDE DEF N
  <2>1. /\ d + (i + 1) \in 1 .. N
        /\ d + (i + 1) - 1 = d + i
        /\ d + i <= N
    BY <1>0 DEF N
  <2>2. P[d + (i + 1)] = Decide(tree, x, P[d + i])
    BY <1>0, <2>1
  <2>3. P[d + i] = P[d]
    BY <1>3, <2>1
  <2> QED
    BY <1>1, <2>2, <2>3 DEF Decide
<1>4. N - d \in T
  <2> HIDE DEF T
  <2> QED
    BY <1>0, <1>2, <1>3, SetInduction
<1> QED
  BY <1>0, <1>4 DEF P

-------------------------------------------------------------------------------
(* The comparisons. *)

\* Multiplication keeps the order.
LEMMA TimesKeepsOrder ==
  ASSUME NEW u \in Nat, NEW a \in Int, NEW b \in Int, a <= b
  PROVE  u * a <= u * b
<1>1. u * (b - a) >= 0
  OBVIOUS
<1>2. u * (b - a) = u * b - u * a
  OBVIOUS
<1>3. u * a \in Int /\ u * b \in Int
  OBVIOUS
<1> QED
  BY <1>1, <1>2, <1>3

\* What np.isclose tolerates is less than half of one.
LEMMA Tolerance ==
  ASSUME NEW r \in Threshold
  PROVE  /\ ATOL + RTOL * r \in Nat
         /\ 2 * (ATOL + RTOL * r) < UNIT
<1>1. /\ r \in Nat /\ r <= MAX_THRESHOLD_X2 /\ MAX_THRESHOLD_X2 \in Nat
      /\ ATOL \in Nat /\ RTOL \in Nat /\ UNIT \in Nat
  BY ExportAssumption
<1>2. RTOL * r <= RTOL * MAX_THRESHOLD_X2
  BY <1>1, TimesKeepsOrder
<1>3. RTOL * r \in Nat /\ RTOL * MAX_THRESHOLD_X2 \in Nat
  BY <1>1
<1>4. 2 * (ATOL + RTOL * MAX_THRESHOLD_X2) < UNIT
  BY ExportAssumption
<1> QED
  BY <1>1, <1>2, <1>3, <1>4

\* The packed comparison of the doubled integers has the outcome of the
\* comparison with the trained threshold v.
LEMMA SameComparison ==
  ASSUME NEW v \in Int, NEW a \in Nat,
         threshold_x2(v) \in Threshold,
         isclose(v, threshold_x2(v)),
         v >= UNIT * threshold_x2(v) \/ threshold_x2(v) % 2 = 1
  PROVE  2 * UNIT * a <= v <=> 2 * a <= threshold_x2(v)
<1> DEFINE r == threshold_x2(v)
           e == ATOL + RTOL * r
<1>0. UNIT \in Nat /\ UNIT > 0 /\ r \in Nat
  BY ExportAssumption
<1>1. e \in Nat /\ 2 * e < UNIT
  BY Tolerance
<1>2. v - UNIT * r <= e /\ UNIT * r - v <= e
  BY DEF isclose
<1>3. v >= UNIT * r \/ r % 2 = 1
  OBVIOUS
<1> HIDE DEF r, e
<1>4. UNIT * r \in Int /\ UNIT * (2 * a) \in Int /\ UNIT * (2 * a) = 2 * UNIT * a
  BY <1>0
<1>5. CASE 2 * a <= r
  <2>1. CASE v >= UNIT * r
    <3>1. UNIT * (2 * a) <= UNIT * r
      BY <1>0, <1>5, TimesKeepsOrder
    <3> QED
      BY <1>4, <1>5, <2>1, <3>1 DEF r
  <2>2. CASE r % 2 = 1
    <3>1. 2 * a <= r - 1
      BY <1>0, <1>5, <2>2
    <3>2. UNIT * (2 * a) <= UNIT * (r - 1)
      BY <1>0, <3>1, TimesKeepsOrder
    <3>3. UNIT * (r - 1) = UNIT * r - UNIT
      BY <1>0
    <3>4. UNIT * (2 * a) <= v
      BY <1>0, <1>1, <1>2, <1>4, <3>2, <3>3
    <3> QED
      BY <1>4, <1>5, <3>4 DEF r
  <2> QED
    BY <1>3, <2>1, <2>2
<1>6. CASE ~(2 * a <= r)
  <2>1. r + 1 <= 2 * a
    BY <1>0, <1>6
  <2>2. UNIT * (r + 1) <= UNIT * (2 * a)
    BY <1>0, <2>1, TimesKeepsOrder
  <2>3. UNIT * (r + 1) = UNIT * r + UNIT
    BY <1>0
  <2>4. ~(UNIT * (2 * a) <= v)
    BY <1>0, <1>1, <1>2, <1>4, <2>2, <2>3
  <2> QED
    BY <1>4, <1>6, <2>4 DEF r
<1> QED
  BY <1>5, <1>6

-------------------------------------------------------------------------------
(* The walk down an exported tree. *)

\* The words of tree in the memory of tree t.
Holds(memory, t, tree) ==
    \A h \in 0 .. NODES_PER_TREE - 1 :
        memory[t * NODES_PER_TREE + h] = export_sklearn_node(tree)[h]

\* One comparison, in the engine and in scikit-learn.
LEMMA SameStep ==
  ASSUME NEW tree, IsSourceTree(tree), Exportable(tree), RoundsSafely(tree),
         NEW x, \A i \in Slot : x[i] \in Nat,
         NEW h \in Nat, 2 * h + 2 < NODES_PER_TREE
  PROVE  LET n == HeapSource(tree)[h]
             word == export_sklearn_node(tree)[h]
         IN  \E m \in {2 * h + 1, 2 * h + 2} :
                /\ Children(Doubled(x), word, h) = {m}
                /\ HeapSource(tree)[m] = Decide(tree, x, n)
<1> DEFINE n == HeapSource(tree)[h]
           word == pack_node(tree, n)
           H == HeapSource(tree)
           left == 2 * h + 1
           right == 2 * h + 2
<1>0. NODES_PER_TREE \in Nat /\ h \in 0 .. NODES_PER_TREE - 1
  BY ForestAssumption
<1>1. export_sklearn_node(tree)[h] = word
  BY <1>0 DEF export_sklearn_node
<1>2. n \in SourceNodes(tree) /\ Accepts(tree, n, h)
  BY <1>0, HeapSourceRecursion DEF Exportable
<1>3. H[left] = Below(tree, left, n) /\ H[right] = Below(tree, right, n)
  <2>1. /\ left \in 1 .. NODES_PER_TREE - 1 /\ (left - 1) \div 2 = h
        /\ right \in 1 .. NODES_PER_TREE - 1 /\ (right - 1) \div 2 = h
    BY <1>0
  <2> HIDE DEF left, right
  <2> QED
    BY <2>1, HeapSourceRecursion
<1>4. left % 2 = 1 /\ right % 2 # 1
  BY <1>0
<1>5. 0 \in Slot
  <2>1. FEATURE_COUNT - 1 \in Nat
    BY ForestAssumption
  <2> QED
    BY <2>1 DEF Slot
<1>6. CASE is_leaf(tree, n)
  <2>1. H[left] = n /\ H[right] = n /\ Decide(tree, x, n) = n
    BY <1>3, <1>6 DEF Below, Decide
  <2>2. word.feature_idx = 0 /\ word.threshold_x2 = 0
    BY <1>6 DEF pack_node
  <2>3. FeatureRead(Doubled(x), 0) = {2 * x[0]}
    BY <1>5 DEF FeatureRead, Doubled
  <2>4. Children(Doubled(x), word, h)
          = {IF 2 * x[0] <= 0 THEN left ELSE right}
    BY <2>2, <2>3 DEF Children
  <2> HIDE DEF word, left, right, n, H
  <2>5. \E m \in {left, right} : Children(Doubled(x), word, h) = {m}
                                 /\ H[m] = Decide(tree, x, n)
    BY <2>1, <2>4
  <2> QED
    BY <1>1, <2>5 DEF n, H, left, right
<1>7. CASE ~is_leaf(tree, n)
  <2> DEFINE i == tree.feature[n]
             v == tree.threshold[n]
  <2>1. /\ i \in Slot
        /\ threshold_x2(v) \in Threshold
        /\ isclose(v, threshold_x2(v))
        /\ v \in Int
        /\ v >= UNIT * threshold_x2(v) \/ threshold_x2(v) % 2 = 1
    BY <1>2, <1>7 DEF Accepts, IsSourceTree, RoundsSafely
  <2>2. x[i] \in Nat
    BY <2>1
  <2>3. 2 * UNIT * x[i] <= v <=> 2 * x[i] <= threshold_x2(v)
    BY <2>1, <2>2, SameComparison
  <2>4. word.feature_idx = i /\ word.threshold_x2 = threshold_x2(v)
    BY <1>7 DEF pack_node
  <2>5. FeatureRead(Doubled(x), i) = {2 * x[i]}
    BY <2>1 DEF FeatureRead, Doubled
  <2>6. Children(Doubled(x), word, h)
          = {IF 2 * x[i] <= threshold_x2(v) THEN left ELSE right}
    BY <2>4, <2>5 DEF Children
  <2>7. H[left] = tree.children_left[n] /\ H[right] = tree.children_right[n]
    BY <1>3, <1>4, <1>7 DEF Below
  <2>8. Decide(tree, x, n) = IF 2 * x[i] <= threshold_x2(v)
                             THEN tree.children_left[n] ELSE tree.children_right[n]
    BY <1>7, <2>3 DEF Decide
  <2> HIDE DEF word, left, right, n, H, i, v
  <2>9. \E m \in {left, right} : Children(Doubled(x), word, h) = {m}
                                 /\ H[m] = Decide(tree, x, n)
    BY <2>6, <2>7, <2>8
  <2> QED
    BY <1>1, <2>9 DEF n, H, left, right
<1> QED
  BY <1>6, <1>7

\* After d comparisons the engine is at one position of level d, and there is
\* the node that scikit-learn has come to.
AtSameNode(tree, x, memory, t, d) ==
    \E h \in Nat :
        /\ Walk(memory, Doubled(x), t)[d] = {h}
        /\ h <= LastNode[d]
        /\ LastNode[d] <= 2 * h
        /\ HeapSource(tree)[h] = DecisionPath(tree, x)[d]

LEMMA SameWalk ==
  ASSUME NEW tree, IsSourceTree(tree), Exportable(tree), RoundsSafely(tree),
         NEW x, \A i \in Slot : x[i] \in Nat,
         NEW memory, NEW t, Holds(memory, t, tree)
  PROVE  AtSameNode(tree, x, memory, t, DEPTH)
<1> DEFINE W == Walk(memory, Doubled(x), t)
           P == DecisionPath(tree, x)
           H == HeapSource(tree)
           T == { d \in Nat : d <= DEPTH => AtSameNode(tree, x, memory, t, d) }
<1>0. DEPTH \in Nat /\ NODES_PER_TREE \in Nat
  BY ForestAssumption
<1>1. 0 \in T
  <2>1. W[0] = {0} /\ P[0] = 0 /\ H[0] = 0 /\ LastNode[0] = 0
    BY WalkFirst, DecisionPathRecursion, HeapSourceRecursion, LastNodeRecursion
  <2> HIDE DEF W, P, H
  <2>2. W[0] = {0} /\ 0 <= LastNode[0] /\ LastNode[0] <= 2 * 0 /\ H[0] = P[0]
    BY <2>1
  <2> QED
    BY <2>2 DEF AtSameNode, W, P, H
<1>2. ASSUME NEW d \in Nat, d \in T
      PROVE  d + 1 \in T
  <2> SUFFICES ASSUME d + 1 <= DEPTH
               PROVE  AtSameNode(tree, x, memory, t, d + 1)
    OBVIOUS
  <2>1. d + 1 \in 1 .. DEPTH /\ d \in 0 .. DEPTH /\ d + 1 - 1 = d /\ d <= DEPTH
    BY <1>0
  <2>2. PICK h \in Nat : /\ W[d] = {h}
                         /\ h <= LastNode[d]
                         /\ LastNode[d] <= 2 * h
                         /\ H[h] = P[d]
    BY <1>2, <2>1 DEF AtSameNode
  <2>3. /\ LastNode[d] \in Nat
        /\ LastNode[d + 1] = 2 * LastNode[d] + 2
        /\ LastNode[d + 1] < NODES_PER_TREE
    BY <2>1, LastNodeRecursion
  <2>4. 2 * h + 2 < NODES_PER_TREE /\ h \in 0 .. NODES_PER_TREE - 1
    BY <1>0, <2>2, <2>3
  <2> DEFINE word == export_sklearn_node(tree)[h]
  <2>5. PICK m \in {2 * h + 1, 2 * h + 2} :
               /\ Children(Doubled(x), word, h) = {m}
               /\ H[m] = Decide(tree, x, H[h])
    BY <2>4, SameStep
  <2>6. memory[t * NODES_PER_TREE + h] = word
    BY <2>4 DEF Holds
  <2>7. W[d + 1] = {m}
    <3>1. W[d + 1] = NextLevel(memory, Doubled(x), t, W[d])
      BY <2>1, WalkStep
    <3> HIDE DEF W, word
    <3>2. NextLevel(memory, Doubled(x), t, {h}) = Children(Doubled(x), word, h)
      BY <2>6 DEF NextLevel
    <3> QED
      BY <2>2, <2>5, <3>1, <3>2
  <2>8. P[d + 1] = Decide(tree, x, P[d])
    <3>1. d + 1 \in 1 .. Enough(tree)
      BY <1>0, <2>1, DecisionPathRecursion
    <3> QED
      BY <2>1, <3>1, DecisionPathRecursion
  <2>9. m \in Nat /\ m <= LastNode[d + 1] /\ LastNode[d + 1] <= 2 * m
    BY <2>2, <2>3
  <2>10. H[m] = P[d + 1]
    BY <2>2, <2>5, <2>8
  <2> HIDE DEF W, P, H
  <2> QED
    BY <2>7, <2>9, <2>10 DEF AtSameNode, W, P, H
<1>3. DEPTH \in T
  <2> HIDE DEF T
  <2> QED
    BY <1>0, <1>1, <1>2, SetInduction
<1> QED
  BY <1>0, <1>3

\* An exported tree decides every sample as scikit-learn does: the walk of task
\* traverse_tree over the words of export_sklearn_node has one outcome, the
\* prediction of the trained tree.
THEOREM ExportDecidesAlike ==
  ASSUME NEW tree, IsSourceTree(tree), Exportable(tree), RoundsSafely(tree),
         NEW x, \A i \in Slot : x[i] \in Nat,
         NEW memory, NEW t, Holds(memory, t, tree)
  PROVE  traverse_tree(memory, Doubled(x), t) = {predict(tree, x)}
<1> DEFINE P == DecisionPath(tree, x)
           H == HeapSource(tree)
           N == Enough(tree)
<1>0. DEPTH \in Nat /\ NODES_PER_TREE \in Nat /\ N \in Nat /\ DEPTH \in 0 .. N
  BY ForestAssumption, DecisionPathRecursion
<1>1. AtSameNode(tree, x, memory, t, DEPTH)
  BY SameWalk
<1>2. PICK h \in Nat : /\ Walk(memory, Doubled(x), t)[DEPTH] = {h}
                       /\ h <= LastNode[DEPTH]
                       /\ LastNode[DEPTH] <= 2 * h
                       /\ H[h] = P[DEPTH]
  BY <1>1 DEF AtSameNode
<1>3. LastNode[DEPTH] = NODES_PER_TREE - 1
  BY ExportAssumption
<1>4. h \in 0 .. NODES_PER_TREE - 1 /\ ~(2 * h + 2 < NODES_PER_TREE)
  BY <1>0, <1>2, <1>3
<1>5. is_leaf(tree, H[h])
  BY <1>4 DEF Exportable, Accepts
<1>6. P[N] = P[DEPTH]
  BY <1>0, <1>2, <1>5, StaysAtLeaf
<1>7. memory[t * NODES_PER_TREE + h] = pack_node(tree, H[h])
  BY <1>4 DEF Holds, export_sklearn_node
<1>8. memory[t * NODES_PER_TREE + h].class = tree.class[P[N]]
  BY <1>2, <1>5, <1>6, <1>7 DEF pack_node
<1> QED
  BY <1>2, <1>8 DEF traverse_tree, predict

-------------------------------------------------------------------------------
(* The simulation of the script against the engine. *)

\* One comparison of simulate_tree.
StepDown(memory, t, features_x2, n) ==
    LET word == memory[t * NODES_PER_TREE + n]
    IN  IF features_x2[word.feature_idx] <= word.threshold_x2
        THEN 2 * n + 1 ELSE 2 * n + 2

LEMMA PositionRecursion ==
  ASSUME NEW memory, NEW t, NEW f
  PROVE  /\ node_position(memory, t, f)[0] = 0
         /\ \A d \in 1 .. DEPTH :
               node_position(memory, t, f)[d]
                 = StepDown(memory, t, f, node_position(memory, t, f)[d - 1])
<1> DEFINE next(n) == StepDown(memory, t, f, n)
           step == [d \in Nat |-> [n \in Nat |-> next(n)]]
           body(g) == [d \in 0 .. DEPTH |-> IF d = 0 THEN 0 ELSE next(g[d - 1])]
<1>0. DEPTH \in Nat
  BY ForestAssumption
<1>1. \A n \in Nat : next(n) \in Nat
  BY DEF StepDown
<1>2. PICK g : IsSequence(g, DEPTH, Nat, 0, step)
  <2>1. step \in [Nat -> [Nat -> Nat]]
    <3> HIDE DEF next
    <3> QED
      BY <1>1
  <2> HIDE DEF step
  <2> QED
    BY <1>0, <2>1, RecursiveSequence
<1>3. \A d \in 1 .. DEPTH : g[d] = next(g[d - 1])
  <2> HIDE DEF next
  <2> SUFFICES ASSUME NEW d \in 1 .. DEPTH
               PROVE  g[d] = next(g[d - 1])
    OBVIOUS
  <2>1. d \in Nat /\ g[d - 1] \in Nat
    BY <1>0, <1>2 DEF IsSequence
  <2>2. step[d][g[d - 1]] = next(g[d - 1])
    BY <2>1
  <2> QED
    BY <1>2, <2>2 DEF IsSequence
<1>4. g = body(g)
  <2> HIDE DEF next
  <2> QED
    BY <1>0, <1>2, <1>3 DEF IsSequence
<1>5. node_position(memory, t, f) = CHOOSE p : p = body(p)
  BY DEF node_position, StepDown
<1> DEFINE P == node_position(memory, t, f)
<1>6. P = body(P)
  <2> HIDE DEF body
  <2> QED
    BY <1>4, <1>5
<1> HIDE DEF P, next
<1>7. P[0] = 0 /\ \A d \in 1 .. DEPTH : P[d] = next(P[d - 1])
  BY <1>0, <1>6
<1> QED
  BY <1>7 DEF P, next

\* On words that name existing features simulate_tree is task traverse_tree.
LEMMA SimulatesWalk ==
  ASSUME NEW memory, WellFormed(memory), NEW f, NEW t \in Trees
  PROVE  /\ traverse_tree(memory, f, t) = { simulate_tree(memory, t, f) }
         /\ \E a \in Address : simulate_tree(memory, t, f) = memory[a].class
<1> DEFINE W == Walk(memory, f, t)
           P == node_position(memory, t, f)
           Same(d) == W[d] = {P[d]} /\ P[d] \in 0 .. LastNode[d]
           T == { d \in Nat : d <= DEPTH => Same(d) }
<1>0. DEPTH \in Nat /\ NODES_PER_TREE \in Nat
  BY ForestAssumption
<1>1. 0 \in T
  <2>1. W[0] = {0} /\ P[0] = 0 /\ LastNode[0] = 0
    BY WalkFirst, PositionRecursion, LastNodeRecursion
  <2> HIDE DEF W, P
  <2> QED
    BY <2>1
<1>2. ASSUME NEW d \in Nat, d \in T
      PROVE  d + 1 \in T
  <2> SUFFICES ASSUME d + 1 <= DEPTH
               PROVE  Same(d + 1)
    OBVIOUS
  <2>1. d + 1 \in 1 .. DEPTH /\ d \in 0 .. DEPTH /\ d + 1 - 1 = d /\ d <= DEPTH
    BY <1>0
  <2> DEFINE n == P[d]
             word == memory[t * NODES_PER_TREE + n]
             m == StepDown(memory, t, f, n)
  <2>2. W[d] = {n} /\ n \in 0 .. LastNode[d]
    BY <1>2, <2>1
  <2>3. /\ LastNode[d] \in Nat
        /\ LastNode[d] < NODES_PER_TREE
        /\ LastNode[d + 1] = 2 * LastNode[d] + 2
    BY <2>1, LastNodeRecursion
  <2>4. n \in Nat /\ n \in 0 .. NODES_PER_TREE - 1
    <3> HIDE DEF n
    <3> QED
      BY <1>0, <2>2, <2>3
  <2>5. word.feature_idx \in Slot
    <3> HIDE DEF n
    <3> QED
      BY <2>4, NodeAddress DEF WellFormed
  <2>6. Children(f, word, n) = {m}
    BY <2>5 DEF Children, FeatureRead, StepDown
  <2>7. W[d + 1] = NextLevel(memory, f, t, W[d]) /\ P[d + 1] = m
    BY <2>1, WalkStep, PositionRecursion
  <2>8. NextLevel(memory, f, t, {n}) = Children(f, word, n)
    BY DEF NextLevel
  <2>9. m \in 0 .. LastNode[d + 1]
    <3> HIDE DEF n
    <3>1. m \in {2 * n + 1, 2 * n + 2}
      BY DEF StepDown
    <3> HIDE DEF m
    <3> QED
      BY <2>2, <2>3, <2>4, <3>1
  <2> HIDE DEF W, P, n, m, word
  <2> QED
    BY <2>2, <2>6, <2>7, <2>8, <2>9
<1>3. DEPTH \in T
  <2> HIDE DEF T
  <2> QED
    BY <1>0, <1>1, <1>2, SetInduction
<1>4. W[DEPTH] = {P[DEPTH]} /\ P[DEPTH] \in 0 .. LastNode[DEPTH]
  BY <1>0, <1>3
<1>5. LastNode[DEPTH] \in Nat /\ LastNode[DEPTH] < NODES_PER_TREE
  BY <1>0, LastNodeRecursion
<1>6. t * NODES_PER_TREE + P[DEPTH] \in Address
  <2> HIDE DEF P
  <2>1. P[DEPTH] \in 0 .. NODES_PER_TREE - 1
    BY <1>0, <1>4, <1>5
  <2> QED
    BY <2>1, NodeAddress
<1>7. traverse_tree(memory, f, t) = { simulate_tree(memory, t, f) }
  BY <1>4 DEF traverse_tree, simulate_tree
<1> QED
  BY <1>6, <1>7 DEF simulate_tree

\* np.argmax(np.bincount(votes)) is function aggregate_predictions: there is one
\* lowest class with the most votes.
LEMMA ArgmaxIsAggregate ==
  ASSUME NEW p
  PROVE  argmax_bincount(p) = aggregate_predictions(p)
<1> DEFINE a == aggregate_predictions(p)
<1>1. IsPlurality(p, a)
  BY VoteElectsPlurality
<1>2. ASSUME NEW c \in 0 .. CLASS_COUNT - 1, IsPlurality(p, c)
      PROVE  c = a
  <2> HIDE DEF a
  <2>1. CLASS_COUNT \in Nat /\ a \in 0 .. CLASS_COUNT - 1
    BY <1>1, ForestAssumption DEF IsPlurality
  <2>2. /\ Votes(p, a) \in Nat /\ Votes(p, c) \in Nat
        /\ Votes(p, a) <= Votes(p, c) /\ Votes(p, c) <= Votes(p, a)
    BY <1>1, <1>2, <2>1, VotesType DEF IsPlurality
  <2>3. ~(a < c)
    BY <1>2, <2>1, <2>2 DEF IsPlurality
  <2>4. ~(c < a)
    BY <1>1, <1>2, <2>1, <2>2 DEF IsPlurality
  <2> QED
    BY <2>1, <2>3, <2>4
<1>3. a \in 0 .. CLASS_COUNT - 1
  BY <1>1 DEF IsPlurality
<1> QED
  BY <1>1, <1>2, <1>3 DEF argmax_bincount

\* simulate_forest gives the one answer of the engine.
LEMMA SimulationAnswers ==
  ASSUME NEW memory \in Forest, WellFormed(memory), NEW f
  PROVE  Classify(memory, f) = { simulate_forest(memory, f) }
<1> DEFINE p == [t \in Trees |-> simulate_tree(memory, t, f)]
<1>1. ASSUME NEW t \in Trees
      PROVE  traverse_tree(memory, f, t) = {p[t]} /\ p[t] \in Class
  <2>1. PICK a \in Address : simulate_tree(memory, t, f) = memory[a].class
    BY SimulatesWalk
  <2>2. memory[a].class \in Class
    BY DEF Forest, Node
  <2> QED
    BY <2>1, <2>2, SimulatesWalk
<1>2. p \in [Trees -> Class]
  BY <1>1
<1>3. TreePredictions(memory, f) = {p}
  <2> HIDE DEF p
  <2>1. ASSUME NEW q \in TreePredictions(memory, f)
        PROVE  q = p
    <3>1. q \in [Trees -> Class] /\ \A t \in Trees : q[t] = p[t]
      BY <1>1 DEF TreePredictions
    <3> QED
      BY <1>2, <3>1
  <2>2. p \in TreePredictions(memory, f)
    BY <1>1, <1>2 DEF TreePredictions
  <2> QED
    BY <2>1, <2>2
<1>4. Classify(memory, f) = {aggregate_predictions(p)}
  <2> HIDE DEF p
  <2> QED
    BY <1>3 DEF Classify
<1> QED
  BY <1>4, ArgmaxIsAggregate DEF simulate_forest

-------------------------------------------------------------------------------
(* The invariant. *)

\* Phases in which every tree is exported.
Exported == {"simulate", "write", "compare", "done", "mismatch"}

\* What the exported words are made of.
MemoryInv ==
    \A t \in 0 .. tree_index - 1 :
        Exportable(model[t]) /\ Holds(forest_memory, t, model[t])

ProgressInv ==
    /\ phase \in {"check", "export", "raised"} \cup Exported
    /\ tree_index \in 0 .. TREE_COUNT
    /\ phase = "check" => tree_index = 0
    /\ phase = "export" => tree_index \in Trees
    /\ phase \in Exported => tree_index = TREE_COUNT
    /\ phase = "export" \/ tree_index > 0 => SamplesFit

\* A file is written only of a complete export and its simulation.
WrittenInv ==
    /\ written \in 0 .. FILE_COUNT
    /\ written > 0 => tree_index = TREE_COUNT
    /\ phase \in {"check", "export", "simulate"} => written = 0
    /\ phase = "write" => written < FILE_COUNT
    /\ phase \in {"compare", "done", "mismatch"} => written = FILE_COUNT
    /\ written > 0 \/ phase \in Exported \ {"simulate"} =>
          packed_predictions
            = [s \in TestSamples |-> simulate_forest(forest_memory, Doubled(integer_features[s]))]

ScriptInv ==
    /\ model \in SourceForests
    /\ integer_features \in TestSets
    /\ forest_memory \in [0 .. tree_index * NODES_PER_TREE - 1 -> Node]
    /\ MemoryInv
    /\ ProgressInv
    /\ WrittenInv
    /\ phase = "done" => packed_predictions = reference
    /\ phase = "mismatch" => packed_predictions # reference

\* A word of an accepted node fits its fields and names an existing feature.
LEMMA PackedNode ==
  ASSUME NEW tree, NEW n, NEW h, Accepts(tree, n, h)
  PROVE  pack_node(tree, n) \in Node /\ pack_node(tree, n).feature_idx \in Slot
<1>1. /\ 0 \in Slot /\ Slot \subseteq 0 .. FEATURE_INDEXES - 1
      /\ 0 \in Threshold /\ 0 \in Class
      /\ 0 .. CLASS_COUNT - 1 \subseteq Class
  BY ForestAssumption, ExportAssumption DEF Slot
<1>2. CASE is_leaf(tree, n)
  BY <1>1, <1>2 DEF Accepts, pack_node, Node
<1>3. CASE ~is_leaf(tree, n)
  BY <1>1, <1>3 DEF Accepts, pack_node, Node
<1> QED
  BY <1>2, <1>3

\* Every address below that of tree k lies in a tree before it.
LEMMA AddressOf ==
  ASSUME NEW k \in Nat
  PROVE  \A a \in 0 .. k * NODES_PER_TREE - 1 :
            \E t \in 0 .. k - 1, h \in 0 .. NODES_PER_TREE - 1 :
                a = t * NODES_PER_TREE + h
<1> DEFINE N == NODES_PER_TREE
           Within(i) == \A a \in 0 .. i * N - 1 :
                           \E t \in 0 .. i - 1, h \in 0 .. N - 1 : a = t * N + h
           T == { i \in Nat : Within(i) }
<1>0. N \in Nat
  BY ForestAssumption
<1> HIDE DEF N
<1>1. 0 \in T
  BY <1>0
<1>2. ASSUME NEW i \in Nat, i \in T
      PROVE  i + 1 \in T
  <2> SUFFICES ASSUME NEW a \in 0 .. (i + 1) * N - 1
               PROVE  \E t \in 0 .. i, h \in 0 .. N - 1 : a = t * N + h
    BY <1>0
  <2>1. (i + 1) * N = i * N + N /\ i * N \in Nat
    BY <1>0
  <2>2. CASE a \in 0 .. i * N - 1
    BY <1>2, <2>2
  <2>3. CASE ~(a \in 0 .. i * N - 1)
    <3>1. a - i * N \in 0 .. N - 1 /\ a = i * N + (a - i * N) /\ i \in 0 .. i
      BY <1>0, <2>1, <2>3
    <3> QED
      BY <3>1
  <2> QED
    BY <2>2, <2>3
<1>3. k \in T
  <2> HIDE DEF T
  <2> QED
    BY <1>1, <1>2, SetInduction
<1> QED
  BY <1>3 DEF N

\* The words of a tree lie between its address and that of the next one.
LEMMA TreeBelow ==
  ASSUME NEW k \in Nat, NEW t \in 0 .. k - 1, NEW h \in 0 .. NODES_PER_TREE - 1
  PROVE  t * NODES_PER_TREE + h \in 0 .. k * NODES_PER_TREE - 1
<1>0. NODES_PER_TREE \in Nat
  BY ForestAssumption
<1>1. (t + 1) * NODES_PER_TREE <= k * NODES_PER_TREE
  BY <1>0
<1>2. (t + 1) * NODES_PER_TREE = t * NODES_PER_TREE + NODES_PER_TREE
      /\ t * NODES_PER_TREE \in Nat /\ k * NODES_PER_TREE \in Nat
  BY <1>0
<1> QED
  BY <1>0, <1>1, <1>2

LEMMA InitScript == ScriptInit => ScriptInv
<1> SUFFICES ASSUME ScriptInit PROVE ScriptInv
  OBVIOUS
<1>1. tree_index * NODES_PER_TREE - 1 = -1
  BY ForestAssumption DEF ScriptInit
<1>2. forest_memory \in [0 .. tree_index * NODES_PER_TREE - 1 -> Node]
  BY <1>1 DEF ScriptInit
<1>3. MemoryInv /\ ProgressInv /\ WrittenInv
  BY ForestAssumption DEF ScriptInit, MemoryInv, ProgressInv, WrittenInv, Exported, FILE_COUNT
<1> QED
  BY <1>2, <1>3 DEF ScriptInit, ScriptInv

\* The words of one more tree.
LEMMA ExportTreeStep ==
  ASSUME ScriptInv, ExportTree, Exportable(model[tree_index])
  PROVE  /\ forest_memory' \in [0 .. tree_index' * NODES_PER_TREE - 1 -> Node]
         /\ MemoryInv'
<1> DEFINE N == NODES_PER_TREE
           k == tree_index
           tree == model[k]
           words == export_sklearn_node(tree)
<1>0. N \in Nat /\ k \in Nat /\ k \in Trees /\ k' = k + 1 /\ model' = model
  BY ForestAssumption DEF ScriptInv, ProgressInv, ExportTree, inputs
<1>1. /\ k * N \in Nat /\ (k + 1) * N = k * N + N
  BY <1>0
<1>2. ASSUME NEW h \in 0 .. N - 1
      PROVE  words[h] \in Node
  <2>1. words[h] = pack_node(tree, HeapSource(tree)[h])
    BY DEF export_sklearn_node
  <2>2. Accepts(tree, HeapSource(tree)[h], h)
    BY DEF Exportable
  <2> QED
    BY <2>1, <2>2, PackedNode
<1>3. forest_memory' = [a \in 0 .. (k + 1) * N - 1 |->
                           IF a < k * N THEN forest_memory[a] ELSE words[a - k * N]]
  BY DEF ExportTree
<1>4. forest_memory \in [0 .. k * N - 1 -> Node]
  BY DEF ScriptInv
<1>5. MemoryInv
  BY DEF ScriptInv
<1> HIDE DEF N, words, tree
<1>6. forest_memory' \in [0 .. (k + 1) * N - 1 -> Node]
  <2> SUFFICES ASSUME NEW a \in 0 .. (k + 1) * N - 1
               PROVE  (IF a < k * N THEN forest_memory[a] ELSE words[a - k * N]) \in Node
    BY <1>3
  <2>1. CASE a < k * N
    BY <1>1, <1>4, <2>1
  <2>2. CASE ~(a < k * N)
    <3>1. a - k * N \in 0 .. N - 1
      BY <1>0, <1>1, <2>2
    <3> QED
      BY <1>2, <2>2, <3>1
  <2> QED
    BY <2>1, <2>2
<1>7. ASSUME NEW t \in 0 .. k - 1
      PROVE  Exportable(model[t]) /\ Holds(forest_memory', t, model[t])
  <2>1. Exportable(model[t]) /\ Holds(forest_memory, t, model[t])
    BY <1>5 DEF MemoryInv
  <2>2. ASSUME NEW h \in 0 .. N - 1
        PROVE  forest_memory'[t * N + h] = forest_memory[t * N + h]
    <3>1. t * N + h \in 0 .. k * N - 1
      BY <1>0, TreeBelow DEF N
    <3>2. t * N + h \in 0 .. (k + 1) * N - 1 /\ t * N + h < k * N
      BY <1>0, <1>1, <3>1
    <3> QED
      BY <1>3, <3>2
  <2> QED
    BY <2>1, <2>2 DEF Holds, N
<1>8. Holds(forest_memory', k, tree)
  <2> SUFFICES ASSUME NEW h \in 0 .. N - 1
               PROVE  forest_memory'[k * N + h] = words[h]
    BY DEF Holds, N, words
  <2>1. /\ k * N + h \in 0 .. (k + 1) * N - 1
        /\ ~(k * N + h < k * N)
        /\ (k * N + h) - k * N = h
    BY <1>0, <1>1
  <2> QED
    BY <1>3, <2>1
<1>9. MemoryInv'
  <2> SUFFICES ASSUME NEW t \in 0 .. k
               PROVE  Exportable(model[t]) /\ Holds(forest_memory', t, model[t])
    BY <1>0 DEF MemoryInv
  <2>1. t \in 0 .. k - 1 \/ t = k
    BY <1>0
  <2> QED
    BY <1>7, <1>8, <2>1 DEF tree
<1> QED
  BY <1>0, <1>6, <1>9 DEF N

LEMMA NextScript == ScriptInv /\ [ScriptNext]_scriptVars => ScriptInv'
<1> SUFFICES ASSUME ScriptInv, [ScriptNext]_scriptVars PROVE ScriptInv'
  OBVIOUS
<1> USE DEF ScriptInv
<1>0. TREE_COUNT \in Nat \ {0} /\ FILE_COUNT = 6
  BY ForestAssumption DEF FILE_COUNT
<1>1. CASE CheckSamples
  <2>1. UNCHANGED <<inputs, tree_index, forest_memory, packed_predictions, written>>
    BY <1>1 DEF CheckSamples
  <2>2. MemoryInv' /\ (SamplesFit' <=> SamplesFit)
    BY <2>1 DEF MemoryInv, SamplesFit, TestSamples, inputs
  <2>3. ProgressInv'
    BY <1>0, <1>1, <2>1, <2>2 DEF CheckSamples, ProgressInv, Trees, Exported
  <2>4. WrittenInv'
    BY <1>0, <1>1, <2>1 DEF CheckSamples, WrittenInv, ProgressInv, Exported, inputs, TestSamples
  <2> QED
    BY <1>1, <2>1, <2>2, <2>3, <2>4 DEF CheckSamples, inputs
<1>2. CASE ExportTree
  <2>1. UNCHANGED <<inputs, packed_predictions, written>> /\ phase = "export"
    BY <1>2 DEF ExportTree
  <2>2. SamplesFit' <=> SamplesFit
    BY <2>1 DEF SamplesFit, TestSamples, inputs
  <2>3. written = 0
    BY <1>0, <2>1 DEF ProgressInv, WrittenInv, Trees
  <2>4. CASE Exportable(model[tree_index])
    <3>1. /\ tree_index' = tree_index + 1
          /\ phase' = IF tree_index + 1 \in Trees THEN "export" ELSE "simulate"
      BY <1>2, <2>4 DEF ExportTree
    <3>2. ProgressInv'
      BY <1>0, <2>1, <2>2, <3>1 DEF ProgressInv, Trees, Exported
    <3>3. WrittenInv'
      BY <1>0, <2>1, <2>3, <3>1 DEF WrittenInv, Exported
    <3>4. phase' \in {"export", "simulate"}
      BY <3>1
    <3> QED
      BY <1>2, <2>1, <2>4, <3>2, <3>3, <3>4, ExportTreeStep DEF inputs
  <2>5. CASE ~Exportable(model[tree_index])
    <3>1. phase' = "raised" /\ UNCHANGED <<forest_memory, tree_index>>
      BY <1>2, <2>5 DEF ExportTree
    <3>2. ProgressInv'
      BY <2>1, <2>2, <3>1 DEF ProgressInv, Exported
    <3>3. WrittenInv'
      BY <1>0, <2>1, <2>3, <3>1 DEF WrittenInv, Exported
    <3>4. MemoryInv'
      BY <2>1, <3>1 DEF MemoryInv, inputs
    <3> QED
      BY <2>1, <3>1, <3>2, <3>3, <3>4 DEF inputs
  <2> QED
    BY <2>4, <2>5
<1>3. CASE Simulate
  <2>1. UNCHANGED <<inputs, tree_index, forest_memory, written>> /\ phase = "simulate" /\ phase' = "write"
    BY <1>3 DEF Simulate
  <2>2. MemoryInv' /\ (SamplesFit' <=> SamplesFit)
    BY <2>1 DEF MemoryInv, SamplesFit, TestSamples, inputs
  <2>3. ProgressInv'
    BY <2>1, <2>2 DEF ProgressInv, Exported
  <2>4. packed_predictions' = [s \in TestSamples |->
                                 simulate_forest(forest_memory, Doubled(integer_features[s]))]
    BY <1>3 DEF Simulate
  <2>5. TestSamples' = TestSamples
    BY <2>1 DEF TestSamples, inputs
  <2>6. written = 0
    BY <2>1 DEF WrittenInv
  <2>7. WrittenInv'
    BY <1>0, <2>1, <2>4, <2>5, <2>6 DEF WrittenInv, ProgressInv, Exported, inputs
  <2> QED
    BY <2>1, <2>2, <2>3, <2>7 DEF inputs
<1>4. ASSUME phase = "write", UNCHANGED <<inputs, tree_index, forest_memory, packed_predictions>>,
             \/ written' = written /\ phase' = "raised"
             \/ /\ written' = written + 1
                /\ phase' = IF written' = FILE_COUNT THEN "compare" ELSE "write"
      PROVE  ScriptInv'
  <2>1. MemoryInv' /\ (SamplesFit' <=> SamplesFit) /\ TestSamples' = TestSamples
    BY <1>4 DEF MemoryInv, SamplesFit, TestSamples, inputs
  <2>2. written \in 0 .. FILE_COUNT - 1 /\ tree_index = TREE_COUNT
    BY <1>0, <1>4 DEF WrittenInv, ProgressInv, Exported
  <2>3. packed_predictions
          = [s \in TestSamples |-> simulate_forest(forest_memory, Doubled(integer_features[s]))]
    BY <1>4 DEF WrittenInv, Exported
  <2>4. ProgressInv'
    BY <1>0, <1>4, <2>1, <2>2 DEF ProgressInv, Exported
  <2>5. WrittenInv'
    BY <1>0, <1>4, <2>1, <2>2, <2>3 DEF WrittenInv, Exported, inputs
  <2>6. phase' \in {"raised", "compare", "write"}
    BY <1>4
  <2> QED
    BY <1>4, <2>1, <2>4, <2>5, <2>6 DEF inputs
<1>5. CASE WriteFile
  BY <1>4, <1>5 DEF WriteFile
<1>6. CASE WriteFails
  BY <1>4, <1>6 DEF WriteFails
<1>7. CASE Compare
  <2>1. UNCHANGED <<inputs, tree_index, forest_memory, packed_predictions, written>>
        /\ phase = "compare"
        /\ phase' = IF packed_predictions = reference THEN "done" ELSE "mismatch"
    BY <1>7 DEF Compare
  <2>2. MemoryInv' /\ (SamplesFit' <=> SamplesFit) /\ TestSamples' = TestSamples
    BY <2>1 DEF MemoryInv, SamplesFit, TestSamples, inputs
  <2>3. ProgressInv'
    BY <1>0, <2>1, <2>2 DEF ProgressInv, Exported
  <2>4. WrittenInv'
    BY <1>0, <2>1, <2>2 DEF WrittenInv, Exported, inputs
  <2> QED
    BY <2>1, <2>2, <2>3, <2>4 DEF inputs
<1>8. CASE UNCHANGED scriptVars
  <2>1. MemoryInv' /\ (SamplesFit' <=> SamplesFit) /\ TestSamples' = TestSamples
    BY <1>8 DEF MemoryInv, SamplesFit, TestSamples, scriptVars, inputs
  <2>2. ProgressInv' /\ WrittenInv'
    BY <1>8, <2>1 DEF ProgressInv, WrittenInv, scriptVars, inputs
  <2> QED
    BY <1>8, <2>1, <2>2 DEF scriptVars, inputs
<1> QED
  BY <1>1, <1>2, <1>3, <1>5, <1>6, <1>7, <1>8 DEF ScriptNext

THEOREM ScriptInvariant == ScriptSpec => []ScriptInv
  BY InitScript, NextScript, PTL DEF ScriptSpec

-------------------------------------------------------------------------------
(* The theorems. *)

\* Where there are words the samples have natural features.
LEMMA SamplesNat ==
  ASSUME ScriptInv, tree_index > 0, NEW s \in TestSamples
  PROVE  \A i \in Slot : integer_features[s][i] \in Nat
<1>1. SamplesFit /\ integer_features \in TestSets
  BY DEF ScriptInv, ProgressInv
<1> QED
  BY <1>1, ScriptAssumption DEF SamplesFit, TestSamples

\* Whatever trees were trained, the words that the script has made of them so far
\* decide every test sample as scikit-learn does (unless np.isclose has moved a
\* threshold that lies just below an even number).
THEOREM ExportedTreesDecide == ScriptSpec => []EngineDecidesLikeTheModel
<1>1. ScriptInv => EngineDecidesLikeTheModel
  <2> SUFFICES ASSUME ScriptInv, NEW t \in 0 .. tree_index - 1, NEW s \in TestSamples,
                      RoundsSafely(model[t])
               PROVE  traverse_tree(forest_memory, Doubled(integer_features[s]), t)
                        = { predict(model[t], integer_features[s]) }
    BY DEF EngineDecidesLikeTheModel
  <2>1. tree_index > 0 /\ t \in Trees
    BY ForestAssumption DEF ScriptInv, ProgressInv, Trees
  <2>2. IsSourceTree(model[t])
    BY <2>1, ScriptAssumption DEF ScriptInv
  <2>3. Exportable(model[t]) /\ Holds(forest_memory, t, model[t])
    BY DEF ScriptInv, MemoryInv
  <2>4. \A i \in Slot : integer_features[s][i] \in Nat
    BY <2>1, SamplesNat
  <2> QED
    BY <2>2, <2>3, <2>4, ExportDecidesAlike
<1> QED
  BY <1>1, ScriptInvariant, PTL

\* A complete export is a forest of words whose nodes name existing features.
LEMMA CompleteForest ==
  ASSUME ScriptInv, tree_index = TREE_COUNT
  PROVE  forest_memory \in Forest /\ WellFormed(forest_memory)
<1>1. forest_memory \in Forest
  BY DEF ScriptInv, Forest, Address
<1>2. ASSUME NEW a \in Address
      PROVE  forest_memory[a].feature_idx \in Slot
  <2>1. PICK t \in 0 .. TREE_COUNT - 1, h \in 0 .. NODES_PER_TREE - 1 :
               a = t * NODES_PER_TREE + h
    BY AddressOf, ForestAssumption DEF Address
  <2>2. Exportable(model[t]) /\ Holds(forest_memory, t, model[t])
    BY <2>1 DEF ScriptInv, MemoryInv
  <2> DEFINE n == HeapSource(model[t])[h]
  <2>3. forest_memory[a] = pack_node(model[t], n)
    BY <2>1, <2>2 DEF Holds, export_sklearn_node
  <2>4. Accepts(model[t], n, h)
    BY <2>1, <2>2 DEF Exportable
  <2> HIDE DEF n
  <2> QED
    BY <2>3, <2>4, PackedNode
<1> QED
  BY <1>1, <1>2 DEF WellFormed

\* The header that the firmware is compiled with is always a complete forest whose
\* nodes fit their fields and name existing features.
THEOREM HeaderWellFormed == ScriptSpec => []HeaderIsWellFormed
<1>1. ScriptInv => HeaderIsWellFormed
  <2> SUFFICES ASSUME ScriptInv, written >= NODES_HEADER
               PROVE  forest_memory \in Forest /\ WellFormed(forest_memory)
    BY DEF HeaderIsWellFormed
  <2>1. tree_index = TREE_COUNT
    BY DEF ScriptInv, WrittenInv, NODES_HEADER, FILE_COUNT
  <2> QED
    BY <2>1, CompleteForest
<1> QED
  BY <1>1, ScriptInvariant, PTL

LEMMA WrittenAnswers ==
  ASSUME ScriptInv, written > 0, NEW s \in TestSamples
  PROVE  /\ packed_predictions[s]
              = simulate_forest(forest_memory, Doubled(integer_features[s]))
         /\ Classify(forest_memory, Doubled(integer_features[s])) = { packed_predictions[s] }
<1>1. /\ tree_index = TREE_COUNT
      /\ packed_predictions
           = [r \in TestSamples |-> simulate_forest(forest_memory, Doubled(integer_features[r]))]
  BY DEF ScriptInv, WrittenInv
<1>2. packed_predictions[s] = simulate_forest(forest_memory, Doubled(integer_features[s]))
  BY <1>1
<1> QED
  BY <1>1, <1>2, CompleteForest, SimulationAnswers

\* simulate_forest, with which the script makes its verdict, gives the one answer
\* of the engine.
THEOREM SimulationFaithful == ScriptSpec => []SimulationIsTheEngine
<1>1. ScriptInv => SimulationIsTheEngine
  BY WrittenAnswers DEF SimulationIsTheEngine
<1> QED
  BY <1>1, ScriptInvariant, PTL

\* A script that ends without an exception has written all its files, and with them
\* the engine answers every test sample as the reference predictions say.
THEOREM SuccessMeansEquivalent == ScriptSpec => []DoneMeansEquivalent
<1>1. ScriptInv => DoneMeansEquivalent
  <2> SUFFICES ASSUME ScriptInv, phase = "done"
               PROVE  /\ written = FILE_COUNT
                      /\ \A s \in TestSamples :
                            Classify(forest_memory, Doubled(integer_features[s])) = { reference[s] }
    BY DEF DoneMeansEquivalent
  <2>1. written = FILE_COUNT /\ written > 0 /\ packed_predictions = reference
    BY DEF ScriptInv, WrittenInv, FILE_COUNT
  <2> QED
    BY <2>1, WrittenAnswers
<1> QED
  BY <1>1, ScriptInvariant, PTL

\* A mismatch is never caused by the export: it means an old reference or a
\* threshold that does not round safely.
THEOREM MismatchHasReason == ScriptSpec => []NoFalseAlarm
<1>1. ScriptInv => NoFalseAlarm
  <2> SUFFICES ASSUME ScriptInv, phase = "mismatch",
                      reference = Predictions(model, integer_features),
                      \A t \in Trees : RoundsSafely(model[t])
               PROVE  FALSE
    BY DEF NoFalseAlarm
  <2>1. /\ written > 0 /\ tree_index = TREE_COUNT /\ tree_index > 0
        /\ packed_predictions # reference
        /\ packed_predictions = [s \in TestSamples |->
                simulate_forest(forest_memory, Doubled(integer_features[s]))]
    BY ForestAssumption DEF ScriptInv, WrittenInv, ProgressInv, FILE_COUNT, Exported
  <2>2. ASSUME NEW s \in TestSamples
        PROVE  simulate_forest(forest_memory, Doubled(integer_features[s]))
                 = predict_hard_vote(model, integer_features[s])
    <3> DEFINE x == integer_features[s]
    <3>1. \A i \in Slot : x[i] \in Nat
      BY <2>1, SamplesNat
    <3>2. ASSUME NEW t \in Trees
          PROVE  simulate_tree(forest_memory, t, Doubled(x)) = predict(model[t], x)
      <4>1. IsSourceTree(model[t])
        BY ScriptAssumption DEF ScriptInv
      <4>2. Exportable(model[t]) /\ Holds(forest_memory, t, model[t])
        BY <2>1 DEF ScriptInv, MemoryInv, Trees
      <4>3. traverse_tree(forest_memory, Doubled(x), t) = { predict(model[t], x) }
        BY <3>1, <4>1, <4>2, ExportDecidesAlike
      <4>4. traverse_tree(forest_memory, Doubled(x), t)
              = { simulate_tree(forest_memory, t, Doubled(x)) }
        BY <2>1, CompleteForest, SimulatesWalk
      <4> QED
        BY <4>3, <4>4
    <3>3. [t \in Trees |-> simulate_tree(forest_memory, t, Doubled(x))]
            = [t \in Trees |-> predict(model[t], x)]
      BY <3>2
    <3> QED
      BY <3>3 DEF simulate_forest, predict_hard_vote
  <2>3. packed_predictions = Predictions(model, integer_features)
    BY <2>1, <2>2 DEF Predictions, TestSamples
  <2> QED
    BY <2>1, <2>3
<1> QED
  BY <1>1, ScriptInvariant, PTL

\* Type correctness of the script.
THEOREM ScriptTypeCorrect == ScriptSpec => []ScriptTypeOK
<1>1. ScriptInv => ScriptTypeOK
  <2> SUFFICES ASSUME ScriptInv PROVE ScriptTypeOK
    OBVIOUS
  <2>1. ASSUME written > 0
        PROVE  packed_predictions \in [TestSamples -> 0 .. CLASS_COUNT - 1]
    <3>1. \A p : argmax_bincount(p) \in 0 .. CLASS_COUNT - 1
      BY ArgmaxIsAggregate, VoteElectsPlurality DEF IsPlurality
    <3>2. packed_predictions = [s \in TestSamples |->
             simulate_forest(forest_memory, Doubled(integer_features[s]))]
      BY <2>1 DEF ScriptInv, WrittenInv
    <3>3. \A s \in TestSamples :
             simulate_forest(forest_memory, Doubled(integer_features[s])) \in 0 .. CLASS_COUNT - 1
      BY <3>1 DEF simulate_forest
    <3> QED
      BY <3>2, <3>3
  <2> QED
    BY <2>1 DEF ScriptTypeOK, ScriptInv, ProgressInv, WrittenInv, Exported
<1> QED
  BY <1>1, ScriptInvariant, PTL

-------------------------------------------------------------------------------
(* The engine in any environment. *)

\* The write ports keep the memories well-typed.
LEMMA StoresType ==
  ASSUME EngineTypeOK,
         NEW featurePort \in FeatureWrites, NEW treePort \in TreeWrites,
         FeatureStore(featurePort), TreeStore(treePort)
  PROVE  features' \in FeatureBank /\ tree_memory' \in Forest
<1>1. features' \in FeatureBank
  BY PortAssumption DEF EngineTypeOK, FeatureStore, FeatureBank
<1>2. tree_memory' \in Forest
  <2> HIDE DEF Node
  <2> QED
    BY PortAssumption DEF EngineTypeOK, TreeStore, Forest
<1> QED
  BY <1>1, <1>2

LEMMA InitInv == HistoryInit => PipelineInv
BY PowerUpAssumption DEF HistoryInit, EngineInit, PipelineInv, HistoryTypeOK, EngineTypeOK,
   ReadyIffIdle, AnswerIsPlurality

\* One step of the state machine keeps the invariant.
LEMMA NextInv == PipelineInv /\ [HistoryNext]_historyVars => PipelineInv'
<1> SUFFICES ASSUME PipelineInv, [HistoryNext]_historyVars
             PROVE  PipelineInv'
  OBVIOUS
<1> USE DEF PipelineInv, HistoryTypeOK, EngineTypeOK, ReadyIffIdle, AnswerIsPlurality
<1>1. CASE UNCHANGED historyVars
  BY <1>1 DEF historyVars, engineVars
<1>2. ASSUME NEW rst \in BOOLEAN, NEW start \in BOOLEAN,
             NEW featurePort \in FeatureWrites, NEW treePort \in TreeWrites,
             Clock(rst, start, featurePort, treePort)
      PROVE  PipelineInv'
  <2>1. features' \in FeatureBank /\ tree_memory' \in Forest
    BY <1>2, StoresType DEF Clock, EngineClk
  <2>2. CASE rst /\ EngineReset
    BY <1>2, <2>1, <2>2 DEF Clock, EngineReset, Results
  <2>3. CASE ~rst /\ Idle(start)
    BY <1>2, <2>1, <2>3, ClassifyType DEF Clock, Idle, Accept
  <2>4. CASE ~rst /\ Predict
    <3>1. tree_predictions' \in [Trees -> Class]
      BY <2>4 DEF Predict, TreePredictions
    <3>2. aggregate_predictions(tree_predictions') \in asked
      BY <2>4 DEF Predict, Classify
    <3> QED
      BY <1>2, <2>1, <2>4, <3>1, <3>2 DEF Clock, Predict, Accept
  <2>5. CASE ~rst /\ Aggregate
    <3>1. result' \in Results
      BY <2>5 DEF Aggregate, Results
    <3>2. IsPlurality(tree_predictions', result')
      BY <2>5, VoteElectsPlurality DEF Aggregate
    <3> QED
      BY <1>2, <2>1, <2>5, <3>1, <3>2 DEF Clock, Aggregate, Accept
  <2>6. CASE ~rst /\ Done
    BY <1>2, <2>1, <2>6 DEF Clock, Done, Accept
  <2> QED
    BY <1>2, <2>2, <2>3, <2>4, <2>5, <2>6 DEF Clock, EngineClk, StateMachine
<1> QED
  BY <1>1, <1>2 DEF HistoryNext

THEOREM PipelineInvariant == HistorySpec => []PipelineInv
BY InitInv, NextInv, PTL DEF HistorySpec

\* Every register keeps its type, whatever the environment does.
THEOREM TypeCorrect == HistorySpec => []HistoryTypeOK
<1>1. PipelineInv => HistoryTypeOK
  BY DEF PipelineInv
<1> QED
  BY <1>1, PipelineInvariant, PTL

\* The machine never waits in IDLE with ready low, where no start would be
\* accepted any more.
THEOREM NeverStuckIdle == HistorySpec => []ReadyIffIdle
<1>1. PipelineInv => ReadyIffIdle
  BY DEF PipelineInv
<1> QED
  BY <1>1, PipelineInvariant, PTL

\* Every answer is the lowest of the classes with the most votes.
THEOREM AnswersByPlurality == HistorySpec => []AnswerIsPlurality
<1>1. PipelineInv => AnswerIsPlurality
  BY DEF PipelineInv
<1> QED
  BY <1>1, PipelineInvariant, PTL

-------------------------------------------------------------------------------
(* The refinement of Classifier. *)

LEMMA InitRefines == HistoryInit => C!Init
BY DEF HistoryInit, C!Init

LEMMA NextRefines == PipelineInv /\ PipelineInv' /\ [HistoryNext]_historyVars
                        => [C!Next]_C!classifierVars
<1> SUFFICES ASSUME PipelineInv, PipelineInv', [HistoryNext]_historyVars
             PROVE  [C!Next]_C!classifierVars
  OBVIOUS
<1> USE DEF PipelineInv, HistoryTypeOK, EngineTypeOK, ReadyIffIdle, C!classifierVars
<1>1. CASE UNCHANGED historyVars
  BY <1>1 DEF historyVars, engineVars
<1>2. ASSUME NEW rst \in BOOLEAN, NEW start \in BOOLEAN,
             NEW featurePort \in FeatureWrites, NEW treePort \in TreeWrites,
             Clock(rst, start, featurePort, treePort)
      PROVE  [C!Next]_C!classifierVars
  <2>1. CASE rst /\ EngineReset
    <3>1. C!Reset
      BY <1>2, <2>1 DEF Clock, EngineReset, C!Reset
    <3> QED
      BY <3>1 DEF C!Next
  <2>2. CASE ~rst /\ Idle(start) /\ Accept(start)
    <3>1. asked' = Classify(tree_memory', features')
      BY <1>2, <2>2 DEF Clock
    <3>2. asked' # {} /\ asked' \subseteq Results
      BY <3>1, ClassifyType
    <3>3. C!Ask
      BY <2>2, <3>2 DEF Idle, Accept, C!Ask, C!NoAnswer
    <3> QED
      BY <3>3 DEF C!Next
  <2>3. CASE ~rst /\ Idle(start) /\ ~Accept(start)
    BY <1>2, <2>3 DEF Clock, Idle
  <2>4. CASE ~rst /\ (Predict \/ Aggregate)
    BY <1>2, <2>4 DEF Clock, Predict, Aggregate, Accept
  <2>5. CASE ~rst /\ Done
    <3>1. C!Reply
      BY <1>2, <2>5 DEF Clock, Done, Accept, C!Reply
    <3> QED
      BY <3>1 DEF C!Next
  <2> QED
    BY <1>2, <2>1, <2>2, <2>3, <2>4, <2>5 DEF Clock, EngineClk, StateMachine
<1> QED
  BY <1>1, <1>2 DEF HistoryNext

\* Whatever the environment writes and whenever it starts, the engine's answers
\* are right for the memories at the edge that accepted the start.
THEOREM ImplementsClassifier == HistorySpec => Classifies
BY InitRefines, NextRefines, PipelineInvariant, PTL
   DEF HistorySpec, Classifies, C!SafetySpec

-------------------------------------------------------------------------------
(* The bus. *)

\* No instruction but the program's next access reaches a device.
LEMMA BusCases ==
  ASSUME InstrInv
  PROVE  bus = Nothing \/ (state = "EXECUTE" /\ bus = CurrentAccess)
<1> SUFFICES ASSUME custom_valid \/ io_wstrb
             PROVE  state = "EXECUTE" /\ bus = CurrentAccess
  BY DEF bus
<1>1. state = "EXECUTE"
  BY DEF custom_valid, io_wstrb, Executing
<1>2. instr \notin OtherInstrs
  BY DEF custom_valid, io_wstrb, isCUSTOM0, isStore, OtherInstrs
<1>3. instr = ProgramInstr
  BY <1>1, <1>2 DEF InstrInv
<1>4. instr.bus = CurrentAccess
  BY <1>3 DEF ProgramInstr
<1> QED
  BY <1>1, <1>4 DEF bus

\* What the access at pc does to the memories and the start pulse.
LEMMA AccessEffect ==
  ASSUME TypeOK, bus = CurrentAccess, PeripheralClk(reset, bus)
  PROVE  /\ IF pc = "tree_write"
            THEN tree_memory' = [tree_memory EXCEPT ![address] = FOREST[address]]
            ELSE UNCHANGED tree_memory
         /\ IF pc = "feature_write"
            THEN features' = [features EXCEPT ![feature_index] =
                                 SAMPLES[sample_index][feature_index]]
            ELSE UNCHANGED features
         /\ rf_start_pulse' = (reset /\ pc = "start")
         /\ UNCHANGED <<rf_reg_sel, rf_feature_addr, rf_tree_addr>> \/ ~reset
<1> USE DEF FeatureStore, TreeStore, RegistersClk, FeaturePort, TreePort,
            custom_rf_feature, custom_rf_tmem, custom_rf_start, DataStore,
            CustomIs, StoresTo, WriteTo, NoWrite
<1>0. /\ FeatureStore(FeaturePort(bus))
      /\ TreeStore(TreePort(bus))
      /\ RegistersClk(reset, bus)
      /\ pc \in Accesses
  BY DEF PeripheralClk, EngineClk, TypeOK, FirmwareTypeOK
<1>1. CASE pc = "tree_write"
  <2>1. /\ bus.kind = "custom" /\ bus.funct3 = 7
        /\ bus.rs1 = address /\ bus.rs2 = FOREST[address]
    BY <1>1 DEF CurrentAccess, Custom
  <2>2. address \in Address /\ address % 256 = address
    BY WidthAssumption, ForestAssumption DEF Address, TypeOK, FirmwareTypeOK
  <2>3. /\ TreePort(bus).we /\ TreePort(bus).addr = address
        /\ TreePort(bus).data = FOREST[address]
    BY <2>1, <2>2
  <2>4. ~FeaturePort(bus).we
    BY <2>1
  <2>5. rf_start_pulse' = FALSE
    <3>1. ~custom_rf_start(bus) /\ ~DataStore(bus, RF_REG_START)
      BY <2>1
    <3> HIDE DEF custom_rf_start, DataStore
    <3> QED
      BY <1>0, <3>1, Zenon
  <2>6. UNCHANGED <<rf_reg_sel, rf_feature_addr, rf_tree_addr>> \/ ~reset
    BY <1>0, <2>1
  <2> HIDE DEF FeaturePort, TreePort
  <2> QED
    BY <1>0, <1>1, <2>2, <2>3, <2>4, <2>5, <2>6
<1>2. CASE pc = "feature_write"
  <2>1. /\ bus.kind = "custom" /\ bus.funct3 = 3
        /\ bus.rs1 = feature_index
        /\ bus.rs2 = SAMPLES[sample_index][feature_index]
    BY <1>2 DEF CurrentAccess, Custom
  <2>2. feature_index \in Slot /\ feature_index % 32 = feature_index
    BY WidthAssumption, ForestAssumption DEF Slot, TypeOK, FirmwareTypeOK
  <2>3. /\ FeaturePort(bus).we /\ FeaturePort(bus).addr = feature_index
        /\ FeaturePort(bus).data = SAMPLES[sample_index][feature_index]
    BY <2>1, <2>2
  <2>4. ~TreePort(bus).we
    BY <2>1
  <2>5. rf_start_pulse' = FALSE
    <3>1. ~custom_rf_start(bus) /\ ~DataStore(bus, RF_REG_START)
      BY <2>1
    <3> HIDE DEF custom_rf_start, DataStore
    <3> QED
      BY <1>0, <3>1, Zenon
  <2>6. UNCHANGED <<rf_reg_sel, rf_feature_addr, rf_tree_addr>> \/ ~reset
    BY <1>0, <2>1
  <2> HIDE DEF FeaturePort, TreePort
  <2> QED
    BY <1>0, <1>2, <2>2, <2>3, <2>4, <2>5, <2>6
<1>3. CASE pc \in {"start", "status", "result"}
  <2>1. bus.kind = "custom" /\ bus.funct3 = IF pc = "start" THEN 2
                                            ELSE IF pc = "status" THEN 1 ELSE 0
    BY <1>3 DEF CurrentAccess, Custom
  <2> QED
    BY <1>0, <1>3, <2>1
<1>4. CASE pc \in {"dbg_addr", "dbg_data", "show_class", "summary"}
  <2>1. bus.kind = "store" /\ bus.sel \in {"DBG_ADDR", "DBG_DATA", "LEDS"}
    BY <1>4 DEF CurrentAccess, Store
  <2> QED
    BY <1>0, <1>4, <2>1
<1> QED
  BY <1>0, <1>1, <1>2, <1>3, <1>4 DEF Accesses

\* Without an access nothing happens to them.
LEMMA QuietEffect ==
  ASSUME bus = Nothing, PeripheralClk(reset, bus)
  PROVE  /\ UNCHANGED <<tree_memory, features>>
         /\ rf_start_pulse' = FALSE
         /\ UNCHANGED <<rf_reg_sel, rf_feature_addr, rf_tree_addr>> \/ ~reset
BY DEF Nothing, PeripheralClk, EngineClk, FeatureStore, TreeStore, RegistersClk,
       FeaturePort, TreePort, custom_rf_feature, custom_rf_tmem,
       custom_rf_start, DataStore, CustomIs, StoresTo, NoWrite

-------------------------------------------------------------------------------
(* Types. *)

LEMMA ResultsNat == Results \subseteq Nat
<1>1. ASSUME NEW p
      PROVE  aggregate_predictions(p) \in Nat
  BY VoteElectsPlurality, ForestAssumption DEF IsPlurality
<1> QED
  BY <1>1 DEF Results

\* The firmware stores numbers.
LEMMA StoreNat ==
  ASSUME TypeOK, AccessInv, bus = CurrentAccess, bus.kind = "store"
  PROVE  bus.data \in Nat
<1> USE DEF TypeOK, FirmwareTypeOK, AccessInv
<1>0. /\ prediction \in Nat /\ prediction % 4 \in 0 .. 3
      /\ reference_matches % 16 \in Nat /\ label_matches % 16 \in Nat
      /\ last_cycles % 16 \in Nat
      /\ EXPECTED[sample_index] \in Nat /\ sample_index \in Nat
  BY ResultsNat, FirmwareAssumption DEF Sample
<1>1. pc \in {"dbg_addr", "dbg_data", "show_class", "summary"}
  BY DEF CurrentAccess, Custom, Accesses
<1>2. CASE pc = "dbg_addr"
  <2>1. access \in {1, 2, 3, 4, 5} /\ bus.data = DebugSequence[access].reg
    BY <1>2 DEF CurrentAccess, Store
  <2> QED
    BY <1>0, <2>1 DEF DebugSequence
<1>3. CASE pc = "dbg_data"
  <2>1. access \in {1, 2, 3, 4, 5} /\ bus.data = DebugSequence[access].value
    BY <1>3 DEF CurrentAccess, Store
  <2> QED
    BY <1>0, <2>1 DEF DebugSequence
<1>4. CASE pc = "show_class"
  <2>1. access \in {1, 2} /\ bus.data = ClassSequence[access]
    BY <1>4 DEF CurrentAccess, Store
  <2>2. <<1, 2, 4, 8>>[1 + (prediction % 4)] \in Nat
    BY <1>0
  <2> QED
    BY <2>1, <2>2 DEF ClassSequence
<1>5. CASE pc = "summary"
  <2>1. /\ access \in {1, 2, 3, 4, 5, 6, 7, 8, 9, 10}
        /\ bus.data = SummarySequence[access]
    BY <1>5 DEF CurrentAccess, Store
  <2> QED
    BY <1>0, <2>1 DEF SummarySequence
<1> QED
  BY <1>1, <1>2, <1>3, <1>4, <1>5

LEMMA DebugType ==
  ASSUME TypeOK, AccessInv, InstrInv, Devices
  PROVE  DebugTypeOK'
<1>1. StoresTo(bus, "DBG_DATA") \/ StoresTo(bus, "DBG_ADDR") \/ StoresTo(bus, "LEDS")
        => bus.data \in Nat
  BY BusCases, StoreNat DEF StoresTo, Nothing
<1>2. DebugClk(reset, bus) /\ LedsClk(bus) /\ DebugTypeOK
  BY DEF Devices, TypeOK
<1>3. dbg_reg_sel' \in 0 .. 15 /\ led_state' \in 0 .. 15
  BY <1>1, <1>2 DEF DebugClk, LedsClk, DebugTypeOK
<1>4. dbg_pulse' \in BOOLEAN
  BY <1>2 DEF DebugClk
<1>5. ASSUME NEW reg, NEW old \in Nat
      PROVE  Loaded(reset, bus, reg, old) \in Nat
  BY <1>1 DEF Loaded
<1> QED
  BY <1>2, <1>3, <1>4, <1>5 DEF DebugClk, DebugTypeOK

LEMMA PeripheralType ==
  ASSUME TypeOK, InstrInv, Devices
  PROVE  PeripheralTypeOK'
<1> USE DEF TypeOK, PeripheralTypeOK, EngineTypeOK, FirmwareTypeOK
<1>1. PeripheralClk(reset, bus)
  BY DEF Devices
<1>2. features' \in FeatureBank /\ tree_memory' \in Forest
  <2>1. /\ FOREST[address] \in Node
        /\ SAMPLES[sample_index][feature_index] \in FeatureValue
    BY FirmwareAssumption DEF Forest, FeatureBank
  <2>2. CASE bus = Nothing
    BY <1>1, <2>2, QuietEffect
  <2>3. CASE bus = CurrentAccess
    <3>1. tree_memory' \in Forest
      <4> HIDE DEF Node
      <4> QED
        BY <1>1, <2>1, <2>3, AccessEffect DEF Forest
    <3>2. features' \in FeatureBank
      BY <1>1, <2>1, <2>3, AccessEffect DEF FeatureBank
    <3> QED
      BY <3>1, <3>2
  <2> QED
    BY <2>2, <2>3, BusCases
<1>3. /\ tree_predictions' \in [Trees -> Class]
      /\ rf_state' \in {"IDLE", "PREDICT", "AGGREGATE", "DONE"}
      /\ ready' \in {0, 1}
      /\ result' \in Results
  BY <1>1 DEF PeripheralClk, EngineClk, StateMachine, EngineReset, Idle, Predict,
     Aggregate, Done, TreePredictions, Results
<1>4. /\ rf_reg_sel' \in 0 .. 15
      /\ rf_feature_addr' \in 0 .. 31
      /\ rf_tree_addr' \in 0 .. 255
  <2>1. CASE reset
    <3>1. UNCHANGED <<rf_reg_sel, rf_feature_addr, rf_tree_addr>>
      BY <1>1, <2>1, BusCases, QuietEffect, AccessEffect
    <3> QED
      BY <3>1
  <2>2. CASE ~reset
    BY <1>1, <2>2 DEF PeripheralClk, RegistersClk
  <2> QED
    BY <2>1, <2>2
<1>5. rf_start_pulse' \in BOOLEAN
  BY <1>1 DEF PeripheralClk, RegistersClk
<1> QED
  BY <1>2, <1>3, <1>4, <1>5

\* Each access of the firmware, with the bus cycle it makes.
FirmwareStep ==
    \/ TreeWrite \/ FeatureWrite \/ Start \/ Poll(ready) \/ FetchResult(result)
    \/ DebugSelect \/ DebugData \/ ShowClass \/ Summary

\* The kinds of steps: the program is restarted, stays where it is, or makes
\* the access that is on the bus.
LEMMA StepCases ==
  ASSUME SystemInv, Next
  PROVE  /\ Devices
         /\ \/ ~cpuReset /\ HoldReset /\ Restart
            \/ cpuReset /\ bus = Nothing /\ UNCHANGED firmwareVars
            \/ /\ cpuReset /\ bus = CurrentAccess /\ Execute
               /\ instr = ProgramInstr
               /\ FirmwareStep
<1>1. CASE CpuReset
  BY <1>1 DEF CpuReset
<1>2. CASE Fetch \/ LatchOther \/ LatchAccess \/ Wait \/ ExecuteOther
  <2>1. CASE state # "EXECUTE"
    <3>1. bus = Nothing
      BY <2>1 DEF bus, custom_valid, io_wstrb, Executing
    <3> QED
      BY <1>2, <2>1, <3>1 DEF Fetch, LatchOther, LatchAccess, Wait, ExecuteOther
  <2>2. CASE state = "EXECUTE"
    BY <1>2, <2>2 DEF Fetch, LatchOther, LatchAccess, Wait, ExecuteOther,
       FetchInstr, WaitInstr, WaitAluOrMem
  <2> QED
    BY <2>1, <2>2
<1>3. ASSUME NEW ACTION step, ExecuteAccess(step)
      PROVE  /\ cpuReset /\ bus = CurrentAccess /\ Execute
             /\ instr = ProgramInstr
             /\ Devices
  <2>1. bus = CurrentAccess /\ state = "EXECUTE" /\ bus # Nothing
    BY <1>3, BusCases DEF SystemInv, ExecuteAccess
  <2>2. instr \notin OtherInstrs
    BY <2>1 DEF bus, custom_valid, io_wstrb, isCUSTOM0, isStore, OtherInstrs
  <2> QED
    BY <1>3, <2>1, <2>2 DEF SystemInv, InstrInv, ExecuteAccess
<1>4. CASE \/ ExecTreeWrite \/ ExecFeatureWrite \/ ExecStart \/ ExecPoll
           \/ ExecFetchResult \/ ExecDebugSelect \/ ExecDebugData
           \/ ExecShowClass \/ ExecSummary
  <2>1. FirmwareStep
    BY <1>4 DEF ExecTreeWrite, ExecFeatureWrite, ExecStart, ExecPoll,
       ExecFetchResult, ExecDebugSelect, ExecDebugData, ExecShowClass,
       ExecSummary, ExecuteAccess, FirmwareStep, custom_rdata
  <2>2. /\ cpuReset /\ bus = CurrentAccess /\ Execute
        /\ instr = ProgramInstr
        /\ Devices
    BY <1>3, <1>4 DEF ExecTreeWrite, ExecFeatureWrite, ExecStart, ExecPoll,
       ExecFetchResult, ExecDebugSelect, ExecDebugData, ExecShowClass, ExecSummary
  <2> QED
    BY <2>1, <2>2
<1> QED
  BY <1>1, <1>2, <1>4 DEF Next

LEMMA FirmwareType ==
  ASSUME SystemInv, Next
  PROVE  FirmwareTypeOK'
<1> USE DEF SystemInv, TypeOK, FirmwareTypeOK, PeripheralTypeOK, EngineTypeOK
<1>1. CASE Restart
  BY <1>1, ForestAssumption, FirmwareAssumption
     DEF Restart, Accesses, Address, Slot, Sample, Results
<1>2. CASE UNCHANGED firmwareVars
  BY <1>2 DEF firmwareVars
<1>3. CASE FirmwareStep
  <2>1. Match(result, EXPECTED) \in Nat /\ Match(result, LABELS) \in Nat
    BY DEF Match
  <2>2. CASE TreeWrite \/ FeatureWrite \/ Start \/ Poll(ready)
    BY <2>2 DEF TreeWrite, FeatureWrite, Start, Poll, Accesses, counters
  <2>3. CASE FetchResult(result)
    BY <2>1, <2>3, FirmwareAssumption DEF FetchResult, Accesses
  <2>4. CASE DebugSelect \/ DebugData
    BY <2>4 DEF DebugSelect, DebugData, Accesses, counters
  <2>a. 0 \in Slot /\ 0 \in Sample
    BY ForestAssumption, FirmwareAssumption DEF Slot, Sample
  <2>5. CASE ShowClass \/ Summary
    <3>1. /\ feature_index' \in Slot /\ sample_index' \in Sample
          /\ access' \in 1 .. 10 /\ pc' \in Accesses
      BY <2>5, <2>a DEF ShowClass, Summary, Accesses
    <3>2. /\ reference_matches' \in Nat /\ label_matches' \in Nat
          /\ last_cycles' \in Nat /\ UNCHANGED <<address, prediction>>
      BY <2>5 DEF ShowClass, Summary, counters
    <3> QED
      BY <3>1, <3>2
  <2> QED
    BY <1>3, <2>2, <2>3, <2>4, <2>5 DEF FirmwareStep
<1> QED
  BY <1>1, <1>2, <1>3, StepCases

\* Every action moves the shifter, and the processor's state with it.
LEMMA QuarkSteps ==
  ASSUME Next
  PROVE  Shifter /\ state' \in States
BY DEF Next, CpuReset, Fetch, LatchOther, LatchAccess, Wait, ExecuteOther,
       ExecTreeWrite, ExecFeatureWrite, ExecStart, ExecPoll, ExecFetchResult,
       ExecDebugSelect, ExecDebugData, ExecShowClass, ExecSummary, ExecuteAccess,
       HoldReset, FetchInstr, WaitInstr, WaitAluOrMem, Execute, States

LEMMA TypeInv ==
  ASSUME SystemInv, Next
  PROVE  TypeOK'
<1> USE DEF SystemInv
<1>1. PeripheralTypeOK' /\ DebugTypeOK' /\ FirmwareTypeOK'
  BY StepCases, PeripheralType, DebugType, FirmwareType
<1>2. aluShamt' \in 0 .. SHAMT_MAX
  <2>1. Executing /\ isShift => instr.shamt \in 0 .. SHAMT_MAX
    BY DEF InstrInv, Executing, isShift, OtherInstrs, ProgramInstr
  <2>2. aluShamt \in 0 .. SHAMT_MAX /\ SHAMT_MAX \in Nat
    BY ShamtAssumption DEF TypeOK
  <2> QED
    BY <2>1, <2>2, QuarkSteps DEF Shifter, aluBusy
<1>3. reset_cnt' \in 0 .. RESET_CNT_MAX /\ RESET' \in BOOLEAN /\ uart_brk' \in BOOLEAN
  <2>1. ResetCounter /\ Pins
    BY StepCases DEF Devices
  <2>2. reset_cnt' \in 0 .. RESET_CNT_MAX
    BY <2>1, SoCAssumption DEF ResetCounter, TypeOK, reset
  <2>3. uart_brk' \in BOOLEAN
    <3>1. (IF UART THEN BOOLEAN ELSE {FALSE}) \subseteq BOOLEAN
      OBVIOUS
    <3> QED
      BY <2>1, <3>1 DEF Pins
  <2> QED
    BY <2>1, <2>2, <2>3 DEF Pins
<1> QED
  BY <1>1, <1>2, <1>3, QuarkSteps DEF TypeOK

\* An instruction is latched by WaitInstr and kept while it is in EXECUTE.
LEMMA InstrStep ==
  ASSUME SystemInv, Next
  PROVE  InstrInv'
<1> SUFFICES ASSUME state' = "EXECUTE"
             PROVE  instr' \in (OtherInstrs \cup {ProgramInstr})'
  BY DEF InstrInv
<1>1. LatchOther \/ LatchAccess
  BY DEF Next, CpuReset, Fetch, Wait, ExecuteOther,
       ExecTreeWrite, ExecFeatureWrite, ExecStart, ExecPoll, ExecFetchResult,
       ExecDebugSelect, ExecDebugData, ExecShowClass, ExecSummary, ExecuteAccess,
       HoldReset, FetchInstr, WaitAluOrMem, Execute
<1>2. UNCHANGED firmwareVars /\ instr' \in OtherInstrs \cup {ProgramInstr}
  BY <1>1 DEF LatchOther, LatchAccess, WaitInstr
<1>3. CurrentAccess' = CurrentAccess
  BY <1>2 DEF firmwareVars, CurrentAccess, DebugSequence, ClassSequence,
     SummarySequence
<1>4. ProgramInstr' = ProgramInstr
  BY <1>3 DEF ProgramInstr
<1>5. OtherInstrs' = OtherInstrs
  BY DEF OtherInstrs
<1> QED
  BY <1>2, <1>4, <1>5

LEMMA AccessStep ==
  ASSUME SystemInv, Next
  PROVE  AccessInv'
<1> USE DEF SystemInv, TypeOK, FirmwareTypeOK, AccessInv
<1>1. CASE Restart
  BY <1>1 DEF Restart
<1>2. CASE UNCHANGED firmwareVars
  BY <1>2 DEF firmwareVars
<1>3. CASE FirmwareStep
  BY <1>3 DEF FirmwareStep, TreeWrite, FeatureWrite, Start, Poll, FetchResult,
     DebugSelect, DebugData, ShowClass, Summary, counters
<1> QED
  BY <1>1, <1>2, <1>3, StepCases

-------------------------------------------------------------------------------
(* Loading. *)

LEMMA LoadStep ==
  ASSUME SystemInv, Next
  PROVE  LoadInv'
<1> USE DEF SystemInv, TypeOK, FirmwareTypeOK, PeripheralTypeOK, EngineTypeOK
<1>0. PeripheralClk(reset, bus)
  BY StepCases DEF Devices
<1>a. /\ FOREST \in Forest /\ tree_memory \in Forest
      /\ features \in FeatureBank
      /\ SAMPLES[sample_index] \in FeatureBank
  BY FirmwareAssumption
<1>1. CASE bus = Nothing /\ UNCHANGED firmwareVars
  <2>1. UNCHANGED <<tree_memory, features>> /\ ~rf_start_pulse'
    BY <1>0, <1>1, QuietEffect
  <2> QED
    BY <1>1, <2>1 DEF LoadInv, firmwareVars
<1>2. CASE Restart
  <2>1. /\ pc' = "tree_write" /\ address' = 0 /\ feature_index' = 0
        /\ 0 .. address' - 1 = {}
    BY <1>2 DEF Restart
  <2>2. rf_start_pulse' => /\ tree_memory' = FOREST
                           /\ \E s \in Sample : features' = SAMPLES[s]
    <3> SUFFICES ASSUME rf_start_pulse'
                 PROVE  /\ tree_memory' = FOREST
                        /\ \E s \in Sample : features' = SAMPLES[s]
      OBVIOUS
    <3>1. bus = CurrentAccess /\ pc = "start"
      BY <1>0, BusCases, QuietEffect, AccessEffect
    <3>2. UNCHANGED <<tree_memory, features>>
      BY <1>0, <3>1, AccessEffect
    <3> QED
      BY <3>1, <3>2 DEF LoadInv
  <2> QED
    BY <2>1, <2>2 DEF LoadInv
<1>3. CASE bus = CurrentAccess /\ FirmwareStep
  <2>1. rf_start_pulse' => pc = "start"
    BY <1>0, <1>3, AccessEffect
  <2>2. CASE TreeWrite
    <3>1. tree_memory' = [tree_memory EXCEPT ![address] = FOREST[address]]
      BY <1>0, <1>3, <2>2, AccessEffect DEF TreeWrite
    <3>2. \A a \in 0 .. address - 1 : tree_memory[a] = FOREST[a]
      BY <2>2 DEF TreeWrite, LoadInv
    <3>3. \A a \in 0 .. address : tree_memory'[a] = FOREST[a]
      BY <1>a, <3>1, <3>2 DEF Forest, Address
    <3>4. ~rf_start_pulse' /\ feature_index' = 0
      BY <2>1, <2>2 DEF TreeWrite, LoadInv
    <3>5. CASE address + 1 \in Address
      <4>1. pc' = "tree_write" /\ 0 .. address' - 1 = 0 .. address
        BY <2>2, <3>5 DEF TreeWrite, Address
      <4> QED
        BY <3>3, <3>4, <4>1 DEF LoadInv
    <3>6. CASE address + 1 \notin Address
      <4>1. Address = 0 .. address
        BY <3>6, ForestAssumption DEF Address
      <4>2. tree_memory' \in Forest
        <5> HIDE DEF Node
        <5>1. FOREST[address] \in Node
          BY <1>a DEF Forest
        <5> QED
          BY <1>a, <3>1, <5>1 DEF Forest
      <4>3. tree_memory' = FOREST
        BY <1>a, <3>3, <4>1, <4>2 DEF Forest
      <4>4. pc' = "feature_write"
        BY <2>2, <3>6 DEF TreeWrite
      <4> QED
        BY <3>4, <4>3, <4>4 DEF LoadInv
    <3> QED
      BY <3>5, <3>6
  <2>3. CASE FeatureWrite
    <3> DEFINE sample == SAMPLES[sample_index]
    <3>1. features' = [features EXCEPT ![feature_index] = sample[feature_index]]
      BY <1>0, <1>3, <2>3, AccessEffect DEF FeatureWrite
    <3>2. \A i \in 0 .. feature_index - 1 : features[i] = sample[i]
      BY <2>3 DEF FeatureWrite, LoadInv
    <3>3. \A i \in 0 .. feature_index : features'[i] = sample[i]
      BY <1>a, <3>1, <3>2 DEF FeatureBank, Slot
    <3>4. tree_memory' = FOREST /\ ~rf_start_pulse' /\ sample_index' = sample_index
      BY <1>0, <1>3, <2>1, <2>3, AccessEffect DEF FeatureWrite, LoadInv
    <3>5. CASE feature_index + 1 \in Slot
      <4>1. /\ pc' = "feature_write"
            /\ 0 .. feature_index' - 1 = 0 .. feature_index
        BY <2>3, <3>5 DEF FeatureWrite, Slot
      <4> QED
        BY <3>3, <3>4, <4>1 DEF LoadInv
    <3>6. CASE feature_index + 1 \notin Slot
      <4>1. Slot = 0 .. feature_index
        BY <3>6, ForestAssumption DEF Slot
      <4>2. features' \in FeatureBank
        BY <1>a, <3>1 DEF FeatureBank
      <4>3. features' = sample
        BY <1>a, <3>3, <4>1, <4>2 DEF FeatureBank
      <4>4. pc' = "start"
        BY <2>3, <3>6 DEF FeatureWrite
      <4> QED
        BY <3>4, <4>3, <4>4 DEF LoadInv
    <3> QED
      BY <3>5, <3>6
  <2>4. CASE ~TreeWrite /\ ~FeatureWrite
    <3>1. pc \notin {"tree_write", "feature_write"}
      BY <1>3, <2>4 DEF FirmwareStep, Start, Poll, FetchResult, DebugSelect,
         DebugData, ShowClass, Summary
    <3>2. UNCHANGED <<tree_memory, features>> /\ tree_memory = FOREST
      BY <1>0, <1>3, <3>1, AccessEffect DEF LoadInv
    <3>3. rf_start_pulse' => \E s \in Sample : features = SAMPLES[s]
      BY <2>1 DEF LoadInv
    <3>4. /\ pc' # "tree_write"
          /\ pc' = "feature_write" => feature_index' = 0
          /\ pc' \in {"start", "status"} => /\ pc \in {"start", "status"}
                                           /\ sample_index' = sample_index
      BY <1>3, <2>4 DEF FirmwareStep, Start, Poll, FetchResult, DebugSelect,
         DebugData, ShowClass, Summary
    <3> QED
      BY <3>2, <3>3, <3>4 DEF LoadInv
  <2> QED
    BY <2>2, <2>3, <2>4
<1> QED
  BY <1>1, <1>2, <1>3, StepCases

-------------------------------------------------------------------------------
(* The engine and the processor, step by step. *)

LEMMA EngineStep ==
  ASSUME Phase, reset, PeripheralClk(reset, bus)
  PROVE  /\ Resting => UNCHANGED <<rf_state, ready, result>>
         /\ rf_start_pulse => rf_state' = "PREDICT" /\ ready' = 0
         /\ rf_state = "PREDICT" =>
               /\ rf_state' = "AGGREGATE"
               /\ tree_predictions' \in TreePredictions(tree_memory, features)
               /\ UNCHANGED ready
         /\ rf_state = "AGGREGATE" =>
               /\ rf_state' = "DONE"
               /\ result' = aggregate_predictions(tree_predictions)
               /\ UNCHANGED ready
         /\ rf_state = "DONE" => /\ rf_state' = "IDLE"
                                 /\ ready' = 1
                                 /\ UNCHANGED result
BY DEF Phase, Resting, PeripheralClk, EngineClk, StateMachine, Idle, Accept,
       Predict, Aggregate, Done

LEMMA EngineInReset ==
  ASSUME ~reset, PeripheralClk(reset, bus)
  PROVE  rf_state' = "IDLE" /\ ready' = 1 /\ ~rf_start_pulse'
BY DEF PeripheralClk, EngineClk, StateMachine, EngineReset, RegistersClk

LEMMA QuarkTransitions ==
  ASSUME SystemInv, Next
  PROVE  /\ ~cpuReset => state' = "WAIT_ALU_OR_MEM"
         /\ cpuReset => /\ state = "FETCH_INSTR" => state' = "WAIT_INSTR"
                        /\ state = "WAIT_ALU_OR_MEM" =>
                              state' \in {"WAIT_ALU_OR_MEM", "FETCH_INSTR"}
BY DEF Next, CpuReset, Fetch, LatchOther, LatchAccess, Wait, ExecuteOther,
       ExecTreeWrite, ExecFeatureWrite, ExecStart, ExecPoll, ExecFetchResult,
       ExecDebugSelect, ExecDebugData, ExecShowClass, ExecSummary, ExecuteAccess,
       HoldReset, FetchInstr, WaitInstr, WaitAluOrMem, Execute

\* A custom instruction does not make the processor wait.
LEMMA StartFetchesNext ==
  ASSUME pc = "start", instr = ProgramInstr, Execute
  PROVE  state' = "FETCH_INSTR"
<1>1. instr.op = "CUSTOM0"
  BY DEF ProgramInstr, CurrentAccess, Custom
<1> QED
  BY <1>1 DEF Execute, needToWait, isLoad, isStore, isShift

LEMMA PhaseStep ==
  ASSUME SystemInv, Next
  PROVE  Phase'
<1> USE DEF SystemInv
<1>0. PeripheralClk(reset, bus)
  BY StepCases DEF Devices
<1>1. CASE ~reset
  BY <1>0, <1>1, EngineInReset DEF Phase, Resting
<1>2. CASE reset
  <2>0. Phase
    BY <1>2 DEF PowerUp
  <2> USE DEF Phase, Resting
  <2>a. /\ bus = Nothing => ~rf_start_pulse'
        /\ bus = CurrentAccess => (rf_start_pulse' <=> pc = "start")
    BY <1>0, <1>2, QuietEffect, AccessEffect
  <2>b. bus = Nothing \/ (bus = CurrentAccess /\ state = "EXECUTE")
    BY BusCases
  <2>1. ready' = 1 <=> rf_state' = "IDLE"
    <3>1. rf_state \in {"IDLE", "PREDICT", "AGGREGATE", "DONE"}
      BY DEF TypeOK, PeripheralTypeOK, EngineTypeOK
    <3> QED
      BY <1>0, <1>2, <2>0, <3>1, EngineStep
  <2>2. CASE Resting
    <3>1. rf_state' = "IDLE"
      BY <1>0, <1>2, <2>0, <2>2, EngineStep
    <3>2. CASE ~rf_start_pulse'
      BY <2>1, <3>1, <3>2
    <3>3. CASE rf_start_pulse'
      <4>1. pc = "start" /\ bus = CurrentAccess
        BY <2>a, <2>b, <3>3
      <4>2. CASE ~cpuReset
        <5>1. pc' = "tree_write" /\ state' = "WAIT_ALU_OR_MEM"
          BY <4>2, StepCases DEF Restart, HoldReset
        <5> QED
          BY <2>1, <3>1, <5>1
      <4>3. CASE cpuReset
        <5>1. Execute /\ instr = ProgramInstr /\ FirmwareStep
          BY <4>1, <4>3, StepCases DEF CurrentAccess, Custom, Nothing
        <5>2. pc' = "status"
          BY <4>1, <5>1 DEF FirmwareStep, TreeWrite, FeatureWrite, Start, Poll,
             FetchResult, DebugSelect, DebugData, ShowClass, Summary
        <5>3. state' = "FETCH_INSTR"
          BY <4>1, <5>1, StartFetchesNext
        <5> QED
          BY <2>1, <3>1, <5>2, <5>3
      <4> QED
        BY <4>2, <4>3
    <3> QED
      BY <3>2, <3>3
  <2>3. CASE ~Resting
    <3>1. pc \in {"status", "tree_write"}
      BY <2>0, <2>3
    <3>2. ~rf_start_pulse'
      BY <2>a, <2>b, <3>1
    <3>3. CASE ~cpuReset
      <4>1. pc' = "tree_write" /\ state' = "WAIT_ALU_OR_MEM"
        BY <3>3, StepCases DEF Restart, HoldReset
      <4> QED
        BY <2>1, <3>2, <4>1
    <3>4. CASE cpuReset /\ bus = Nothing /\ UNCHANGED firmwareVars
      <4>1. pc' = pc
        BY <3>4 DEF firmwareVars
      <4> QED
        BY <1>0, <1>2, <2>0, <2>1, <2>3, <3>1, <3>2, <3>4, <4>1, EngineStep,
           QuarkTransitions DEF TypeOK, PeripheralTypeOK, EngineTypeOK, States
    <3>5. CASE cpuReset /\ bus = CurrentAccess /\ Execute /\ FirmwareStep
      <4>1. state = "EXECUTE" /\ ~rf_start_pulse
        BY <2>0, <3>1, <3>5 DEF Execute
      <4>2. CASE pc = "tree_write"
        <5>1. rf_state = "DONE"
          BY <2>0, <2>3, <4>1, <4>2 DEF TypeOK, PeripheralTypeOK, EngineTypeOK
        <5> QED
          BY <1>0, <1>2, <2>0, <2>1, <3>2, <5>1, EngineStep
      <4>3. CASE pc = "status"
        <5>1. rf_state \in {"AGGREGATE", "DONE"} /\ ready = 0
          BY <2>0, <2>3, <4>1, <4>3 DEF TypeOK, PeripheralTypeOK, EngineTypeOK
        <5>2. pc' = "status"
          BY <3>5, <4>3, <5>1 DEF FirmwareStep, TreeWrite, FeatureWrite, Start,
             Poll, FetchResult, DebugSelect, DebugData, ShowClass, Summary
        <5> QED
          BY <1>0, <1>2, <2>0, <2>1, <3>2, <5>1, <5>2, EngineStep
      <4> QED
        BY <3>1, <4>2, <4>3
    <3> QED
      BY <3>3, <3>4, <3>5, StepCases
  <2> QED
    BY <2>2, <2>3
<1> QED
  BY <1>1, <1>2

\* The right answer reaches the firmware.
LEMMA AnswerStep ==
  ASSUME SystemInv, Next
  PROVE  AnswerInv'
<1> USE DEF SystemInv, PredictionIsRight
<1>0. PeripheralClk(reset, bus)
  BY StepCases DEF Devices
<1>a. Right(sample_index)' = Right(sample_index')
  BY DEF Right
<1>1. CASE ~cpuReset
  <2>1. pc' = "tree_write"
    BY <1>1, StepCases DEF Restart
  <2> QED
    BY <2>1 DEF AnswerInv
<1>2. CASE cpuReset
  <2>0. reset /\ Phase
    BY <1>2 DEF cpuReset, PowerUp
  <2>a. rf_state \in {"IDLE", "PREDICT", "AGGREGATE", "DONE"} /\ pc \in Accesses
    BY DEF TypeOK, PeripheralTypeOK, EngineTypeOK, FirmwareTypeOK
  <2>1. CASE pc = "status" /\ pc' = "status"
    <3>1. sample_index' = sample_index
      BY <1>2, <2>1, StepCases DEF firmwareVars, FirmwareStep, TreeWrite,
         FeatureWrite, Start, Poll, FetchResult, DebugSelect, DebugData,
         ShowClass, Summary
    <3>2. rf_state = "PREDICT" =>
             aggregate_predictions(tree_predictions') \in Right(sample_index)
      BY <1>0, <2>0, <2>1, EngineStep DEF LoadInv, Right, Classify
    <3>3. rf_state' = "AGGREGATE" => rf_state = "PREDICT"
      BY <1>0, <2>0, <2>a, EngineStep DEF Phase, Resting
    <3>4. rf_state' = "DONE" => rf_state = "AGGREGATE"
      BY <1>0, <2>0, <2>a, EngineStep DEF Phase, Resting
    <3>5. Resting' => rf_state = "DONE" \/ Resting
      BY <1>0, <2>0, <2>a, EngineStep DEF Phase, Resting
    <3>6. (rf_state' = "DONE" \/ Resting') => result' \in Right(sample_index)
      BY <1>0, <2>0, <2>1, <3>4, <3>5, EngineStep DEF AnswerInv
    <3> QED
      BY <1>a, <2>1, <3>1, <3>2, <3>3, <3>6 DEF AnswerInv
  <2>2. CASE pc = "start" /\ pc' = "status"
    <3>1. bus = CurrentAccess
      BY <1>2, <2>2, StepCases DEF firmwareVars
    <3>2. rf_start_pulse' /\ Resting
      BY <1>0, <2>0, <2>2, <3>1, AccessEffect DEF Phase
    <3>3. rf_state' = "IDLE"
      BY <1>0, <2>0, <3>2, EngineStep DEF Resting
    <3> QED
      BY <2>2, <3>2, <3>3 DEF AnswerInv, Resting
  <2>3. CASE pc = "status" /\ pc' = "result"
    <3>1. /\ Poll(ready) /\ ready = 1 /\ state = "EXECUTE"
      <4>1. Execute /\ FirmwareStep
        BY <1>2, <2>3, StepCases DEF firmwareVars
      <4>2. Poll(ready)
        BY <2>3, <4>1 DEF FirmwareStep, TreeWrite, FeatureWrite, Start, Poll,
           FetchResult, DebugSelect, DebugData, ShowClass, Summary
      <4> QED
        BY <2>3, <4>1, <4>2 DEF Poll, Execute, TypeOK, PeripheralTypeOK, EngineTypeOK
    <3>2. Resting
      BY <2>0, <2>3, <3>1 DEF Phase, Resting
    <3>3. result' = result /\ sample_index' = sample_index
      BY <1>0, <2>0, <3>1, <3>2, EngineStep DEF Poll
    <3> QED
      BY <1>a, <2>3, <3>2, <3>3 DEF AnswerInv
  <2>4. CASE pc = "result" /\ pc' = "result"
    <3>1. UNCHANGED firmwareVars
      BY <1>2, <2>4, StepCases DEF FirmwareStep, TreeWrite,
         FeatureWrite, Start, Poll, FetchResult, DebugSelect, DebugData,
         ShowClass, Summary
    <3>2. result' = result /\ sample_index' = sample_index
      BY <1>0, <2>0, <2>4, <3>1, EngineStep DEF Phase, firmwareVars
    <3> QED
      BY <1>a, <2>4, <3>2 DEF AnswerInv
  <2>5. CASE pc = "result" /\ pc' = "dbg_addr"
    <3>1. prediction' = result /\ sample_index' = sample_index
      BY <1>2, <2>5, StepCases DEF firmwareVars, FirmwareStep, TreeWrite,
         FeatureWrite, Start, Poll, FetchResult, DebugSelect, DebugData,
         ShowClass, Summary
    <3> QED
      BY <1>a, <2>5, <3>1 DEF AnswerInv
  <2>6. CASE /\ pc \in {"dbg_addr", "dbg_data", "show_class"}
             /\ pc' \in {"dbg_addr", "dbg_data", "show_class"}
    <3>1. prediction' = prediction /\ sample_index' = sample_index
      BY <1>2, <2>6, StepCases DEF firmwareVars, FirmwareStep, TreeWrite,
         FeatureWrite, Start, Poll, FetchResult, DebugSelect, DebugData,
         ShowClass, Summary
    <3> QED
      BY <1>a, <2>6, <3>1 DEF AnswerInv
  <2>7. \/ pc \in {"start", "status"} /\ pc' = "status"
        \/ pc \in {"status", "result"} /\ pc' = "result"
        \/ pc = "result" /\ pc' = "dbg_addr"
        \/ /\ pc \in {"dbg_addr", "dbg_data", "show_class"}
           /\ pc' \in {"dbg_addr", "dbg_data", "show_class"}
        \/ pc' \notin {"status", "result", "dbg_addr", "dbg_data", "show_class"}
    BY <1>2, StepCases DEF firmwareVars, FirmwareStep, TreeWrite,
         FeatureWrite, Start, Poll, FetchResult, DebugSelect, DebugData,
         ShowClass, Summary
  <2>8. CASE pc' \notin {"status", "result", "dbg_addr", "dbg_data", "show_class"}
    BY <2>8 DEF AnswerInv
  <2> QED
    BY <2>1, <2>2, <2>3, <2>4, <2>5, <2>6, <2>7, <2>8
<1> QED
  BY <1>1, <1>2

-------------------------------------------------------------------------------
(* The theorems. *)

LEMMA InitSystem == Init => SystemInv
<1> SUFFICES ASSUME Init
             PROVE  SystemInv
  OBVIOUS
<1> USE DEF Init, PeripheralInit, EngineInit, DebugInit, FirmwareInit, QuarkInit, ResetInit
<1>1. TypeOK
  <2>1. 0 \in Address /\ 0 \in Slot /\ 0 \in Sample
    BY ForestAssumption, FirmwareAssumption DEF Address, Slot, Sample
  <2>a. rf_start_pulse \in BOOLEAN /\ dbg_pulse \in BOOLEAN
    BY Zenon
  <2>b. uart_brk \in BOOLEAN /\ RESET \in BOOLEAN
    BY Zenon
  <2>c. EngineTypeOK
    BY PowerUpAssumption DEF EngineTypeOK
  <2>2. PeripheralTypeOK
    BY <2>a, <2>c DEF PeripheralTypeOK
  <2>3. DebugTypeOK
    BY <2>a DEF DebugTypeOK
  <2>4. FirmwareTypeOK
    BY <2>1 DEF FirmwareTypeOK, Accesses, Results
  <2> QED
    BY <2>b, <2>2, <2>3, <2>4, SoCAssumption DEF TypeOK
<1>2. InstrInv
  BY DEF InstrInv, OtherInstrs, ZeroWord
<1>3. AccessInv /\ LoadInv /\ AnswerInv
  BY DEF AccessInv, LoadInv, AnswerInv, PredictionIsRight
<1>4. PowerUp
  BY SoCAssumption DEF PowerUp, reset
<1> QED
  BY <1>1, <1>2, <1>3, <1>4 DEF SystemInv

LEMMA NextSystem == SystemInv /\ [Next]_vars => SystemInv'
<1> SUFFICES ASSUME SystemInv, [Next]_vars
             PROVE  SystemInv'
  OBVIOUS
<1>1. CASE Next
  BY <1>1, TypeInv, InstrStep, AccessStep, LoadStep, PhaseStep, AnswerStep
     DEF SystemInv
<1>2. CASE UNCHANGED vars
  <2> USE <1>2 DEF SystemInv, vars, engineVars, peripheralVars, debugVars,
          firmwareVars, quarkVars, resetVars
  <2>1. TypeOK'
    BY DEF TypeOK, PeripheralTypeOK, EngineTypeOK, DebugTypeOK, FirmwareTypeOK
  <2>2. InstrInv'
    <3>1. ProgramInstr' = ProgramInstr
      BY DEF ProgramInstr, CurrentAccess, DebugSequence, ClassSequence,
         SummarySequence
    <3> QED
      BY <3>1 DEF InstrInv, OtherInstrs
  <2>3. AccessInv' /\ LoadInv'
    BY DEF AccessInv, LoadInv
  <2>4. (PowerUp \/ Phase)'
    BY DEF PowerUp, Phase, Resting, reset
  <2>5. AnswerInv'
    BY DEF AnswerInv, PredictionIsRight, Resting, Right
  <2> QED
    BY <2>1, <2>2, <2>3, <2>4, <2>5
<1> QED
  BY <1>1, <1>2

THEOREM SystemInvariant == Spec => []SystemInv
BY InitSystem, NextSystem, PTL DEF Spec

\* Every register and every variable of the firmware keeps its type.
THEOREM SystemTypeCorrect == Spec => []TypeOK
<1>1. SystemInv => TypeOK
  BY DEF SystemInv
<1> QED
  BY <1>1, SystemInvariant, PTL

\* An inference begins only with the whole forest and all the features of one
\* sample in the engine's memories.
THEOREM InputsLoadedAtStart == Spec => []StartsOnLoadedInputs
<1>1. SystemInv => StartsOnLoadedInputs
  BY DEF SystemInv, LoadInv, StartsOnLoadedInputs
<1> QED
  BY <1>1, SystemInvariant, PTL

\* A start pulse always finds an engine that takes it.
THEOREM StartAccepted == Spec => []StartIsNeverDropped
<1>1. SystemInv => StartIsNeverDropped
  BY DEF SystemInv, PowerUp, Phase, Accept, StartIsNeverDropped
<1> QED
  BY <1>1, SystemInvariant, PTL

\* A poll that reads ready = 1 reads that of the inference it waits for.
THEOREM PollIsFresh == Spec => []PollSeesNoStaleReady
<1>1. SystemInv => PollSeesNoStaleReady
  BY DEF SystemInv, PowerUp, Phase, Resting, AnswerInv, PollSeesNoStaleReady,
     cpuReset, custom_valid, Executing
<1> QED
  BY <1>1, SystemInvariant, PTL

\* The firmware works with classes the forest gives to the sample at hand.
THEOREM PredictionsRight == Spec => []PredictionIsRight
<1>1. SystemInv => PredictionIsRight
  BY DEF SystemInv, AnswerInv
<1> QED
  BY <1>1, SystemInvariant, PTL

\* While the firmware waits for an inference, nothing writes to its inputs.
THEOREM InputsHeld == Spec => InputsHeldWhileRunning
<1> DEFINE A == (rf_state \in {"PREDICT", "AGGREGATE"} /\ pc = "status") =>
                   UNCHANGED <<tree_memory, features>>
<1>1. SystemInv /\ [Next]_vars => [A]_vars
  <2> SUFFICES ASSUME SystemInv, Next, pc = "status"
               PROVE  UNCHANGED <<tree_memory, features>>
    OBVIOUS
  <2>1. PeripheralClk(reset, bus)
    BY StepCases DEF Devices
  <2> QED
    BY <2>1, BusCases, QuietEffect, AccessEffect DEF SystemInv
<1> QED
  BY <1>1, SystemInvariant, PTL DEF Spec, InputsHeldWhileRunning

-------------------------------------------------------------------------------
(* The reports. *)

\* The registers change only when the firmware stores to them.
LEMMA DebugEffect ==
  ASSUME SystemInv, DebugClk(reset, bus),
         bus = Nothing \/ (state = "EXECUTE" /\ bus = CurrentAccess)
  PROVE  /\ (reset /\ ~(bus = CurrentAccess /\ pc \in {"dbg_addr", "dbg_data"})) =>
               UNCHANGED <<dbg_reg_sel, dbg_sample, dbg_expected, dbg_pred, dbg_correct>>
         /\ (reset /\ bus = CurrentAccess /\ pc = "dbg_addr") =>
               /\ dbg_reg_sel' = DebugSequence[access].reg
               /\ UNCHANGED <<dbg_sample, dbg_expected, dbg_pred, dbg_correct>>
         /\ (reset /\ bus = CurrentAccess /\ pc = "dbg_data") =>
               LET Written(reg, old) ==
                     IF dbg_reg_sel = reg THEN DebugSequence[access].value ELSE old
               IN  /\ dbg_reg_sel' = dbg_reg_sel
                   /\ dbg_sample' = Written(0, dbg_sample)
                   /\ dbg_expected' = Written(1, dbg_expected)
                   /\ dbg_pred' = Written(2, dbg_pred)
                   /\ dbg_correct' = Written(4, dbg_correct)
         /\ dbg_pulse' <=> /\ reset /\ bus = CurrentAccess /\ pc = "dbg_data"
                           /\ dbg_reg_sel = 3
<1> USE DEF DebugClk, Loaded, StoresTo, DBG_REG_SAMPLE, DBG_REG_EXPECTED,
            DBG_REG_PRED, DBG_REG_CYCLES, DBG_REG_CORRECT
<1>0. pc \in Accesses
  BY DEF SystemInv, TypeOK, FirmwareTypeOK
<1>1. CASE bus = Nothing
  <2>1. bus.kind = "none" /\ bus # CurrentAccess
    BY <1>0, <1>1 DEF Nothing, CurrentAccess, Custom, Store, Accesses
  <2> QED
    BY <2>1
<1>2. CASE bus = CurrentAccess /\ pc = "dbg_addr"
  <2>1. bus.kind = "store" /\ bus.sel = "DBG_ADDR" /\ bus.data = DebugSequence[access].reg
    BY <1>2 DEF CurrentAccess, Store
  <2>2. DebugSequence[access].reg % 16 = DebugSequence[access].reg
    <3>1. access \in {1, 2, 3, 4, 5}
      BY <1>2 DEF SystemInv, TypeOK, FirmwareTypeOK, AccessInv
    <3> QED
      BY <3>1 DEF DebugSequence
  <2> QED
    BY <1>2, <2>1, <2>2
<1>3. CASE bus = CurrentAccess /\ pc = "dbg_data"
  <2>1. bus.kind = "store" /\ bus.sel = "DBG_DATA" /\ bus.data = DebugSequence[access].value
    BY <1>3 DEF CurrentAccess, Store
  <2> QED
    BY <1>3, <2>1
<1>4. CASE bus = CurrentAccess /\ pc \notin {"dbg_addr", "dbg_data"}
  <2>1. bus.kind # "store" \/ bus.sel = "LEDS"
    BY <1>0, <1>4 DEF CurrentAccess, Custom, Store, Accesses
  <2> QED
    BY <1>4, <2>1
<1> QED
  BY <1>1, <1>2, <1>3, <1>4

\* The pulse comes with the last register of the sequence.
LEMMA PulseIsLast ==
  ASSUME SystemInv, ReportInv, pc = "dbg_data"
  PROVE  /\ dbg_reg_sel = 0 <=> access = 1
         /\ dbg_reg_sel = 1 <=> access = 2
         /\ dbg_reg_sel = 2 <=> access = 3
         /\ dbg_reg_sel = 4 <=> access = 4
         /\ dbg_reg_sel = 3 <=> access = 5
         /\ access \in {1, 2, 3, 4, 5}
<1>1. access \in {1, 2, 3, 4, 5}
  BY DEF SystemInv, TypeOK, FirmwareTypeOK, AccessInv
<1> QED
  BY <1>1 DEF ReportInv, DebugSequence

\* A report that becomes visible is complete and about the sample at hand.
LEMMA PulseShows ==
  ASSUME SystemInv, ReportInv, Next, dbg_pulse'
  PROVE  /\ pc = "dbg_data" /\ access = 5 /\ bus = CurrentAccess
         /\ dbg_sample' = sample_index
         /\ dbg_expected' = EXPECTED[sample_index]
         /\ dbg_pred' = prediction % 4
         /\ dbg_correct' = reference_matches
<1>1. DebugClk(reset, bus)
  BY StepCases DEF Devices
<1>2. bus = Nothing \/ (state = "EXECUTE" /\ bus = CurrentAccess)
  BY BusCases DEF SystemInv
<1>3. reset /\ bus = CurrentAccess /\ pc = "dbg_data" /\ dbg_reg_sel = 3
  BY <1>1, <1>2, DebugEffect
<1>4. access = 5
  BY <1>3, PulseIsLast
<1>5. UNCHANGED <<dbg_sample, dbg_expected, dbg_pred, dbg_correct>>
  BY <1>1, <1>2, <1>3, DebugEffect
<1> QED
  BY <1>3, <1>4, <1>5 DEF ReportInv, Counted

LEMMA ReportStep ==
  ASSUME SystemInv, ReportInv, Next
  PROVE  ReportInv'
<1>0. /\ DebugClk(reset, bus)
      /\ bus = Nothing \/ (state = "EXECUTE" /\ bus = CurrentAccess)
  BY StepCases, BusCases DEF Devices, SystemInv
<1>a. /\ pc \in Accesses /\ sample_index \in Sample /\ reference_matches \in Nat
      /\ access \in 1 .. 10 /\ TEST_COUNT \in Nat \ {0}
  BY FirmwareAssumption DEF SystemInv, TypeOK, FirmwareTypeOK
<1>b. Match(prediction, EXPECTED) \in {0, 1} /\ Match(result, EXPECTED) \in {0, 1}
  BY DEF Match
<1>c. ReportIsOfOneSample'
  <2> SUFFICES ASSUME dbg_pulse'
               PROVE  /\ dbg_sample' \in Sample
                      /\ dbg_expected' = EXPECTED[dbg_sample']
                      /\ \E class \in Right(dbg_sample') : dbg_pred' = class % 4
                      /\ dbg_correct' <= dbg_sample' + 1
                      /\ dbg_pred' = dbg_expected' => dbg_correct' >= 1
    BY DEF ReportIsOfOneSample, Right
  <2>1. prediction \in Right(sample_index)
    BY PulseShows DEF SystemInv, AnswerInv, PredictionIsRight
  <2>2. reference_matches <= sample_index + 1
    BY PulseShows DEF ReportInv, Counted
  <2>3. prediction % 4 = EXPECTED[sample_index] => reference_matches >= 1
    BY PulseShows DEF ReportInv, Counted, Match
  <2> QED
    BY <1>a, <2>1, <2>2, <2>3, PulseShows
<1>1. CASE Restart
  BY <1>1, <1>c DEF Restart, ReportInv, Counted, Reported
<1>2. CASE cpuReset /\ bus = Nothing /\ UNCHANGED firmwareVars
  <2>1. bus # CurrentAccess
    BY <1>2, <1>a DEF Nothing, CurrentAccess, Custom, Store, Accesses
  <2>2. UNCHANGED <<dbg_reg_sel, dbg_sample, dbg_expected, dbg_pred, dbg_correct>>
    BY <1>0, <1>2, <2>1, DebugEffect DEF cpuReset
  <2> QED
    BY <1>2, <1>c, <2>2 DEF firmwareVars, ReportInv, Counted, Reported, LastOfPass,
       DebugSequence, Match
<1>3. CASE cpuReset /\ bus = CurrentAccess /\ FirmwareStep
  <2>0. reset
    BY <1>3 DEF cpuReset
  <2>1. CASE TreeWrite \/ FeatureWrite \/ Start \/ Poll(ready)
    BY <2>1, <1>c DEF TreeWrite, FeatureWrite, Start, Poll, counters, ReportInv,
       Counted, Reported
  <2>2. CASE FetchResult(result)
    <3>1. /\ pc' = "dbg_addr" /\ access' = 1 /\ sample_index' = sample_index
          /\ prediction' = result
          /\ reference_matches' = reference_matches + Match(result, EXPECTED)
          /\ pc = "result"
      BY <2>2 DEF FetchResult
    <3>2. Match(prediction, EXPECTED)' = Match(result, EXPECTED)
      BY <3>1 DEF Match
    <3>3. /\ reference_matches' >= Match(prediction, EXPECTED)'
          /\ reference_matches' <= sample_index' + 1
      BY <1>a, <1>b, <3>1, <3>2 DEF ReportInv, Counted, Reported, Sample
    <3> QED
      BY <1>c, <3>1, <3>3 DEF ReportInv, Counted, Reported
  <2>3. CASE DebugSelect
    <3>1. /\ pc = "dbg_addr" /\ pc' = "dbg_data"
          /\ UNCHANGED <<sample_index, prediction, reference_matches, last_cycles, access>>
      BY <2>3 DEF DebugSelect, counters
    <3>2. /\ dbg_reg_sel' = DebugSequence[access].reg
          /\ UNCHANGED <<dbg_sample, dbg_expected, dbg_pred, dbg_correct>>
      BY <1>0, <1>3, <2>0, <3>1, DebugEffect
    <3>3. DebugSequence' = DebugSequence
      BY <3>1 DEF DebugSequence
    <3> QED
      BY <1>c, <3>1, <3>2, <3>3 DEF ReportInv, Counted, Reported, Match
  <2>4. CASE DebugData
    <3>1. /\ pc = "dbg_data" /\ UNCHANGED <<sample_index, prediction, reference_matches>>
          /\ IF access < 5 THEN pc' = "dbg_addr" /\ access' = access + 1
                           ELSE pc' = "show_class" /\ access' = 1
      BY <2>4 DEF DebugData, counters
    <3>2. Match(prediction, EXPECTED)' = Match(prediction, EXPECTED)
      BY <3>1 DEF Match
    <3>3. CASE access = 5
      BY <1>c, <3>1, <3>3 DEF ReportInv, Counted, Reported
    <3>4. CASE access # 5
      <4>0. access \in {1, 2, 3, 4}
        BY <3>1, <3>4, PulseIsLast
      <4>1. /\ dbg_sample' = IF access = 1 THEN DebugSequence[access].value ELSE dbg_sample
            /\ dbg_expected' = IF access = 2 THEN DebugSequence[access].value ELSE dbg_expected
            /\ dbg_pred' = IF access = 3 THEN DebugSequence[access].value ELSE dbg_pred
            /\ dbg_correct' = IF access = 4 THEN DebugSequence[access].value ELSE dbg_correct
        BY <1>0, <1>3, <2>0, <3>1, DebugEffect, PulseIsLast
      <4>2. /\ access = 1 => DebugSequence[access].value = sample_index
            /\ access = 2 => DebugSequence[access].value = EXPECTED[sample_index]
            /\ access = 3 => DebugSequence[access].value = prediction % 4
            /\ access = 4 => DebugSequence[access].value = reference_matches
        BY DEF DebugSequence
      <4>3. /\ access' > 1 => dbg_sample' = sample_index
            /\ access' > 2 => dbg_expected' = EXPECTED[sample_index]
            /\ access' > 3 => dbg_pred' = prediction % 4
            /\ access' > 4 => dbg_correct' = reference_matches
        BY <3>1, <4>0, <4>1, <4>2 DEF ReportInv, Counted
      <4> QED
        BY <1>c, <3>1, <3>2, <4>0, <4>3 DEF ReportInv, Counted, Reported
    <3> QED
      BY <3>3, <3>4
  <2>5. CASE ShowClass
    <3>1. /\ pc = "show_class" /\ reference_matches' = reference_matches
          /\ \/ pc' = "show_class" /\ sample_index' = sample_index
             \/ pc' = "feature_write" /\ sample_index' = sample_index + 1
             \/ pc' = "summary" /\ sample_index' = sample_index /\ LastOfPass
      BY <2>5 DEF ShowClass, counters, LastOfPass
    <3>2. reference_matches <= sample_index + 1
      BY <3>1 DEF ReportInv, Reported
    <3>3. pc' = "summary" => LastOfPass'
      BY <3>1 DEF LastOfPass
    <3> QED
      BY <1>a, <1>c, <3>1, <3>2, <3>3 DEF ReportInv, Counted, Reported, Sample
  <2>6. CASE Summary
    BY <1>a, <1>c, <2>6 DEF Summary, counters, ReportInv, Counted, Reported, LastOfPass
  <2> QED
    BY <1>3, <2>1, <2>2, <2>3, <2>4, <2>5, <2>6 DEF FirmwareStep
<1> QED
  BY <1>1, <1>2, <1>3, StepCases

THEOREM ReportInvariant == Spec => []ReportInv
<1>1. Init => ReportInv
  BY DEF Init, DebugInit, FirmwareInit, ReportInv, Counted, Reported,
     ReportIsOfOneSample
<1>2. SystemInv /\ ReportInv /\ [Next]_vars => ReportInv'
  <2>1. ASSUME ReportInv, UNCHANGED vars
        PROVE  ReportInv'
    BY <2>1 DEF vars, debugVars, firmwareVars, ReportInv, Counted, Reported,
       LastOfPass, DebugSequence, Match, ReportIsOfOneSample, Right
  <2> QED
    BY <2>1, ReportStep
<1> QED
  BY <1>1, <1>2, SystemInvariant, PTL DEF Spec

\* What the analyser samples at dbg_pulse belongs to one sample, whatever reset
\* or break cuts the program short.
THEOREM ReportsAreOfOneSample == Spec => []ReportIsOfOneSample
<1>1. ReportInv => ReportIsOfOneSample
  BY DEF ReportInv
<1> QED
  BY <1>1, ReportInvariant, PTL

-------------------------------------------------------------------------------
(* The refinement. *)

\* The names of the mapping of R.
Sample_R  == IF ~Reported THEN sample_index
             ELSE IF LastOfPass THEN 0 ELSE sample_index + 1
Matches_R == IF Reported /\ LastOfPass THEN 0
             ELSE IF Counted THEN reference_matches - Match(prediction, EXPECTED)
             ELSE reference_matches
Report_R  == IF dbg_pulse
             THEN [shown |-> TRUE, sample |-> dbg_sample,
                   expected |-> dbg_expected, pred |-> dbg_pred,
                   correct |-> dbg_correct]
             ELSE [shown |-> FALSE]

\* The forest's classes, as the registers hold them.
LEMMA PredictionShown ==
  ASSUME SystemInv, pc = "dbg_data"
  PROVE  prediction % 4 \in [s \in Sample |-> { c % 4 : c \in Right(s) }][sample_index]
<1>1. prediction \in Right(sample_index) /\ sample_index \in Sample
  BY DEF SystemInv, AnswerInv, PredictionIsRight, TypeOK, FirmwareTypeOK
<1> QED
  BY <1>1

\* A pulse shows the report of the sample at hand.
LEMMA PulseIsShow ==
  ASSUME SystemInv, ReportInv, Next, dbg_pulse'
  PROVE  /\ R!Show(prediction % 4)
         /\ prediction % 4 \in [s \in Sample |-> { c % 4 : c \in Right(s) }][Sample_R]
<1>1. /\ pc = "dbg_data" /\ dbg_sample' = sample_index
      /\ dbg_expected' = EXPECTED[sample_index]
      /\ dbg_pred' = prediction % 4 /\ dbg_correct' = reference_matches
  BY PulseShows
<1>2. Sample_R = sample_index
  BY <1>1 DEF Sample_R, Reported
<1>3. Matches_R = reference_matches - Match(prediction, EXPECTED)
  BY <1>1 DEF Matches_R, Reported, Counted
<1>4. /\ reference_matches \in Nat /\ Match(prediction, EXPECTED) \in {0, 1}
  BY DEF SystemInv, TypeOK, FirmwareTypeOK, Match
<1>5. Matches_R + (IF prediction % 4 = EXPECTED[Sample_R] THEN 1 ELSE 0) = reference_matches
  BY <1>2, <1>3, <1>4 DEF Match
<1>6. Report_R' = [shown |-> TRUE, sample |-> Sample_R, expected |-> EXPECTED[Sample_R],
                   pred |-> prediction % 4,
                   correct |-> Matches_R + (IF prediction % 4 = EXPECTED[Sample_R]
                                            THEN 1 ELSE 0)]
  BY <1>1, <1>2, <1>5 DEF Report_R
<1>7. R!Show(prediction % 4)
  BY <1>6 DEF R!Show, R!Count, Sample_R, Matches_R, Report_R
<1> QED
  BY <1>1, <1>2, <1>7, PredictionShown

LEMMA NoPulse ==
  ASSUME ~dbg_pulse'
  PROVE  Report_R' = R!NoReport
BY DEF Report_R, R!NoReport

\* Where the program is not reset and reports nothing, the next report and the
\* counts stay what they are.
LEMMA QuietSteps ==
  ASSUME SystemInv, ReportInv, FirmwareStep, ~(DebugData /\ access = 5)
  PROVE  Sample_R' = Sample_R /\ Matches_R' = Matches_R
<1>a. /\ pc \in Accesses /\ sample_index \in Sample /\ reference_matches \in Nat
      /\ access \in 1 .. 10 /\ TEST_COUNT \in Nat \ {0}
      /\ Match(prediction, EXPECTED) \in {0, 1} /\ Match(result, EXPECTED) \in {0, 1}
  BY FirmwareAssumption DEF SystemInv, TypeOK, FirmwareTypeOK, Match
<1> USE DEF Sample_R, Matches_R, Reported, Counted, LastOfPass
<1>1. CASE TreeWrite \/ FeatureWrite \/ Start \/ Poll(ready)
  BY <1>1 DEF TreeWrite, FeatureWrite, Start, Poll, counters
<1>2. CASE FetchResult(result)
  <2>1. /\ pc = "result" /\ pc' = "dbg_addr" /\ sample_index' = sample_index
        /\ prediction' = result
        /\ reference_matches' = reference_matches + Match(result, EXPECTED)
    BY <1>2 DEF FetchResult
  <2>2. Match(prediction, EXPECTED)' = Match(result, EXPECTED)
    BY <2>1 DEF Match
  <2> QED
    BY <1>a, <2>1, <2>2
<1>3. CASE DebugSelect \/ DebugData
  <2>1. /\ pc \in {"dbg_addr", "dbg_data"} /\ pc' \in {"dbg_addr", "dbg_data"}
        /\ UNCHANGED <<sample_index, prediction, reference_matches>>
    BY <1>3, PulseIsLast DEF DebugSelect, DebugData, counters
  <2>2. Match(prediction, EXPECTED)' = Match(prediction, EXPECTED)
    BY <2>1 DEF Match
  <2> QED
    BY <2>1, <2>2
<1>4. CASE ShowClass
  <2>1. /\ pc = "show_class" /\ reference_matches' = reference_matches
        /\ \/ pc' = "show_class" /\ sample_index' = sample_index
           \/ pc' = "feature_write" /\ sample_index' = sample_index + 1 /\ ~LastOfPass
           \/ pc' = "summary" /\ sample_index' = sample_index
    BY <1>4 DEF ShowClass, counters
  <2> QED
    BY <2>1
<1>5. CASE Summary
  <2>1. pc = "summary" /\ LastOfPass
    BY <1>5 DEF Summary, ReportInv
  <2>2. \/ pc' = "summary" /\ sample_index' = sample_index
        \/ pc' = "feature_write" /\ sample_index' = 0 /\ reference_matches' = 0
    BY <1>5, <2>1 DEF Summary
  <2> QED
    BY <2>1, <2>2
<1> QED
  BY <1>1, <1>2, <1>3, <1>4, <1>5 DEF FirmwareStep

\* Every clock makes one step of VehicleReport.
LEMMA ReportRefines ==
  ASSUME SystemInv, ReportInv, Next
  PROVE  R!Next
<1>1. CASE Restart
  <2>1. R!StartAgain
    <3>1. ~Reported' /\ ~Counted' /\ sample_index' = 0 /\ reference_matches' = 0
      BY <1>1 DEF Restart, Reported, Counted
    <3>2. Sample_R' = 0 /\ Matches_R' = 0
      BY <3>1 DEF Sample_R, Matches_R
    <3> QED
      BY <3>2 DEF R!StartAgain, Sample_R, Matches_R
  <2>2. R!Restart
    <3>1. CASE dbg_pulse'
      BY <2>1, <3>1, PulseIsShow DEF R!Restart, Sample_R
    <3>2. CASE ~dbg_pulse'
      BY <2>1, <3>2, NoPulse DEF R!Restart, Report_R
    <3> QED
      BY <3>1, <3>2
  <2> QED
    BY <2>2 DEF R!Next
<1>2. CASE Sample_R' = Sample_R /\ Matches_R' = Matches_R /\ ~dbg_pulse'
  <2>1. R!Hide
    BY <1>2, NoPulse DEF R!Hide, Sample_R, Matches_R, Report_R
  <2> QED
    BY <2>1 DEF R!Next
<1>3. CASE bus = Nothing /\ UNCHANGED firmwareVars
  <2>1. ~dbg_pulse'
    <3>1. pc \in Accesses
      BY DEF SystemInv, TypeOK, FirmwareTypeOK
    <3>2. bus # CurrentAccess
      BY <1>3, <3>1 DEF Nothing, CurrentAccess, Custom, Store, Accesses
    <3> QED
      BY <3>2, PulseShows
  <2>2. Sample_R' = Sample_R /\ Matches_R' = Matches_R
    BY <1>3 DEF firmwareVars, Sample_R, Matches_R, Reported, Counted, LastOfPass, Match
  <2> QED
    BY <1>2, <2>1, <2>2
<1>4. CASE bus = CurrentAccess /\ cpuReset /\ FirmwareStep /\ ~(DebugData /\ access = 5)
  <2>1. ~dbg_pulse'
    <3> SUFFICES ASSUME dbg_pulse' PROVE FALSE
      OBVIOUS
    <3>1. pc = "dbg_data" /\ access = 5
      BY PulseShows
    <3>2. DebugData
      BY <1>4, <3>1 DEF FirmwareStep, TreeWrite, FeatureWrite, Start, Poll,
         FetchResult, DebugSelect, DebugData, ShowClass, Summary
    <3> QED
      BY <1>4, <3>1, <3>2
  <2> QED
    BY <1>2, <1>4, <2>1, QuietSteps
<1>5. CASE bus = CurrentAccess /\ cpuReset /\ DebugData /\ access = 5
  <2>1. /\ pc = "dbg_data" /\ pc' = "show_class"
        /\ UNCHANGED <<sample_index, prediction, reference_matches>>
    BY <1>5 DEF DebugData, counters
  <2>2. dbg_pulse'
    <3>1. DebugClk(reset, bus) /\ state = "EXECUTE"
      BY <1>5, StepCases DEF Devices, Execute, DebugData, firmwareVars
    <3>2. dbg_reg_sel = 3 /\ reset
      BY <1>5, <2>1, PulseIsLast DEF cpuReset
    <3> QED
      BY <1>5, <2>1, <3>1, <3>2, DebugEffect
  <2>3. /\ sample_index \in Sample /\ reference_matches \in Nat
        /\ TEST_COUNT \in Nat \ {0}
        /\ Match(prediction, EXPECTED) \in {0, 1}
    BY FirmwareAssumption DEF SystemInv, TypeOK, FirmwareTypeOK, Match
  <2>4. /\ Sample_R = sample_index
        /\ Matches_R + (IF prediction % 4 = EXPECTED[Sample_R] THEN 1 ELSE 0)
             = reference_matches
    BY <2>1, <2>3 DEF Sample_R, Matches_R, Reported, Counted, Match
  <2>5. IF Sample_R < TEST_COUNT - 1
        THEN Sample_R' = Sample_R + 1 /\ Matches_R' = reference_matches
        ELSE Sample_R' = 0 /\ Matches_R' = 0
    <3>1. LastOfPass' <=> ~(sample_index < TEST_COUNT - 1)
      BY <2>1, <2>3 DEF LastOfPass, Sample
    <3> QED
      BY <2>1, <2>4, <3>1 DEF Sample_R, Matches_R, Reported, Counted
  <2>6. R!Advance(prediction % 4)
    BY <2>4, <2>5 DEF R!Advance, R!Count, Sample_R, Matches_R
  <2>7. R!Report
    BY <2>2, <2>6, PulseIsShow DEF R!Report, Sample_R
  <2> QED
    BY <2>7 DEF R!Next
<1> QED
  BY <1>1, <1>3, <1>4, <1>5, StepCases DEF FirmwareStep

\* The probes show the reports that VehicleReport promises: every sample in
\* order, none lost, doubled or mixed from two, each with the running count.
THEOREM ImplementsReports == Spec => ReportsInOrder
<1>1. Init => R!Init
  BY DEF Init, DebugInit, FirmwareInit, R!Init, R!NoReport, Reported, Counted
<1>2. SystemInv /\ ReportInv /\ [Next]_vars => [R!Next]_(R!reportVars)
  <2>1. ASSUME UNCHANGED vars
        PROVE  UNCHANGED R!reportVars
    BY <2>1 DEF vars, debugVars, firmwareVars, R!reportVars, Reported, Counted,
       LastOfPass, Match
  <2> QED
    BY <2>1, ReportRefines
<1> QED
  BY <1>1, <1>2, SystemInvariant, ReportInvariant, PTL
     DEF Spec, R!Spec, ReportsInOrder

===============================================================================
