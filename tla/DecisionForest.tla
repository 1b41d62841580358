---------------------------- MODULE DecisionForest ----------------------------
(***************************************************************************)
(* The forest of random_forest_vehicle.sv as pure operators: how a node    *)
(* word is laid out, how a tree is walked (task traverse_tree) and how the *)
(* votes of the trees are counted (function aggregate_predictions).        *)
(*                                                                         *)
(* A tree is a complete binary heap of NODES_PER_TREE words; the children  *)
(* of node n are 2n+1 and 2n+2 and every walk makes exactly DEPTH          *)
(* comparisons.  A 32-bit node word is the record of its three fields.     *)
(*                                                                         *)
(* The feature field has 5 bits and the bank only FEATURE_COUNT registers. *)
(* A read beyond the bank has no defined value in Verilog, so a walk is a  *)
(* set: every leaf that some value of the missing register leads to.  On a *)
(* well-formed forest the sets are singletons.                             *)
(***************************************************************************)
EXTENDS Integers, FiniteSets

CONSTANTS TREE_COUNT,       \* trees in the ensemble (4)
          DEPTH,            \* comparisons of one walk (3)
          NODES_PER_TREE,   \* words of one tree (15)
          FEATURE_COUNT,    \* registers in the feature bank (18)
          FEATURE_INDEXES,  \* values of the feature field (2^5 = 32)
          CLASS_COUNT,      \* vote counters, values of class[1:0] (4)
          FeatureValue,     \* values of a feature register (32 bits)
          Threshold,        \* values of the threshold field (11 bits)
          Class             \* values of the class field (8 bits)

ASSUME ForestAssumption ==
    /\ TREE_COUNT \in Nat \ {0}
    /\ DEPTH \in Nat
    /\ NODES_PER_TREE \in Nat \ {0}
    /\ FEATURE_COUNT \in Nat \ {0}
    /\ FEATURE_INDEXES \in Nat
    /\ FEATURE_COUNT <= FEATURE_INDEXES
    /\ CLASS_COUNT \in Nat \ {0}
    /\ FeatureValue \subseteq Nat
    /\ FeatureValue # {}
    /\ Threshold \subseteq Nat
    /\ Class \subseteq Nat

\* The last node of each level of the heap: 0, 2, 6, 14.
LastNode[d \in 0 .. DEPTH] == IF d = 0 THEN 0 ELSE 2 * LastNode[d - 1] + 2

ASSUME HeapAssumption == LastNode[DEPTH] < NODES_PER_TREE

Trees   == 0 .. TREE_COUNT - 1
Address == 0 .. TREE_COUNT * NODES_PER_TREE - 1
Slot    == 0 .. FEATURE_COUNT - 1

\* Node word: [31:27] feature index, [26:16] threshold * 2, [15:8] class.
Node == [feature_idx : 0 .. FEATURE_INDEXES - 1,
         threshold_x2 : Threshold,
         class : Class]

Forest      == [Address -> Node]
FeatureBank == [Slot -> FeatureValue]

\* No node names a register that does not exist.
WellFormed(memory) == \A a \in Address : memory[a].feature_idx \in Slot

-------------------------------------------------------------------------------
(* The walk down one tree. *)

FeatureRead(features, i) ==
    IF i \in Slot THEN {features[i]} ELSE FeatureValue

Children(features, node, n) ==
    { IF v <= node.threshold_x2 THEN 2 * n + 1 ELSE 2 * n + 2 :
        v \in FeatureRead(features, node.feature_idx) }

\* One comparison: from the nodes of one level to those of the next.
NextLevel(memory, features, t, level) ==
    UNION { Children(features, memory[t * NODES_PER_TREE + n], n) : n \in level }

\* The nodes that each comparison of the walk down tree t may reach.
Walk(memory, features, t) ==
    LET level[d \in 0 .. DEPTH] ==
            IF d = 0 THEN {0} ELSE NextLevel(memory, features, t, level[d - 1])
    IN  level

\* The classes that the walk of tree t may return.
traverse_tree(memory, features, t) ==
    { memory[t * NODES_PER_TREE + n].class : n \in Walk(memory, features, t)[DEPTH] }

\* The values that tree_predictions may take.
TreePredictions(memory, features) ==
    LET walk == [t \in Trees |-> traverse_tree(memory, features, t)]
    IN  { p \in [Trees -> Class] : \A t \in Trees : p[t] \in walk[t] }

-------------------------------------------------------------------------------
(* The vote. *)

\* Only class[1:0] selects a vote counter.
Votes(p, c) == Cardinality({ t \in Trees : p[t] % CLASS_COUNT = c })

\* Mutant: of two classes with equal votes the later one wins.
CountTiesToLater(p) ==
    LET best[i \in 0 .. CLASS_COUNT] ==
            IF i = 0 THEN [max_votes |-> 0, max_class |-> 0]
            ELSE IF Votes(p, i - 1) >= best[i - 1].max_votes
                 THEN [max_votes |-> Votes(p, i - 1), max_class |-> i - 1]
                 ELSE best[i - 1]
    IN  best

\* One pass over the counters; a later class must be strictly better.
Count(p) ==
    LET best[i \in 0 .. CLASS_COUNT] ==
            IF i = 0 THEN [max_votes |-> 0, max_class |-> 0]
            ELSE IF Votes(p, i - 1) > best[i - 1].max_votes
                 THEN [max_votes |-> Votes(p, i - 1), max_class |-> i - 1]
                 ELSE best[i - 1]
    IN  best

aggregate_predictions(p) == Count(p)[CLASS_COUNT].max_class

\* Class c has the most votes, and among those that do it is the lowest.
IsPlurality(p, c) ==
    /\ c \in 0 .. CLASS_COUNT - 1
    /\ \A d \in 0 .. CLASS_COUNT - 1 : Votes(p, d) <= Votes(p, c)
    /\ \A d \in 0 .. c - 1 : Votes(p, d) < Votes(p, c)

\* What the engine may answer for these memories.
Classify(memory, features) ==
    { aggregate_predictions(p) : p \in TreePredictions(memory, features) }

\* The values result may hold; 0 is its value after reset.
Results == {0} \cup { aggregate_predictions(p) : p \in [Trees -> Class] }

===============================================================================
