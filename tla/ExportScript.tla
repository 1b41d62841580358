----------------------------- MODULE ExportScript -----------------------------
(***************************************************************************)
(* 10_export_cesar_vehicle.py: the export of a trained forest to the       *)
(* accelerator, with the predictions of scikit-learn it has to agree with, *)
(* as pure operators; and main: check the samples, export tree by tree,    *)
(* simulate, write six files, compare.  Every step may raise an exception, *)
(* which ends the script and leaves the files as they are.                 *)
(*                                                                         *)
(* A scikit-learn tree is the record of its arrays: children_left and      *)
(* children_right (-1 at a leaf), feature, threshold and the class with    *)
(* the largest value.  A threshold counts units of 1 / (2 * UNIT), so that *)
(* threshold * 2.0 is the same number of units of 1 / UNIT.                *)
(***************************************************************************)
EXTENDS DecisionForest

CONSTANTS MAX_THRESHOLD_X2, \* largest value of the threshold field (2047)
          UNIT,             \* resolution of a threshold
          ATOL, RTOL        \* tolerances of np.isclose, in units of 1 / UNIT

\* The heap has no room below level DEPTH, and what np.isclose accepts is far
\* from the next number.
ASSUME ExportAssumption ==
    /\ LastNode[DEPTH] = NODES_PER_TREE - 1
    /\ MAX_THRESHOLD_X2 \in Nat
    /\ Threshold = 0 .. MAX_THRESHOLD_X2
    /\ 0 .. CLASS_COUNT - 1 \subseteq Class
    /\ UNIT \in Nat \ {0}
    /\ ATOL \in Nat
    /\ RTOL \in Nat
    /\ 2 * (ATOL + RTOL * MAX_THRESHOLD_X2) < UNIT

-------------------------------------------------------------------------------
(* Trees of scikit-learn. *)

SourceNodes(tree) == DOMAIN tree.children_left

is_leaf(tree, n) ==
    \/ tree.children_left[n] = tree.children_right[n]
    \/ tree.children_left[n] < 0
    \/ tree.children_right[n] < 0

\* What scikit-learn builds: every node but a leaf has two nodes as its
\* children, and at a leaf both are -1.
IsSourceTree(tree) ==
    /\ 0 \in SourceNodes(tree)
    /\ SourceNodes(tree) \subseteq Nat
    /\ IsFiniteSet(SourceNodes(tree))
    /\ DOMAIN tree.children_right = SourceNodes(tree)
    /\ DOMAIN tree.feature = SourceNodes(tree)
    /\ DOMAIN tree.threshold = SourceNodes(tree)
    /\ DOMAIN tree.class = SourceNodes(tree)
    /\ \A n \in SourceNodes(tree) :
          /\ tree.threshold[n] \in Int
          /\ tree.class[n] \in Int
          /\ \/ tree.children_left[n] = -1 /\ tree.children_right[n] = -1
             \/ /\ tree.children_left[n] \in SourceNodes(tree)
                /\ tree.children_right[n] \in SourceNodes(tree)
                /\ tree.children_left[n] # tree.children_right[n]

\* One comparison of a prediction for x; it stays where it is at a leaf.
Decide(tree, x, n) ==
    IF is_leaf(tree, n) THEN n
    ELSE IF 2 * UNIT * x[tree.feature[n]] <= tree.threshold[n]
         THEN tree.children_left[n]
         ELSE tree.children_right[n]

\* Comparisons that are enough to reach a leaf.
Enough(tree) == DEPTH + Cardinality(SourceNodes(tree))

\* The node of tree after each comparison.
DecisionPath(tree, x) ==
    LET path[d \in 0 .. Enough(tree)] ==
            IF d = 0 THEN 0 ELSE Decide(tree, x, path[d - 1])
    IN  path

\* estimator.predict.
predict(tree, x) == tree.class[DecisionPath(tree, x)[Enough(tree)]]

-------------------------------------------------------------------------------
(* The export of one tree. *)

\* Mutant: the children change places.
HeapSourceSwapped(tree) ==
    LET source[h \in 0 .. NODES_PER_TREE - 1] ==
            IF h = 0 THEN 0
            ELSE LET n == source[(h - 1) \div 2]
                 IN  IF is_leaf(tree, n) THEN n
                     ELSE IF h % 2 = 0 THEN tree.children_left[n]
                     ELSE tree.children_right[n]
    IN  source

\* The node that ends up at each position of the heap: export_sklearn_node
\* puts the children of a node below it, fill_leaf_subtree a leaf everywhere
\* below itself.
HeapSource(tree) ==
    LET source[h \in 0 .. NODES_PER_TREE - 1] ==
            IF h = 0 THEN 0
            ELSE LET n == source[(h - 1) \div 2]
                 IN  IF is_leaf(tree, n) THEN n
                     ELSE IF h % 2 = 1 THEN tree.children_left[n]
                     ELSE tree.children_right[n]
    IN  source

\* int(round(threshold * 2.0)); which way a half goes does not matter, it is
\* not close to either side.
threshold_x2(v) == (2 * v + UNIT) \div (2 * UNIT)

isclose(v, r) ==
    /\ v - UNIT * r <= ATOL + RTOL * r
    /\ UNIT * r - v <= ATOL + RTOL * r

pack_node(tree, n) ==
    IF is_leaf(tree, n)
    THEN [feature_idx |-> 0, threshold_x2 |-> 0, class |-> tree.class[n]]
    ELSE [feature_idx |-> tree.feature[n],
          threshold_x2 |-> threshold_x2(tree.threshold[n]), class |-> 0]

\* Mutant: a threshold is not compared with the width of its field.
AcceptsAnyThreshold(tree, n, h) ==
    IF is_leaf(tree, n)
    THEN tree.class[n] \in 0 .. CLASS_COUNT - 1
    ELSE /\ 2 * h + 2 < NODES_PER_TREE
         /\ tree.feature[n] \in Slot
         /\ isclose(tree.threshold[n], threshold_x2(tree.threshold[n]))

\* No ValueError is raised at node n in position h.
Accepts(tree, n, h) ==
    IF is_leaf(tree, n)
    THEN tree.class[n] \in 0 .. CLASS_COUNT - 1
    ELSE /\ 2 * h + 2 < NODES_PER_TREE
         /\ tree.feature[n] \in Slot
         /\ threshold_x2(tree.threshold[n]) \in Threshold
         /\ isclose(tree.threshold[n], threshold_x2(tree.threshold[n]))

\* Mutant: a tree that is too deep is cut off.
ExportableCutOff(tree) ==
    \A h \in 0 .. NODES_PER_TREE - 1 :
        2 * h + 2 < NODES_PER_TREE => Accepts(tree, HeapSource(tree)[h], h)

Exportable(tree) ==
    \A h \in 0 .. NODES_PER_TREE - 1 : Accepts(tree, HeapSource(tree)[h], h)

export_sklearn_node(tree) ==
    [h \in 0 .. NODES_PER_TREE - 1 |-> pack_node(tree, HeapSource(tree)[h])]

\* No threshold lies just below an even number that np.isclose takes for it.
\* Thresholds half-way between integers never do.
RoundsSafely(tree) ==
    \A n \in SourceNodes(tree) :
        \/ is_leaf(tree, n)
        \/ tree.threshold[n] >= UNIT * threshold_x2(tree.threshold[n])
        \/ threshold_x2(tree.threshold[n]) % 2 = 1

-------------------------------------------------------------------------------
(* The script's own simulation of the accelerator. *)

Doubled(x) == [i \in Slot |-> 2 * x[i]]

\* Mutant: an equal feature goes to the right.
node_position_strict(memory, t, features_x2) ==
    LET position[d \in 0 .. DEPTH] ==
            IF d = 0 THEN 0
            ELSE LET n == position[d - 1]
                     word == memory[t * NODES_PER_TREE + n]
                 IN  IF features_x2[word.feature_idx] < word.threshold_x2
                     THEN 2 * n + 1 ELSE 2 * n + 2
    IN  position

\* node_position after each comparison.
node_position(memory, t, features_x2) ==
    LET position[d \in 0 .. DEPTH] ==
            IF d = 0 THEN 0
            ELSE LET n == position[d - 1]
                     word == memory[t * NODES_PER_TREE + n]
                 IN  IF features_x2[word.feature_idx] <= word.threshold_x2
                     THEN 2 * n + 1 ELSE 2 * n + 2
    IN  position

simulate_tree(memory, t, features_x2) ==
    memory[t * NODES_PER_TREE + node_position(memory, t, features_x2)[DEPTH]].class

\* np.argmax(np.bincount(votes)), in this script and in
\* predict_hard_vote of 08_generate_hard_vote_reference.py.
argmax_bincount(votes) ==
    CHOOSE c \in 0 .. CLASS_COUNT - 1 : IsPlurality(votes, c)

simulate_forest(memory, features_x2) ==
    argmax_bincount([t \in Trees |-> simulate_tree(memory, t, features_x2)])

predict_hard_vote(model, x) ==
    argmax_bincount([t \in Trees |-> predict(model[t], x)])

-------------------------------------------------------------------------------
(* The script. *)

CONSTANTS SourceForests,    \* the models that may have been trained
          OldForests,       \* those an old reference file may be of
          TestSets          \* the features of the test samples, -1 for one
                            \* that is no natural number

ASSUME ScriptAssumption ==
    /\ \A source \in SourceForests \cup OldForests, t \in Trees : IsSourceTree(source[t])
    /\ \A test \in TestSets : \A s \in DOMAIN test, i \in Slot : test[s][i] \in Nat \cup {-1}

VARIABLES model,              \* the forest of the joblib file
          integer_features,   \* of the test samples
          reference,          \* python_prediction of the reference file
          aligned,            \* TRUE when both files name the same samples
          phase, tree_index, forest_memory, packed_predictions,
          written             \* how many of the six files are of this run

inputs == <<model, integer_features, reference, aligned>>
scriptVars == <<inputs, phase, tree_index, forest_memory, packed_predictions, written>>

TestSamples == DOMAIN integer_features

FILE_COUNT   == 6
NODES_HEADER == 4

Predictions(source, test) == [s \in DOMAIN test |-> predict_hard_vote(source, test[s])]

\* The reference file is of this model, or was left by another one.
ScriptInit ==
    /\ model \in SourceForests
    /\ integer_features \in TestSets
    /\ reference \in { Predictions(source, integer_features) :
                           source \in OldForests \cup {model} }
    /\ aligned \in BOOLEAN
    /\ phase = "check"
    /\ tree_index = 0
    /\ forest_memory = <<>>
    /\ packed_predictions = <<>>
    /\ written = 0

SamplesFit ==
    /\ aligned
    /\ \A s \in TestSamples, i \in Slot :
          integer_features[s][i] >= 0 /\ 2 * integer_features[s][i] <= MAX_THRESHOLD_X2

CheckSamples ==
    /\ phase = "check"
    /\ phase' = IF SamplesFit THEN "export" ELSE "raised"
    /\ UNCHANGED <<inputs, tree_index, forest_memory, packed_predictions, written>>

\* One turn of the loop of export_forest.
ExportTree ==
    /\ phase = "export"
    /\ IF Exportable(model[tree_index])
       THEN /\ forest_memory' =
                  [a \in 0 .. (tree_index + 1) * NODES_PER_TREE - 1 |->
                      IF a < tree_index * NODES_PER_TREE THEN forest_memory[a]
                      ELSE export_sklearn_node(model[tree_index])[a - tree_index * NODES_PER_TREE]]
            /\ tree_index' = tree_index + 1
            /\ phase' = IF tree_index + 1 \in Trees THEN "export" ELSE "simulate"
       ELSE /\ phase' = "raised"
            /\ UNCHANGED <<forest_memory, tree_index>>
    /\ UNCHANGED <<inputs, packed_predictions, written>>

Simulate ==
    /\ phase = "simulate"
    /\ packed_predictions' =
          [s \in TestSamples |-> simulate_forest(forest_memory, Doubled(integer_features[s]))]
    /\ phase' = "write"
    /\ UNCHANGED <<inputs, tree_index, forest_memory, written>>

\* Mutant: the count is compared before the increment.
WriteFileTooMany ==
    /\ phase = "write"
    /\ written' = written + 1
    /\ phase' = IF written = FILE_COUNT THEN "compare" ELSE "write"
    /\ UNCHANGED <<inputs, tree_index, forest_memory, packed_predictions>>

WriteFile ==
    /\ phase = "write"
    /\ written' = written + 1
    /\ phase' = IF written' = FILE_COUNT THEN "compare" ELSE "write"
    /\ UNCHANGED <<inputs, tree_index, forest_memory, packed_predictions>>

WriteFails ==
    /\ phase = "write"
    /\ phase' = "raised"
    /\ UNCHANGED <<inputs, tree_index, forest_memory, packed_predictions, written>>

\* Mutant: a divergence is printed and nothing more.
ComparePrints ==
    /\ phase = "compare"
    /\ phase' = "done"
    /\ UNCHANGED <<inputs, tree_index, forest_memory, packed_predictions, written>>

Compare ==
    /\ phase = "compare"
    /\ phase' = IF packed_predictions = reference THEN "done" ELSE "mismatch"
    /\ UNCHANGED <<inputs, tree_index, forest_memory, packed_predictions, written>>

ScriptNext ==
    \/ CheckSamples
    \/ ExportTree
    \/ Simulate
    \/ WriteFile
    \/ WriteFails
    \/ Compare

ScriptSpec == ScriptInit /\ [][ScriptNext]_scriptVars

-------------------------------------------------------------------------------
\* Type invariant.
ScriptTypeOK ==
    /\ phase \in {"check", "export", "simulate", "write", "compare", "done", "mismatch", "raised"}
    /\ tree_index \in 0 .. TREE_COUNT
    /\ forest_memory \in [0 .. tree_index * NODES_PER_TREE - 1 -> Node]
    /\ written \in 0 .. FILE_COUNT
    /\ written > 0 => packed_predictions \in [TestSamples -> 0 .. CLASS_COUNT - 1]

\* The walk of the engine down an exported tree ends with the class that
\* scikit-learn predicts, for early leaves, comparisons for equality and
\* thresholds between the integers alike.
EngineDecidesLikeTheModel ==
    \A t \in 0 .. tree_index - 1, s \in TestSamples :
        RoundsSafely(model[t]) =>
            traverse_tree(forest_memory, Doubled(integer_features[s]), t)
                = { predict(model[t], integer_features[s]) }

\* What the script compares is what the engine will answer.
SimulationIsTheEngine ==
    written > 0 =>
        \A s \in TestSamples :
            Classify(forest_memory, Doubled(integer_features[s])) = { packed_predictions[s] }

\* The header the firmware is compiled with holds a forest whose nodes all
\* name existing features and fit their fields.
HeaderIsWellFormed ==
    written >= NODES_HEADER => forest_memory \in Forest /\ WellFormed(forest_memory)

\* A script that ends well leaves six files of this run, with which the engine
\* answers every test sample as the reference says.
DoneMeansEquivalent ==
    phase = "done" =>
        /\ written = FILE_COUNT
        /\ \A s \in TestSamples :
              Classify(forest_memory, Doubled(integer_features[s])) = { reference[s] }

\* A divergence is never the exporter's fault: with the reference of this very
\* model and thresholds that round safely there is none.
NoFalseAlarm ==
    phase = "mismatch" =>
        \/ reference # Predictions(model, integer_features)
        \/ \E t \in Trees : ~RoundsSafely(model[t])

===============================================================================
