----------------------------- MODULE RandomForest -----------------------------
(***************************************************************************)
(* The inference engine, module random_forest_vehicle.  One step is one    *)
(* positive clock edge.  The two memories have write ports that work in    *)
(* every state, reset included; the state machine takes a start pulse in   *)
(* IDLE, walks all trees in PREDICT, counts the votes in AGGREGATE and     *)
(* raises ready in DONE.                                                   *)
(***************************************************************************)
EXTENDS DecisionForest

\* What the memories without a reset may hold at power-up.
CONSTANTS PowerUpForests, PowerUpFeatures, PowerUpPredictions

ASSUME PowerUpAssumption ==
    /\ PowerUpForests \subseteq Forest
    /\ PowerUpFeatures \subseteq FeatureBank
    /\ PowerUpPredictions \subseteq [Trees -> Class]

VARIABLES features,         \* the feature bank
          tree_memory,      \* the node words
          tree_predictions, \* one class per tree
          rf_state,         \* state of the machine
          ready,            \* output: 1 when an answer may be read
          result            \* output: the class of the last answer

engineVars == <<features, tree_memory, tree_predictions, rf_state, ready, result>>

\* A write port: we, the address and the data; NoWrite when we is low.
NoWrite == [we |-> FALSE]
WriteTo(a, d) == [we |-> TRUE, addr |-> a, data |-> d]

\* An address beyond the array is ignored, as Verilog prescribes.
FeatureStore(port) ==
    features' = IF port.we /\ port.addr \in Slot
                THEN [features EXCEPT ![port.addr] = port.data]
                ELSE features

TreeStore(port) ==
    tree_memory' = IF port.we /\ port.addr \in Address
                   THEN [tree_memory EXCEPT ![port.addr] = port.data]
                   ELSE tree_memory

-------------------------------------------------------------------------------
(* The state machine.  The memories it reads are those before the edge. *)

\* Mutant: reset does not raise ready.
EngineResetKeepsReady ==
    /\ rf_state' = "IDLE"
    /\ result' = 0
    /\ UNCHANGED <<ready, tree_predictions>>

EngineReset ==
    /\ rf_state' = "IDLE"
    /\ ready' = 1
    /\ result' = 0
    /\ UNCHANGED tree_predictions

Accept(start) == rf_state = "IDLE" /\ start /\ ready = 1

\* Mutant: ready stays high for the first clock of an inference.
IdleKeepsReady(start) ==
    /\ rf_state = "IDLE"
    /\ rf_state' = IF Accept(start) THEN "PREDICT" ELSE "IDLE"
    /\ UNCHANGED <<ready, tree_predictions, result>>

Idle(start) ==
    /\ rf_state = "IDLE"
    /\ IF Accept(start)
       THEN ready' = 0 /\ rf_state' = "PREDICT"
       ELSE UNCHANGED <<ready, rf_state>>
    /\ UNCHANGED <<tree_predictions, result>>

\* Mutant: the trees see the write of the same clock edge.
PredictAfterWrite ==
    /\ rf_state = "PREDICT"
    /\ tree_predictions' \in TreePredictions(tree_memory', features')
    /\ rf_state' = "AGGREGATE"
    /\ UNCHANGED <<ready, result>>

Predict ==
    /\ rf_state = "PREDICT"
    /\ tree_predictions' \in TreePredictions(tree_memory, features)
    /\ rf_state' = "AGGREGATE"
    /\ UNCHANGED <<ready, result>>

Aggregate ==
    /\ rf_state = "AGGREGATE"
    /\ result' = aggregate_predictions(tree_predictions)
    /\ rf_state' = "DONE"
    /\ UNCHANGED <<tree_predictions, ready>>

\* Mutant: ready does not rise.
DoneKeepsReady ==
    /\ rf_state = "DONE"
    /\ rf_state' = "IDLE"
    /\ UNCHANGED <<ready, tree_predictions, result>>

Done ==
    /\ rf_state = "DONE"
    /\ ready' = 1
    /\ rf_state' = "IDLE"
    /\ UNCHANGED <<tree_predictions, result>>

StateMachine(reset, start) ==
    \/ reset /\ EngineReset
    \/ ~reset /\ Idle(start)
    \/ ~reset /\ Predict
    \/ ~reset /\ Aggregate
    \/ ~reset /\ Done

\* One clock edge.
EngineClk(reset, start, featurePort, treePort) ==
    /\ FeatureStore(featurePort)
    /\ TreeStore(treePort)
    /\ StateMachine(reset, start)

\* No register of the machine has a power-up value: anything until reset.
EngineInit ==
    /\ features \in PowerUpFeatures
    /\ tree_memory \in PowerUpForests
    /\ tree_predictions \in PowerUpPredictions
    /\ rf_state \in {"IDLE", "PREDICT", "AGGREGATE", "DONE"}
    /\ ready \in {0, 1}
    /\ result \in Results

EngineTypeOK ==
    /\ features \in FeatureBank
    /\ tree_memory \in Forest
    /\ tree_predictions \in [Trees -> Class]
    /\ rf_state \in {"IDLE", "PREDICT", "AGGREGATE", "DONE"}
    /\ ready \in {0, 1}
    /\ result \in Results

===============================================================================
