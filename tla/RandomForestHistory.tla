-------------------------- MODULE RandomForestHistory --------------------------
(***************************************************************************)
(* The engine in an environment that does anything with its ports: start   *)
(* at any time, writes to both memories in any state, resets.  asked       *)
(* records what the memories classify to right after the edge at which a   *)
(* start is accepted; no action of the engine reads it.                    *)
(***************************************************************************)
EXTENDS RandomForest

CONSTANTS FeatureWrites,    \* values of the feature port the environment uses
          TreeWrites        \* values of the tree port the environment uses

\* Whatever its address, a write carries a value of the port's width.
ASSUME PortAssumption ==
    /\ \A port \in FeatureWrites :
          /\ port.we \in BOOLEAN
          /\ port.we => port.data \in FeatureValue
    /\ \A port \in TreeWrites :
          /\ port.we \in BOOLEAN
          /\ port.we => port.data \in Node

VARIABLE asked

historyVars == <<engineVars, asked>>

\* The SoC holds reset from power-up on; these are the states it leaves.
HistoryInit ==
    /\ EngineInit
    /\ rf_state = "IDLE"
    /\ ready = 1
    /\ result = 0
    /\ asked = {}

Clock(reset, start, featurePort, treePort) ==
    /\ EngineClk(reset, start, featurePort, treePort)
    /\ asked' = IF reset THEN {}
                ELSE IF Accept(start) THEN Classify(tree_memory', features')
                ELSE asked

HistoryNext == \E reset, start \in BOOLEAN, featurePort \in FeatureWrites, treePort \in TreeWrites :
            Clock(reset, start, featurePort, treePort)

\* The clock does not stop.
HistorySpec == HistoryInit /\ [][HistoryNext]_historyVars /\ WF_historyVars(HistoryNext)

-------------------------------------------------------------------------------
\* Type invariant of the engine's registers.
HistoryTypeOK ==
    /\ EngineTypeOK
    /\ asked \subseteq Results

\* The machine can always be started again once it shows ready, and never
\* waits in IDLE with ready low, where no start would be accepted any more.
ReadyIffIdle == ready = 1 <=> rf_state = "IDLE"

\* The answer shown is the lowest of the classes with the most votes, as the
\* reference model np.argmax(np.bincount(...)) has it.
AnswerIsPlurality == rf_state = "DONE" => IsPlurality(tree_predictions, result)

\* The engine is a classifier: a question is fixed by the edge that accepts
\* start, and no write that comes later, in whatever state of the machine,
\* changes its answer.
C == INSTANCE Classifier WITH
        Answer <- Results,
        busy   <- ready = 0,
        asked  <- asked,
        answer <- IF ready = 1 THEN result ELSE -1

Classifies == C!SafetySpec

\* An inference that was begun ends.
AnswersInTheEnd == ready = 0 ~> ready = 1

-------------------------------------------------------------------------------
\* The inductive invariant: what the pipeline knows of the question in each
\* state.
PipelineInv ==
    /\ HistoryTypeOK
    /\ ReadyIffIdle
    /\ AnswerIsPlurality
    /\ rf_state = "PREDICT" => asked = Classify(tree_memory, features)
    /\ rf_state = "AGGREGATE" => aggregate_predictions(tree_predictions) \in asked
    /\ rf_state = "DONE" => result \in asked
===============================================================================
