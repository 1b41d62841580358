SPECIFICATION Spec
CONSTANTS
    TREE_COUNT = 1
    DEPTH = 1
    NODES_PER_TREE = 3
    FEATURE_COUNT = 2
    FEATURE_INDEXES = 3
    CLASS_COUNT = 4
    FeatureValue = {0, 1, 2, 3}
    Threshold = {0, 1, 2}
    Class = {0, 1, 2, 3}
    PowerUpForests <- MCPowerUpForests
    PowerUpFeatures <- MCPowerUpFeatures
    PowerUpPredictions <- MCPowerUpPredictions
    FOREST <- MCForest
    TEST_COUNT = 2
    SAMPLES <- MCSamples
    EXPECTED <- MCExpected
    LABELS <- MCLabels
    CycleValues = {40}
    SHAMT_MAX = 0
    RESET_CNT_MAX = 1
    UART = TRUE
INVARIANTS
    TypeOK
    StartsOnLoadedInputs
    PredictionIsRight
    ReportIsOfOneSample
    StartIsNeverDropped
    PollSeesNoStaleReady
PROPERTIES
    ReportsInOrder
    EverySampleReported
