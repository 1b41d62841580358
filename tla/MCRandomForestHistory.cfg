SPECIFICATION HistorySpec
CONSTANTS
    TREE_COUNT = 2
    DEPTH = 1
    NODES_PER_TREE = 3
    FEATURE_COUNT = 1
    FEATURE_INDEXES = 2
    CLASS_COUNT = 4
    FeatureValue = {0, 1}
    Threshold = {0, 1}
    Class = {1, 2, 7}
    PowerUpForests <- MCPowerUpForests
    PowerUpFeatures <- MCPowerUpFeatures
    PowerUpPredictions <- MCPowerUpPredictions
    FeatureWrites <- MCFeatureWrites
    TreeWrites <- MCTreeWrites
INVARIANTS
    AnswerIsPlurality
PROPERTIES
    Classifies
    AnswersInTheEnd
