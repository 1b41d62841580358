SPECIFICATION Spec
CONSTANTS
    Cards <- MCCards
    SCREEN_LINES = 2
    LINE_LEN = 2
    MAX_OPEN_FILES = 2
    Buttons = {3, 5}
    Typed = {"demo", "game", "cut", "bad", "exit", " ", "bs", "cr"}
    OLED_WIDTH = 5
    OLED_HEIGHT = 6
    FGA_width = 7
    FGA_height = 4
    Garbage = {0, 3}
    Chars = {"a", "b"}
    FONT_WIDTH = 3
    FONT_HEIGHT = 2
    MARGIN = 2
    CUT = 1
    Columns = {0, 2, 5, 8}
    Rows = {0, 3, 5, 7}
    MANT = 2
    EXP = 3
    WORD = 8
    XSigns = {0, 1}
    XExps = {0, 1, 2, 3, 4, 5, 6}
    YExps = {0, 3}
    ZExps = {0, 1, 2, 3, 4, 5, 6}
    Ops = {"FMADD", "FMSUB", "FNMADD", "FNMSUB", "FADD", "FSUB", "FMUL", "FDIV", "FEQ", "FLT", "FSGNJ", "FSGNJN", "FSGNJX", "FCVTWS", "FCVTWUS"}
    DIVISION = 2
    TREE_COUNT = 2
    DEPTH = 2
    NODES_PER_TREE = 7
    FEATURE_COUNT = 2
    FEATURE_INDEXES = 3
    CLASS_COUNT = 3
    FeatureValue = {0, 2, 4}
    Threshold = {0, 1, 2, 3, 4, 5}
    Class = {0, 1, 2}
    MAX_THRESHOLD_X2 = 5
    UNIT = 4
    ATOL = 1
    RTOL = 0
    SourceForests <- MCSourceForests
    OldForests <- MCOldForests
    TestSets <- MCTestSets
INVARIANTS
    EngineDecidesLikeTheModel
    SimulationIsTheEngine
    HeaderIsWellFormed
    DoneMeansEquivalent
    NoFalseAlarm
    MarkedIsSelected
    StartsWhole
    FiguresAreRight
    
PROPERTIES
    ShowsTheText
CHECK_DEADLOCK FALSE
