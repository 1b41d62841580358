SPECIFICATION FpuSpec
CONSTANTS
    MANT = 2
    EXP = 3
    WORD = 8
    XSigns = {0, 1}
    XExps = {0, 1, 2, 3, 4, 5, 6}
    YExps = {0, 3}
    ZExps = {0, 1, 2, 3, 4, 5, 6}
    Ops = {"FMADD", "FMSUB", "FNMADD", "FNMSUB", "FADD", "FSUB", "FMUL", "FDIV", "FEQ", "FLT", "FSGNJ", "FSGNJN", "FSGNJX", "FCVTWS", "FCVTWUS"}
    DIVISION = 2
INVARIANTS
    AgreesWithTheHost
CHECK_DEADLOCK FALSE
