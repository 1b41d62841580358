SPECIFICATION DisplaySpec
CONSTANTS
    SHAMT_MAX = 0
    RESET_CNT_MAX = 2
    UART = TRUE
    LEDMTX_DIVIDER = 4
    WORD_BITS = 4
    DONT_CARE = 1
    LedmtxWord <- MCLedmtxWord
    OLED_PERIOD = 2
    BYTE_BITS = 3
    OledByte <- MCOledByte
    OledCntl <- MCOledCntl
PROPERTIES
    LedmtxTakesWhatIsStored
    OledTakesWhatIsStored
    ProgramRuns
