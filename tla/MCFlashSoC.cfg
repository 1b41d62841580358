SPECIFICATION Spec
CONSTANTS
    SHAMT_MAX = 0
    RESET_CNT_MAX = 19
    UART = TRUE
    RESET_ADDR <- MCReset
    CodeAddress <- MCCode
    DataAddress <- MCData
    RamWord = {0}
    RamValue = {0, 1}
    Command <- MCCommand
    ADDRESS_BITS = 3
    CHIP_BYTES = 8
    DUMMY_CLOCKS = 0
    BYTES = 2
    BYTE_BITS = 2
    COUNT_MAX = 7
    FlashWord = {0, 2}
    Contents <- MCContents
INVARIANTS
    TakesTheRightWord
PROPERTIES
    ReadsThroughPort
    ProgramRuns
