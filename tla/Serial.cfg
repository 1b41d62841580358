SPECIFICATION Spec
CONSTANTS
    divider = 30
    BAUD_MAX = 31
    DATA_BITS = 3
    TypingPeriods = {30, 31, 33}
    ReadingPeriods = {28, 32, 36}
    CHECKS_STOP = FALSE
    None = None
    FramingError = FramingError
PROPERTIES
    ReceivesWhatIsTyped
    BreaksInTheEnd
    HostReceivesWhatIsPrinted
    PutcharReturns
