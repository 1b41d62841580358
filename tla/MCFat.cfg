SPECIFICATION Spec
CONSTANTS
    SECTOR_SIZE = 2
    ENTRIES_PER_SECTOR = 3
    FAT16_LINKS = 3
    FAT32_LINKS = 3
    FAT12_LIMIT = 3
    FAT16_LIMIT = 7
    FAT16_SECTORS = 24
    CLUSTER_SIZES16 <- MCClusterSizes16
    CLUSTER_SIZES32 <- MCClusterSizes32
    RESERVED16 = 1
    RESERVED32 = 2
    ROOT_ENTRIES = 9
    NEWLINE = 7
    LFN_CHARS = 2
    SFN_BASE = 2
    SFN_EXT = 1
    TAILS = 3
    MAX_OPEN_FILES = 2
    Volumes <- MCVolumes
    Files <- MCFiles
    Folders <- MCFolders
    Spellings = {"slash"}
    Byte = {0, 1, 2, 3, 4, 5, 6, 7}
    Chars = {4}
    Data <- MCData
    Strings <- MCStrings
    ReadSizes = {3}
    FormatSizes = {24, 40}
    Positions = {2}
    Modes = {"r", "w", "ap"}
    MAX_LENGTH = 6
    Careful = TRUE
    MAX_CALLS = 5
    MAX_FAULTY_CALLS = 4
    LATEST = 5
    Faults = {"cut", "write"}
    Absent = Absent
    Spoilt = Spoilt
    Closed = Closed
INVARIANTS
    EachClusterHasOneOwner
    ReadsAreRight
    FindsWhatIsThere
    SettledFilesSurvive
PROPERTIES
    KeepsFiles
    StaysOnTheVolume
CHECK_DEADLOCK FALSE
