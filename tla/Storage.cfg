\* The calls of any guest, on a file channel for each direction and the commands,
\* on a root of a file and a directory; a card of two blocks behind four block
\* addresses, four bytes of memory, reads of none, one or two blocks; a compressed
\* image of two blocks, opened three times.
SPECIFICATION StorageSpec
CONSTANTS
    Names <- MCNames
    Fold <- MCFold
    MaxDepth = 2
    Inodes = {1, 2}
    Bytes = {2}
    MaxLen = 3
    Channels = {0, 2, 15}
    Units = {8, 9}
    OpenNames <- MCOpenNames
    Commands <- MCCommands
    Counts = {0, 2}
    MaxActs = 2
    PrgFile = TRUE
    StartTree <- MCTree
    StartData <- MCData
    Base = 2
    BlockSize = 2
    CardSize = 2
    BlockCounts = {0, 1, 2}
    Byte = {0, 1}
    ImageBlocks = 2
    Contents = {0, 1}
    MaxOpens = 3
INVARIANTS
    FilesAreKept
    ListingIsWhole
    ImageOldOrNew
PROPERTIES
    BlocksImplemented
CHECK_DEADLOCK FALSE
