\* A guest that writes a file by its absolute name from a directory below the root.
SPECIFICATION Spec
CONSTANTS
    Names <- MCNames
    Fold <- MCFold
    MaxDepth = 2
    Inodes = {1, 2}
    Bytes = {2}
    MaxLen = 3
    Channels = {0, 2, 15}
    Units = {8}
    OpenNames <- DeepNames
    Commands <- DeepCommands
    Counts = {0, 2}
    MaxActs = 3
    PrgFile = FALSE
    StartTree <- DeepTree
    StartData <- MCData
INVARIANTS NothingLost
CHECK_DEADLOCK FALSE
