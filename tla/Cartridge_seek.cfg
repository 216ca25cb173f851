\* A cartridge of up to three banks, built by two commands and started twice.
SPECIFICATION CartSpec
CONSTANTS
    NBanks = 3
    BankSize = 2
    BinSizes = {3}
    Fill = 1
    Random = 9
    Poked = 5
    MaxCommands = 2
    MaxStarts = 2
INVARIANT RomAsMade
CHECK_DEADLOCK FALSE
