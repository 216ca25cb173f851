\* The memory map: one plain byte, a boot page of two, one byte of firmware and a
\* hole in the I/O page.  The bus: bytes of three bits, four to a transfer.  The
\* clock: carries of every kind, a guest that sets the time, and resets that cut
\* off its accesses to a cell of the NVRAM.  A cartridge of up to three
\* banks, built by two commands and started twice.
SPECIFICATION BoardSpec
CONSTANTS
    Plain = {1}
    Boot <- MCBoot
    Firmware = {4}
    Unmapped = {9}
    Vector = 3
    Byte = {0, 1, 2}
    boot_rom <- MCRom
    Bits = 3
    Known <- TwoDevices
    MaxBytes = 4
    DataLen = 3
    ClocksPerSecond = 2
    CutAt = {33}
    NvCells = {33}
    Starts <- SomeTimes
    Guest <- TimeSetter
    MaxClocks = 3
    NBanks = 3
    BankSize = 2
    BinSizes = {0, 3}
    Fill = 1
    Random = 9
    Poked = 5
    MaxCommands = 2
    MaxStarts = 2
INVARIANTS
    CopyIsSeamless
    BootsAsLoaded
    CalendarCountsDays
    RegistersKeep
    LastNvramKept
PROPERTIES
    TransfersImplemented
CHECK_DEADLOCK FALSE
