\* Milliseconds of three clocks and bytes of two values; nine values of a VIA
\* counter; a screen of four lines in seven;
\* both ports and the blitter on three bytes, one of them in the palette.
SPECIFICATION ClockedSpec
CONSTANTS
    ClksPerMs = 3
    MaxClocks = 7
    Base = 2
    MaxTotal = 54
    ViaBase = 3
    ViaClocks = 4
    Loads = {0, 1, 2}
    SCAN_HEIGHT = 7
    SCREEN_HEIGHT = 4
    OFFSET_LOW = 2
    OFFSET_HIGH = 8
    Lines = {0, 3}
    Bases = {0, 1}
    Collisions = TRUE
    LoSize = 3
    HiSize = 1
    PortByte = {0, 1}
    PaletteWindow = {2}
    Incs <- Increments
    Blits <- SomeBlits
    Noise <- SomeNoise
    Ports = {0, 1}
    LineMode = TRUE
INVARIANTS
    CountsEveryClock
    ReadIsWhole
    TimersOnTime
    FramesAreWhole
    FetchedIsFresh
    PaletteFollows
    BlitIsExact
