\* A program counter of two values, two banks, and stacks that start in the middle
\* of a page of seven bytes; two nested interrupts of emulation mode, or one of
\* native mode with bytes of the program around it; decimal mode is never set
\* there, and is saved and restored as the interrupt mask is.
\* Digits of four values, three of them decimal; memory and block moves in
\* bytes of three values, each move with a handler's between its bytes.
SPECIFICATION InstructionsSpec
CONSTANTS
    High = 2
    Low = 1
    Banks = {0, 1}
    PageSize = 7
    Pages = 3
    Targets = {0}
    Vectors <- SomeVectors
    Settable = {"C"}
    Masks <- SomeMasks
    Stacks = {11}
    MaxDepth = 6
    MaxOwn = 1
    Digit = 4
    Ten = 3
    Operands = {0, 1, 42, 85, 106, 127, 128, 149, 170, 255}
    MaxSteps = 1
    BitAnd <- AndOfBits
    BitOr <- OrOfBits
    BitXor <- XorOfBits
    ByteSize = 3
    MemBanks = 2
    Patterns <- SomePatterns
    Directs = {0, 1, 3}
    Indexes = {0, 2, 5, 8}
    StackBases = {4, 8}
    MaxStores = 1
    NarrowSize = 3
    Counts = {2, 4}
    Starts = {2, 7}
    MaxMoves = 2
    Nesting = 1
INVARIANTS
    WidthsHold
    NoLostWakeup
    AddsAndSubtracts
    WideIsTwoNarrow
    AsOn6502
    MoveIsWhole
PROPERTIES
    ReturnsAsEntered
