\* Any guest and a polite one, with a key and the mouse's reports; two ports of
\* two buttons and two controllers.
SPECIFICATION InputSpec
CONSTANTS
    KbdSize = 3
    MseSize = 6
    CountSize = 8
    Codes = {31}
    GuestBytes <- MCBytes
    Held = {FALSE}
    MaxSends = 1
    Slots = {1, 2}
    Buttons = 2
    Ones = 1
    Table = 4
    MaxId = 2
    MaxScans = 2
INVARIANTS
    ReportsInStep
    ScanReadsButtons
PROPERTIES
    ActsOnOwnBytes
    QueuesImplemented
CHECK_DEADLOCK FALSE
