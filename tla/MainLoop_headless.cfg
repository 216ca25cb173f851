\* -testbench: no window, so no frames end.
SPECIFICATION Spec
CONSTANTS
    headless = TRUE
    FrameLen = 2
    Skip = 2
    MaxWrites = 1
    MaxRestarts = 1
PROPERTIES
    ExitsWhenAsked
