\* Frames of two instructions, half of them drawn in warp mode; a key ring of
\* three bytes for the typed texts.
SPECIFICATION LoopSpec
CONSTANTS
    headless = FALSE
    FrameLen = 2
    Skip = 2
    MaxWrites = 2
    MaxRestarts = 1
    KeySize = 4
    Letters <- SomeLetters
    Texts <- SomeTexts
    MaxResets = 1
INVARIANTS
    SavedOnExit
    LastPictureWhole
    TypesTheText
PROPERTIES
    ExitsWhenAsked
    TextArrives
