\* A recording that is paused, and an exit.
SPECIFICATION WavSpec
CONSTANTS
    WavLen = 2
    MaxSamples = 4
INVARIANT HeaderCounts
