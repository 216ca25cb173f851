\* A mixer ring of three buffers of three frames; a PCM ring of eight bytes and
\* streams of eleven; recordings of five samples; two MIDI events through FIFOs
\* of two bytes.
SPECIFICATION SoundSpec
CONSTANTS
    Frames = 3
    Bufs = 3
    MaxLen = 3
    MaxFrame = 36
    PcmSize = 8
    MaxWritten = 11
    FrameSizes = {1, 2, 4}
    WavLen = 2
    MaxSamples = 5
    Data = {"key", "vel", "prg", "x"}
    Events <- SomeEvents
    Fifo = 2
    Trigger = 2
    Queue = 5
    Bits = 2
    TimeoutBytes = 1
    MaxEvents = 2
INVARIANTS
    PlaysInOrder
    HoldsTheRest
    PlaysWholeFrames
    RecordingIsWhole
    PlaysWhatIsPressed
