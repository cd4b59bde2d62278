SPECIFICATION FairSpec
CONSTANTS
    RingCapacity = 3
    ReadSamples = 2
    ChunkSamples = 2
    Reserve = 1
    CapSamples = 3
    LeastBudget = 2
    FreeSpaces = {2, 3, 8}
    LastSample = 7
    FlashFails = TRUE
    DebounceMs = 1
    HoldThresholdMs = 1
    PassMs = {0, 1}
    SampleRate = 4
    MinDurationMs = 500
    MaxDurationMs = 750
    MaxUpload = 50
INVARIANTS
    TypeOK
    WithinBudget
    GapsAreCounted
    PrerollIsTaken
    HeaderFitsFile
PROPERTIES
    PressIsOneGesture
    LoopReturns
