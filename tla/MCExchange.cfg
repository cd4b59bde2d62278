SPECIFICATION FairSpec
CONSTANTS
    Flash = 18
    TakeReserve = 3
    TakeMost = 9
    TakeLeast = 2
    FlashMargin = 6
    PlayLeast = 5
    Block = 3
    Payload = 2
    Lengths <- ThreeLengths
    Takes = 2
    MaxFaults = 4
    MaxReboots = 1
INVARIANTS
    TypeOK
    FlashKeepsRoom
    ReadyIsWhole
    CopiesNeedLoss
PROPERTIES
    TakeKeptUntilStored
    EveryRoomyTakeSent
