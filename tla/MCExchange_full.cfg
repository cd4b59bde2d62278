SPECIFICATION FairSpec
CONSTANTS
    Flash = 18
    TakeReserve = 3
    TakeMost = 9
    TakeLeast = 2
    FlashMargin = 6
    PlayLeast = 4
    Block = 3
    Payload = 2
    Lengths <- OneLength
    Takes = 1
    MaxFaults = 2
    MaxReboots = 0
PROPERTIES
    EveryTakeSent
CHECK_DEADLOCK FALSE
