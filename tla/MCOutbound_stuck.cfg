SPECIFICATION FairSpec
CONSTANTS
    Requests = {r1, r2}
    Servers = {s1}
    MaxAttempts = 3
    Faults = {"crash"}
    NoRow = NoRow
PROPERTIES
    EveryRowSettles
CHECK_DEADLOCK FALSE
