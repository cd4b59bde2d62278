\* Two server processes share the table; every fault may strike.
SPECIFICATION Spec
CONSTANTS
    Requests = {r1, r2}
    Servers = {s1, s2}
    MaxAttempts = 2
    Faults = {"crash", "db"}
    NoRow = NoRow
SYMMETRY Symmetry
INVARIANTS
    TypeOK
    ClaimIsExclusive
    DeliveryBudget
    TerminalStatusIsTrue
    CreatedIsDurable
PROPERTIES
    StatusFollowsGraph
    ImplementsDelivery
CHECK_DEADLOCK FALSE
