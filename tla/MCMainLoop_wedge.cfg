SPECIFICATION Spec
CONSTANTS
    Messages = {1}
    Takes = {t1}
    Faults = {"wifi"}
    None = None
    Failed = Failed
    Partial = Partial
INVARIANTS
    IdleIsFree
