SPECIFICATION Spec
CONSTANTS
    Messages = {1, 2}
    Takes = {t1, t2}
    Faults = {"reboot", "playback"}
    None = None
    Failed = Failed
    Partial = Partial
SYMMETRY Symmetry
INVARIANTS
    TypeOK
    AckOnlyTried
    ReadyIsPlayable
    NoReplay
    NoOverlap
    HeaderFits
    IdleIsFree
