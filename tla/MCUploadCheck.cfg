SPECIFICATION Spec
CONSTANTS
    SampleRate = 8
    MinDurationMs = 500
    MaxDurationMs = 2000
    MaxUpload = 78
    Files <- SmallFiles
    HeaderBytes = 80
    None = None
INVARIANTS
    WalksFindData
    RowMatchesObject
    RowDurationIsTrue
    DeviceTakeAccepted
