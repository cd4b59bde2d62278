SPECIFICATION Spec
CONSTANTS
    n1 = n1
    n2 = n2
    p1 = p1
    p2 = p2
    Calls = {c1, c2, c3}
    Notes = {n1, n2}
    Senders = {p1, p2}
    Devices = {d1, d2}
    SenderOf <- TwoSenders
    NoNote = NoNote
    NoDevice = NoDevice
SYMMETRY Symmetry
INVARIANTS
    TypeOK
    OneRowPerNote
    RowIsComplete
    AnswerIsTrue
    OnlyOwnerServed
PROPERTIES
    ImplementsMailbox
CHECK_DEADLOCK FALSE
