SPECIFICATION Spec
CONSTANTS
    n1 = n1
    n2 = n2
    p1 = p1
    p2 = p2
    Calls = {c1, c2}
    Notes = {n1, n2}
    Senders = {p1, p2}
    Devices = {d1}
    SenderOf <- TwoSenders
    NoNote = NoNote
    NoDevice = NoDevice
PROPERTIES
    DuplicateWasStored
CHECK_DEADLOCK FALSE
