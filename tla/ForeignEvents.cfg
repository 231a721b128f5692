CONSTANTS
    u1 = u1
    u2 = u2
    c1 = c1
    c2 = c2
    User = {u1, u2}
    Client = {c1, c2}
    Owner <- MCOwner
    Wrapper = {"w1"}
    ControlSize = 1
    BroadcastSize = 1
    SendSize = 1
    MaxEvents = 2
    Closing = Closing
    None = None
SPECIFICATION Spec
INVARIANTS EventsReachTheirOwner
CHECK_DEADLOCK FALSE
