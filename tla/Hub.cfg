CONSTANTS
    u1 = u1
    u2 = u2
    c1 = c1
    c2 = c2
    User = {u1, u2}
    Client = {c1, c2}
    Owner <- MCOwner
    Wrapper = {"w1", "w2"}
    ControlSize = 1
    BroadcastSize = 2
    SendSize = 2
    MaxEvents = 3
    Closing = Closing
    None = None
SPECIFICATION LiveSpec
INVARIANTS TypeOK RoutedInOrder UnregisteredOnce ReaderOwnsWrapper
PROPERTIES FullBufferGetsRoom PumpsEnd
CHECK_DEADLOCK FALSE
