CONSTANTS
    Request = {r1, r2}
    User = {u1, u2}
    Limiter = {l1, l2}
    None = None
    Email = {"e"}
    Password = {p, q}
    Asked = {"register", "login", "files"}
    MaxTokens = 2
    TokenLife = 2
    Cost = 1
    Cap = 1
    Idle = 2
    Stall = 1
    Horizon = 3
SPECIFICATION AccessSpec
INVARIANTS AccessTypeOK OneAccountPerAddress RegisteredCanLogIn ServedWereChecked RateHolds HeldIsCurrent
PROPERTIES RefusalIsEarned
SYMMETRY Symmetric
CHECK_DEADLOCK FALSE
