\* Every fault but lost replies: database errors, panics, crashes and signals too.
\* With one worker one goroutine is alive at a time, so one identity is enough.
CONSTANTS
    File = {f1, f2}
    Goroutine = {g1}
    WorkerCount = 1
    QueueSize = 1
    MaxRetries = 2
    None = None
    Fault = {"db", "store", "disk", "process", "panic", "crash", "sigterm"}
SPECIFICATION Spec
SYMMETRY Symmetry
INVARIANTS
    TypeOK
    OutcomeToldOnce
    ContentKept
PROPERTIES
    ImplementsFileStatus
CHECK_DEADLOCK FALSE
