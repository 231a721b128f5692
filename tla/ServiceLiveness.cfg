\* Processing that fails at will, and a signal at any time. No
\* symmetry, since the run checks liveness.
CONSTANTS
    File = {f1, f2}
    Goroutine = {g1}
    WorkerCount = 1
    QueueSize = 1
    MaxRetries = 2
    None = None
    Fault = {"process", "sigterm"}
SPECIFICATION LiveSpec
PROPERTIES
    CarriedIsResolved
    PipelineDrains
    SignalEnds
CHECK_DEADLOCK FALSE
