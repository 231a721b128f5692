\* Two workers, processing and uploads that fail at will, the real maxRetries.
CONSTANTS
    File = {f1, f2}
    Goroutine = {g1, g2}
    WorkerCount = 2
    QueueSize = 1
    MaxRetries = 3
    None = None
    Fault = {"process", "store"}
SPECIFICATION Spec
SYMMETRY Symmetry
INVARIANTS
    SingleCarrier
    FailureIsRetriedOrKept
    DoneHasObject
    OutcomeIsTrue
    RetryColumnAgrees
CHECK_DEADLOCK FALSE
