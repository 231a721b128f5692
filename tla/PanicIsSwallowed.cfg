\* A file on which the PDF interpreter panics.
CONSTANTS
    File = {f1}
    Goroutine = {g1, g2}
    WorkerCount = 1
    QueueSize = 1
    MaxRetries = 3
    None = None
    Fault = {"panic"}
SPECIFICATION Spec
SYMMETRY Symmetry
INVARIANTS
    FailureIsRetriedOrKept
CHECK_DEADLOCK FALSE
