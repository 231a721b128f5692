\* A file deleted while a goroutine works on it, without any fault.
CONSTANTS
    File = {f1}
    Goroutine = {g1, g2}
    WorkerCount = 1
    QueueSize = 1
    MaxRetries = 3
    None = None
    Fault = {}
SPECIFICATION Spec
SYMMETRY Symmetry
INVARIANTS
    DeleteRemovesObject
CHECK_DEADLOCK FALSE
