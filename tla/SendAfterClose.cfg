\* A signal with a request or a retry on its way to the queue.
CONSTANTS
    File = {f1}
    Goroutine = {g1, g2}
    WorkerCount = 1
    QueueSize = 1
    MaxRetries = 3
    None = None
    Fault = {"process", "sigterm"}
SPECIFICATION Spec
SYMMETRY Symmetry
INVARIANTS
    CloseIsLast
CHECK_DEADLOCK FALSE
