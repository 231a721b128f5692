\* Two dispatchers and two slots, three goroutines so that a third could start.
CONSTANTS
    Job = {j1, j2}
    WorkerCount = 2
    QueueSize = 2
    Goroutine = {g1, g2, g3}
    None = None
SPECIFICATION LiveSpec
INVARIANTS
    PoolTypeOK
    SlotsAreActiveJobs
    CloseDrains
PROPERTIES
    JobStarts
    PoolWaitReturns
CHECK_DEADLOCK FALSE
