----------------------------- MODULE WorkerPool -----------------------------
(***************************************************************************)
(* The job queue (internal/queue/job_queue.go) and the bounded worker pool  *)
(* (internal/worker/pool.go): a buffered Go channel, WorkerCount dispatcher *)
(* goroutines that receive from it, and a counting semaphore that a         *)
(* dispatcher acquires before it spawns the goroutine that runs the job.    *)
(*                                                                          *)
(* What a job is, and what running it does, is left to the module that      *)
(* composes the pool with the processor (UploadService).                    *)
(***************************************************************************)
EXTENDS Naturals, Sequences, FiniteSets

CONSTANTS Job,          \* the values the channel carries (domain.Job)
          WorkerCount,  \* WORKER_COUNT: dispatchers, and capacity of sem
          QueueSize,    \* JOB_QUEUE_SIZE: capacity of the channel
          Goroutine,    \* identities of the processing goroutines
          None          \* "no job"

ASSUME PoolAssumption ==
    /\ WorkerCount \in Nat \ {0}
    /\ QueueSize \in Nat \ {0}
    /\ None \notin Job

Dispatcher == 1..WorkerCount

VARIABLES queue,      \* the buffer of JobQueue.ch
          closed,     \* close(ch) has happened
          cancelled,  \* the context given to Pool.Start is done
          hold,       \* hold[d]: the job dispatcher d has received and not spawned
          exited,     \* the dispatchers that have returned (wg.Done)
          sem,        \* the slots taken in Pool.sem
          run         \* run[g]: the job goroutine g is processing

poolVars == <<queue, closed, cancelled, hold, exited, sem, run>>

Active == {g \in Goroutine : run[g] # None}

\* What Pool.Wait waits for.
Drained == exited = Dispatcher

-----------------------------------------------------------------------------
Init ==
    /\ queue = <<>>
    /\ closed = FALSE
    /\ cancelled = FALSE
    /\ hold = [d \in Dispatcher |-> None]
    /\ exited = {}
    /\ sem = 0
    /\ run = [g \in Goroutine |-> None]

\* A send on a full channel takes the default branch and returns ErrQueueFull.
\* A send on a closed channel panics, whatever the buffer holds.
QueueFull == ~closed /\ Len(queue) >= QueueSize

Enqueue(j) ==
    /\ ~closed
    /\ Len(queue) < QueueSize
    /\ queue' = Append(queue, j)
    /\ UNCHANGED <<closed, cancelled, hold, exited, sem, run>>

\* The signal handler calls it once; a second close would panic.
Close ==
    /\ ~closed
    /\ closed' = TRUE
    /\ UNCHANGED <<queue, cancelled, hold, exited, sem, run>>

Cancel ==
    /\ ~cancelled
    /\ cancelled' = TRUE
    /\ UNCHANGED <<queue, closed, hold, exited, sem, run>>

\* A dispatcher at the outer select. When the context is done and a job is
\* ready as well, Go picks either branch: Receive stays enabled.
AtReceive(d) == d \notin exited /\ hold[d] = None

\* A dispatcher at the inner select, with a job in hand.
AtAcquire(d) == d \notin exited /\ hold[d] # None

Receive(d) ==
    /\ AtReceive(d)
    /\ queue # <<>>
    /\ hold' = [hold EXCEPT ![d] = Head(queue)]
    /\ queue' = Tail(queue)
    /\ UNCHANGED <<closed, cancelled, exited, sem, run>>

\* Slip: spawn without asking the semaphore for a free slot.
SpawnUnbounded(d, g) ==
    /\ AtAcquire(d)
    /\ run[g] = None
    /\ sem' = sem + 1
    /\ run' = [run EXCEPT ![g] = hold[d]]
    /\ hold' = [hold EXCEPT ![d] = None]
    /\ UNCHANGED <<queue, closed, cancelled, exited>>

\* Acquire a slot and spawn a fresh goroutine with the job.
Spawn(d, g) ==
    /\ AtAcquire(d)
    /\ sem < WorkerCount
    /\ run[g] = None
    /\ sem' = sem + 1
    /\ run' = [run EXCEPT ![g] = hold[d]]
    /\ hold' = [hold EXCEPT ![d] = None]
    /\ UNCHANGED <<queue, closed, cancelled, exited>>

\* Slip: take the close of the channel for the end of its buffer.
ExitWhenClosed(d) ==
    /\ AtReceive(d)
    /\ cancelled \/ closed
    /\ exited' = exited \cup {d}
    /\ UNCHANGED <<queue, closed, cancelled, hold, sem, run>>

\* Slip: a break that leaves the select and not the loop.
ExitBreaksSelect(d) ==
    /\ AtReceive(d)
    /\ cancelled \/ (closed /\ queue = <<>>)
    /\ UNCHANGED poolVars

\* The context is done, or the channel is closed and its buffer is empty.
Exit(d) ==
    /\ AtReceive(d)
    /\ cancelled \/ (closed /\ queue = <<>>)
    /\ exited' = exited \cup {d}
    /\ UNCHANGED <<queue, closed, cancelled, hold, sem, run>>

\* The context is done while the dispatcher waits for a slot: it returns, and
\* the job in its hand is gone.
Abandon(d) ==
    /\ AtAcquire(d)
    /\ cancelled
    /\ exited' = exited \cup {d}
    /\ hold' = [hold EXCEPT ![d] = None]
    /\ UNCHANGED <<queue, closed, cancelled, sem, run>>

\* Slip: a path out of the goroutine that does not release the slot.
FinishLeaksSlot(g) ==
    /\ run[g] # None
    /\ run' = [run EXCEPT ![g] = None]
    /\ UNCHANGED <<queue, closed, cancelled, hold, exited, sem>>

\* The deferred function: the slot is released whether Process returned or
\* panicked.
Finish(g) ==
    /\ run[g] # None
    /\ sem' = sem - 1
    /\ run' = [run EXCEPT ![g] = None]
    /\ UNCHANGED <<queue, closed, cancelled, hold, exited>>

\* The process ends, by a crash or an exit, and a new one starts.
Restart ==
    /\ queue' = <<>>
    /\ closed' = FALSE
    /\ cancelled' = FALSE
    /\ hold' = [d \in Dispatcher |-> None]
    /\ exited' = {}
    /\ sem' = 0
    /\ run' = [g \in Goroutine |-> None]

Step ==
    \/ \E j \in Job : Enqueue(j)
    \/ Close
    \/ Cancel
    \/ \E d \in Dispatcher :
          \/ Receive(d)
          \/ \E g \in Goroutine : Spawn(d, g)
          \/ Exit(d)
          \/ Abandon(d)
    \/ \E g \in Goroutine : Finish(g)

Next == Step \/ Restart

Spec == Init /\ [][Next]_poolVars

\* A runnable goroutine is scheduled in the end and a job terminates. A
\* dispatcher parked on the semaphore needs strong fairness: Go queues parked
\* senders in order and hands a released slot to the first.
Fairness ==
    /\ \A d \in Dispatcher :
          /\ WF_poolVars(Receive(d))
          /\ WF_poolVars(Exit(d) \/ Abandon(d))
          /\ SF_poolVars(\E g \in Goroutine : Spawn(d, g))
    /\ \A g \in Goroutine : WF_poolVars(Finish(g))

\* One run of the process, with the scheduler's fairness.
LiveSpec == Init /\ [][Step]_poolVars /\ Fairness

-----------------------------------------------------------------------------
PoolTypeOK ==
    /\ queue \in Seq(Job)
    /\ closed \in BOOLEAN
    /\ cancelled \in BOOLEAN
    /\ hold \in [Dispatcher -> Job \cup {None}]
    /\ exited \subseteq Dispatcher
    /\ sem \in 0..WorkerCount
    /\ run \in [Goroutine -> Job \cup {None}]

\* The semaphore counts the processing goroutines exactly: no slot leaks when
\* a dispatcher abandons a job or a goroutine ends, and so at most WorkerCount
\* jobs execute at once (pool.go:16-19).
SlotsAreActiveJobs ==
    /\ IsFiniteSet(Active)
    /\ Cardinality(Active) = sem
    /\ sem <= WorkerCount

\* Unless the context is cancelled, a dispatcher returns only when the channel
\* is closed and empty: closing the channel loses no queued job (pool.go:38,
\* 60-62).
CloseDrains ==
    exited # {} /\ ~cancelled => closed /\ queue = <<>>

InQueue(j) == \E i \in DOMAIN queue : queue[i] = j
Running(j) == \E g \in Goroutine : run[g] = j

\* A queued job starts, unless the context is cancelled: dispatchers that wait
\* on the semaphore never block each other for ever (pool.go:53-84).
JobStarts == \A j \in Job : InQueue(j) ~> (Running(j) \/ cancelled)

\* Pool.Wait returns once the channel is closed or the context is done.
PoolWaitReturns == (closed \/ cancelled) ~> Drained
=============================================================================
