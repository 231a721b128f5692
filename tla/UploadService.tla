---------------------------- MODULE UploadService ----------------------------
(***************************************************************************)
(* The service around one processing pipeline: upload requests              *)
(* (handlers/upload.go) feed the queue, the pool (WorkerPool) runs the      *)
(* processor (Processor) on its goroutines, retry timers feed the queue     *)
(* again, delete requests (services/file.go) remove rows and objects under  *)
(* the pipeline's feet, and the process stops, by a signal (di/wire.go) or  *)
(* a crash, and starts again over the same database, disk and object store. *)
(***************************************************************************)
EXTENDS Processor

CONSTANTS WorkerCount, QueueSize, None

VARIABLES queue, closed, cancelled, hold, exited, sem, run, \* see WorkerPool
          upload,  \* upload[f]: how far the request that uploads f has come
          delete,  \* delete[f]: how far a request to delete f has come
          stage    \* the process: serving, drained (Pool.Wait returned), stopped

ASSUME ServiceAssumption ==
    /\ WorkerCount \in Nat \ {0}
    /\ QueueSize \in Nat \ {0}
    /\ None \notin Job

Pool == INSTANCE WorkerPool

Dispatcher == Pool!Dispatcher

poolVars == <<queue, closed, cancelled, hold, exited, sem, run>>
reqVars == <<upload, delete>>
vars == <<procVars, poolVars, upload, delete, stage>>

UploadState == {"none", "saved", "created", "accepted", "busy", "failed"}
DeleteState == {"none", "object", "row"}

Init ==
    /\ ProcInit
    /\ Pool!Init
    /\ upload = [f \in File |-> "none"]
    /\ delete = [f \in File |-> "none"]
    /\ stage = "serving"

Alive == stage # "stopped"
FirstJob(f) == [file |-> f, retry |-> 0]

-----------------------------------------------------------------------------
(* The upload handler. *)

UploadGoes(f, s) == upload' = [upload EXCEPT ![f] = s]

\* Write TmpPath.tmp and rename it; a failure removes the partial file.
SaveUpload(f) ==
    /\ stage = "serving"
    /\ upload[f] = "none"
    /\ \/ tmp' = tmp \cup {f} /\ UploadGoes(f, "saved")
       \/ "disk" \in Fault /\ tmp' = tmp /\ UploadGoes(f, "failed")
    /\ UNCHANGED <<row, object, dead, events, mailed, timers, pc, poolVars, delete, stage>>

\* INSERT the row; on an error remove the temporary file and answer 500.
CreateRow(f) ==
    /\ Alive
    /\ upload[f] = "saved"
    /\ \/ row' = [row EXCEPT ![f].status = "pending"] /\ tmp' = tmp /\ UploadGoes(f, "created")
       \/ /\ "db" \in Fault
          /\ row' = row /\ tmp' = tmp \ {f} /\ UploadGoes(f, "failed")
       \/ /\ "reply" \in Fault
          /\ row' = [row EXCEPT ![f].status = "pending"]
          /\ tmp' = tmp \ {f} /\ UploadGoes(f, "failed")
    /\ UNCHANGED <<object, dead, events, mailed, timers, pc, poolVars, delete, stage>>

\* 202 when the job fits; 503 when it does not: the row and the temporary file
\* stay. A send on the closed channel panics; Fiber's recover answers 500.
EnqueueUpload(f) ==
    /\ Alive
    /\ upload[f] = "created"
    /\ \/ Pool!Enqueue(FirstJob(f)) /\ UploadGoes(f, "accepted")
       \/ Pool!QueueFull /\ UploadGoes(f, "busy") /\ UNCHANGED poolVars
       \/ closed /\ UploadGoes(f, "failed") /\ UNCHANGED poolVars
    /\ UNCHANGED <<procVars, delete, stage>>

-----------------------------------------------------------------------------
(* The delete handler: FileService.Delete. *)

DeleteGoes(f, s) == delete' = [delete EXCEPT ![f] = s]

\* GetByID: the storage path is read once, here.
DeleteReads(f) ==
    /\ stage = "serving"
    /\ delete[f] = "none"
    /\ Exists(f)
    /\ DeleteGoes(f, IF row[f].path THEN "object" ELSE "row")
    /\ UNCHANGED <<procVars, poolVars, upload, stage>>

\* The error of RemoveObject is ignored.
DeleteObject(f) ==
    /\ Alive
    /\ delete[f] = "object"
    /\ object' = object \ {f} \/ ("store" \in Fault /\ object' = object)
    /\ DeleteGoes(f, "row")
    /\ UNCHANGED <<row, tmp, dead, events, mailed, timers, pc, poolVars, upload, stage>>

DeleteRow(f) ==
    /\ Alive
    /\ delete[f] = "row"
    /\ Attempt(WithStatus(f, "deleted"))
    /\ DeleteGoes(f, "none")
    /\ UNCHANGED <<tmp, object, dead, events, mailed, timers, pc, poolVars, upload, stage>>

-----------------------------------------------------------------------------
(* The pool at work. *)

Receive(d) ==
    /\ Pool!Receive(d)
    /\ UNCHANGED <<procVars, reqVars, stage>>

Spawn(d, g) ==
    /\ Pool!Spawn(d, g)
    /\ Goto(g, "begin")
    /\ UNCHANGED <<storeVars, timers, reqVars, stage>>

Leave(d) ==
    /\ Pool!Exit(d) \/ Pool!Abandon(d)
    /\ UNCHANGED <<procVars, reqVars, stage>>

GoroutineWorks(g) ==
    /\ run[g] # None
    /\ Work(g, run[g])
    /\ UNCHANGED <<poolVars, reqVars, stage>>

Finish(g) ==
    /\ pc[g] = "exit"
    /\ Pool!Finish(g)
    /\ Goto(g, "idle")
    /\ UNCHANGED <<storeVars, timers, reqVars, stage>>

-----------------------------------------------------------------------------
(* The life of the process. *)

\* Everything in memory is gone; requests in flight never finish.
ProcessEnds ==
    /\ stage' = "stopped"
    /\ Pool!Restart
    /\ pc' = [g \in Goroutine |-> "idle"]
    /\ timers' = {}
    /\ upload' = [f \in File |->
                    IF upload[f] \in {"saved", "created"} THEN "failed" ELSE upload[f]]
    /\ delete' = [f \in File |-> "none"]
    /\ UNCHANGED storeVars

Crash ==
    /\ "crash" \in Fault
    /\ Alive
    /\ ProcessEnds

\* A new process does not read the files table: nothing is enqueued again.
Boot ==
    /\ stage = "stopped"
    /\ stage' = "serving"
    /\ UNCHANGED <<procVars, poolVars, reqVars>>

\* The signal handler: Close, cancel, Pool.Wait, HTTP shutdown, exit.
Signalled ==
    /\ "sigterm" \in Fault
    /\ stage = "serving"
    /\ Pool!Close
    /\ UNCHANGED <<procVars, reqVars, stage>>

CancelContext ==
    /\ closed
    /\ Pool!Cancel
    /\ UNCHANGED <<procVars, reqVars, stage>>

PoolWaited ==
    /\ stage = "serving"
    /\ cancelled
    /\ Pool!Drained
    /\ stage' = "drained"
    /\ UNCHANGED <<procVars, poolVars, reqVars>>

\* ShutdownWithTimeout waits at most 15 s for the requests in flight, so the
\* process may end before they do; nobody waits for the goroutines.
ShutDown ==
    /\ stage = "drained"
    /\ ProcessEnds

-----------------------------------------------------------------------------
(* The retry timers. *)

\* Slip: a ticker in the place of a timer.
TimerRequeuesAgain(j) ==
    /\ j \in timers
    /\ Pool!Enqueue(j)
    /\ UNCHANGED <<timers, storeVars, pc, reqVars, stage>>

TimerRequeues(j) ==
    /\ j \in timers
    /\ Pool!Enqueue(j)
    /\ timers' = timers \ {j}
    /\ UNCHANGED <<storeVars, pc, reqVars, stage>>

\* Slip: the failed send is only logged.
TimerDropsJob(j) ==
    /\ j \in timers
    /\ Pool!QueueFull
    /\ timers' = timers \ {j}
    /\ UNCHANGED <<storeVars, pc, poolVars, reqVars, stage>>

\* Slip: the timer is armed again although the job has been buried.
TimerBuriesAndRearms(j) ==
    /\ j \in timers
    /\ Pool!QueueFull
    /\ Buried(j.file, j.retry)
    /\ UNCHANGED <<timers, row, tmp, object, events, mailed, pc, poolVars, reqVars, stage>>

\* The queue is full: a dead letter, and nothing else, ends the job.
TimerFindsFull(j) ==
    /\ j \in timers
    /\ Pool!QueueFull
    /\ Buried(j.file, j.retry)
    /\ timers' = timers \ {j}
    /\ UNCHANGED <<row, tmp, object, events, mailed, pc, poolVars, reqVars, stage>>

\* Enqueue on the closed channel panics in the timer's goroutine, where
\* nothing recovers: the process dies.
TimerPanics(j) ==
    /\ j \in timers
    /\ closed
    /\ ProcessEnds

TimerFires(j) == TimerRequeues(j) \/ TimerFindsFull(j) \/ TimerPanics(j)

-----------------------------------------------------------------------------
Next ==
    \/ \E f \in File :
          \/ SaveUpload(f)
          \/ CreateRow(f)
          \/ EnqueueUpload(f)
          \/ DeleteReads(f)
          \/ DeleteObject(f)
          \/ DeleteRow(f)
    \/ \E d \in Dispatcher :
          \/ Receive(d)
          \/ \E g \in Goroutine : Spawn(d, g)
          \/ Leave(d)
    \/ \E g \in Goroutine : GoroutineWorks(g) \/ Finish(g)
    \/ \E j \in Job : TimerFires(j)
    \/ Signalled
    \/ CancelContext
    \/ PoolWaited
    \/ ShutDown
    \/ Crash
    \/ Boot

Spec == Init /\ [][Next]_vars

\* The Go scheduler runs every runnable goroutine (a handler, a dispatcher, a
\* processing goroutine, the signal handler), timers fire, statements return; a
\* dispatcher parked on the semaphore is served in order. Requests start,
\* processes crash and boot, and signals arrive, or not.
Fairness ==
    /\ \A f \in File :
          /\ WF_vars(CreateRow(f) \/ EnqueueUpload(f))
          /\ WF_vars(DeleteObject(f) \/ DeleteRow(f))
    /\ \A d \in Dispatcher :
          /\ WF_vars(Receive(d))
          /\ WF_vars(Leave(d))
          /\ SF_vars(\E g \in Goroutine : Spawn(d, g))
    /\ \A g \in Goroutine : WF_vars(GoroutineWorks(g) \/ Finish(g))
    /\ \A j \in Job : WF_vars(TimerFires(j))
    /\ WF_vars(CancelContext \/ PoolWaited \/ ShutDown)

LiveSpec == Spec /\ Fairness

-----------------------------------------------------------------------------
(* Properties. *)

TypeOK ==
    /\ ProcTypeOK
    /\ Pool!PoolTypeOK
    /\ upload \in [File -> UploadState]
    /\ delete \in [File -> DeleteState]
    /\ stage \in {"serving", "drained", "stopped"}

\* Goroutine g has not finished with its job. After it has armed the timer it
\* only returns, while the retry may already be on its way.
Working(g) == run[g] # None /\ pc[g] # "exit"

\* Everything that carries a job of file f: the handler that is about to
\* enqueue it, a place in the queue, a dispatcher, a goroutine, a timer.
Carriers(f) ==
    {<<"upload", f>> : x \in {y \in {f} : upload[y] = "created"}}
        \cup {<<"queue", i>> : i \in {i \in DOMAIN queue : queue[i].file = f}}
        \cup {<<"hold", d>> : d \in {d \in Dispatcher : hold[d] # None /\ hold[d].file = f}}
        \cup {<<"run", g>> : g \in {g \in Goroutine : Working(g) /\ run[g].file = f}}
        \cup {<<"timer", j>> : j \in {j \in timers : j.file = f}}

\* A file is never in two places of the pipeline at once, so no two goroutines
\* process one file, whatever fails, is retried or deleted meanwhile. The row
\* lock and the guard of doProcess (processor.go:109-119) only back this up.
SingleCarrier == \A f \in File : \A a, b \in Carriers(f) : a = b

\* A file that is not settled is still on its way, or was refused with 503, or
\* is in the dead letters: every failure of processing is retried or kept
\* (processor.go:32-33).
FailureIsRetriedOrKept ==
    \A f \in File :
        row[f].status \in {"pending", "processing"} =>
            Carriers(f) # {} \/ upload[f] = "busy" \/ dead[f] # <<>>

\* Until a file is settled its content is on disk or in the object store: the
\* temporary file goes only after the upload of step 4 (processor.go:171-176).
ContentKept ==
    \A f \in File :
        row[f].status \in {"pending", "processing"} => f \in tmp \cup object

\* A file that is done can be downloaded: its object is there, unless a delete
\* request has got as far as removing it.
DoneHasObject ==
    \A f \in File :
        row[f].status = "done" => f \in object \/ delete[f] = "row"

\* A file's outcome is announced at most once and buried at most once, over
\* all its attempts.
OutcomeToldOnce ==
    \A f \in File : Len(events[f]) <= 1 /\ Len(dead[f]) <= 1

\* What the event says is what the row says from then on, and a mail is started
\* for a file that is done only (processor.go:78-79, 179-187).
OutcomeIsTrue ==
    \A f \in File :
        /\ \A i \in DOMAIN events[f] : row[f].status \in {events[f][i], "deleted"}
        /\ f \in mailed => row[f].status \in {"done", "deleted"}

Waiting == {queue[i] : i \in DOMAIN queue} \cup timers
               \cup {hold[d] : d \in {d \in Dispatcher : hold[d] # None}}

\* The retry count in the row is the one in the job that waits for its next
\* attempt: the two are incremented apart (processor.go:73, 86).
RetryColumnAgrees ==
    \A j \in Waiting : Exists(j.file) => row[j.file].retries = j.retry

\* The service keeps the promise of FileStatus: a settled file stays settled
\* until it is deleted, and a deleted file stays deleted.
Lifecycle == INSTANCE FileStatus WITH status <- [f \in File |-> row[f].status]
ImplementsFileStatus == Lifecycle!Spec

\* A file in the pipeline gets an outcome its owner can see, or is deleted,
\* refused or buried, unless the process is told to stop.
CarriedIsResolved ==
    \A f \in File :
        Carriers(f) # {} ~> \/ row[f].status \in {"done", "error", "deleted"}
                            \/ upload[f] = "busy" \/ dead[f] # <<>>
                            \/ closed

\* Every job leaves the pipeline: no retry goes on for ever, and no goroutine
\* or dispatcher keeps a job.
PipelineDrains == \A f \in File : Carriers(f) # {} ~> Carriers(f) = {}

\* After the signal the process ends (wire.go:134-147).
SignalEnds == closed ~> stage = "stopped"

-----------------------------------------------------------------------------
(* What the documents say and the code does not do. *)

\* After Close no more jobs are enqueued (job_queue.go:37): nobody is left who
\* is going to send.
CloseIsLast ==
    closed => timers = {} /\ \A f \in File : upload[f] # "created"

\* Deleting a file deletes its object too (README.md:148), once nothing of the
\* file is left in the pipeline.
DeleteRemovesObject ==
    \A f \in File : row[f].status = "deleted" /\ Carriers(f) = {} => f \notin object
=============================================================================
