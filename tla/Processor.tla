------------------------------ MODULE Processor ------------------------------
(***************************************************************************)
(* What one processing goroutine does with a job (internal/worker/          *)
(* processor.go, deadletter.go), statement by statement, over the stores it *)
(* writes: the files table, the upload's temporary file, the object store,  *)
(* the dead_letter_jobs table, the events handed to the WebSocket hub, the  *)
(* mails started and the retry timers.                                      *)
(*                                                                          *)
(* Every call that can fail does so when its fault is in Fault.  A database *)
(* statement is one atomic step: the transaction of steps 1-2 holds the row *)
(* lock from its SELECT ... FOR UPDATE to its end, so nobody sees between.  *)
(***************************************************************************)
EXTENDS Naturals, Sequences, FiniteSets

CONSTANTS File,        \* file ids; one upload each
          Goroutine,   \* identities of the processing goroutines
          MaxRetries,  \* maxRetries (processor.go:21)
          Fault        \* the faults that may happen in this instance

\* "db":      a database statement fails and has no effect
\* "reply":   a database statement takes effect and its reply is lost
\* "store":   the object store refuses, or stores and its reply is lost
\* "disk":    the upload directory cannot be written
\* "process": ProcessPDF, ProcessImage or MkdirAll returns an error
\* "panic":   the PDF interpreter panics on the file's content
\* "crash":   the process is killed
\* "sigterm": the process is asked to stop
FaultKind == {"db", "reply", "store", "disk", "process", "panic", "crash", "sigterm"}

ASSUME ProcessorAssumption ==
    /\ MaxRetries \in Nat \ {0}
    /\ Fault \subseteq FaultKind

\* domain.Job, reduced to what control depends on. TmpPath is the file's own.
Job == [file : File, retry : 0..(MaxRetries - 1)]

VARIABLES row,     \* the files table
          tmp,     \* the files whose TmpPath exists on disk
          object,  \* the files whose storage key exists in the object store
          dead,    \* dead[f]: the RetryCount of each dead_letter_jobs row of f
          events,  \* events[f]: the outcomes handed to Hub.Send for f, in order
          mailed,  \* the files for which a mail was started
          timers,  \* the jobs that wait for their backoff (time.AfterFunc)
          pc       \* pc[g]: the next statement of goroutine g

storeVars == <<row, tmp, object, dead, events, mailed>>
procVars == <<row, tmp, object, dead, events, mailed, timers, pc>>

Status == {"absent", "pending", "processing", "done", "error", "deleted"}

Row == [status : Status, path : BOOLEAN, retries : Nat]

Label == {"idle", "begin", "process", "put", "clean", "update", "event", "mail",
          "bury", "uperr", "nerr", "count", "after", "exit"}

Exists(f) == row[f].status \notin {"absent", "deleted"}
Settled(f) == row[f].status \in {"done", "error"}

ProcInit ==
    /\ row = [f \in File |-> [status |-> "absent", path |-> FALSE, retries |-> 0]]
    /\ tmp = {}
    /\ object = {}
    /\ dead = [f \in File |-> <<>>]
    /\ events = [f \in File |-> <<>>]
    /\ mailed = {}
    /\ timers = {}
    /\ pc = [g \in Goroutine |-> "idle"]

-----------------------------------------------------------------------------
Goto(g, l) == pc' = [pc EXCEPT ![g] = l]

\* Slip: allow one attempt more than maxRetries.
FailsOnceMore(g, j) == Goto(g, IF j.retry + 1 > MaxRetries THEN "bury" ELSE "count")

\* doProcess returned an error: Process counts it (processor.go:73-75).
Fails(g, j) == Goto(g, IF j.retry + 1 >= MaxRetries THEN "bury" ELSE "count")

\* UPDATE files SET status = s WHERE id = f; no row, no error.
WithStatus(f, s) ==
    IF Exists(f) THEN [row EXCEPT ![f].status = s] ELSE row

\* Slip: a save that inserts the row when it is not there.
DoneRowUpserts(f) == [row EXCEPT ![f].status = "done", ![f].path = TRUE]

\* repo.UpdateDone, repo.UpdateError, repo.IncrementRetry.
DoneRow(f) ==
    IF Exists(f) THEN [row EXCEPT ![f].status = "done", ![f].path = TRUE] ELSE row

ErrorRow(f) == WithStatus(f, "error")

CountedRow(f) ==
    IF Exists(f) THEN [row EXCEPT ![f].retries = @ + 1] ELSE row

\* A statement whose error the code ignores: applied, or failed.
Attempt(new) == row' = new \/ ("db" \in Fault /\ row' = row)

-----------------------------------------------------------------------------
\* Slip: skip every file some worker has taken up, a retry's included.
BeginSkipsTaken(g, j) ==
    /\ pc[g] = "begin"
    /\ \/ /\ Exists(j.file) /\ row[j.file].status # "pending"
          /\ Goto(g, "exit")
          /\ row' = row
       \/ /\ Exists(j.file) /\ row[j.file].status = "pending"
          /\ row' = WithStatus(j.file, "processing")
          /\ Goto(g, "process")
       \/ /\ ~Exists(j.file) \/ "db" \in Fault
          /\ Fails(g, j)
          /\ row' = row
    /\ UNCHANGED <<tmp, object, dead, events, mailed, timers>>

\* Steps 1 and 2: lock the row, skip a settled file, mark it processing.
Begin(g, j) ==
    /\ pc[g] = "begin"
    /\ \/ /\ Settled(j.file)
          /\ Goto(g, "exit")
          /\ row' = row
       \/ /\ Exists(j.file) /\ ~Settled(j.file)
          /\ row' = WithStatus(j.file, "processing")
          /\ Goto(g, "process") \/ ("reply" \in Fault /\ Fails(g, j))
       \/ /\ ~Exists(j.file) \/ "db" \in Fault
          /\ Fails(g, j)
          /\ row' = row
    /\ UNCHANGED <<tmp, object, dead, events, mailed, timers>>

\* Slip: clean up the temporary file as soon as it has been processed.
ProcessFileRemovesTmp(g, j) ==
    /\ pc[g] = "process"
    /\ \/ j.file \in tmp /\ tmp' = tmp \ {j.file} /\ Goto(g, "put")
       \/ (j.file \notin tmp \/ "process" \in Fault) /\ tmp' = tmp /\ Fails(g, j)
    /\ UNCHANGED <<row, object, dead, events, mailed, timers>>

\* Step 3. A panic unwinds doProcess; its deferred function recovers it and
\* doProcess returns the zero value of its result, no error (lines 103-107).
ProcessFile(g, j) ==
    /\ pc[g] = "process"
    /\ \/ j.file \in tmp /\ Goto(g, "put")
       \/ (j.file \notin tmp \/ "process" \in Fault) /\ Fails(g, j)
       \/ j.file \in tmp /\ "panic" \in Fault /\ Goto(g, "exit")
    /\ UNCHANGED <<row, tmp, object, dead, events, mailed, timers>>

\* Slip: the error of the upload is dropped.
PutFileDropsError(g, j) ==
    /\ pc[g] = "put"
    /\ \/ object' = object \cup {j.file}
       \/ "store" \in Fault /\ object' = object
    /\ Goto(g, "clean")
    /\ UNCHANGED <<row, tmp, dead, events, mailed, timers>>

\* Step 4: upload under the file's own key.
PutFile(g, j) ==
    /\ pc[g] = "put"
    /\ \/ object' = object \cup {j.file} /\ Goto(g, "clean")
       \/ /\ "store" \in Fault
          /\ object' \in {object, object \cup {j.file}}
          /\ Fails(g, j)
    /\ UNCHANGED <<row, tmp, dead, events, mailed, timers>>

RemoveTmp(g, j) ==
    /\ pc[g] = "clean"
    /\ tmp' = tmp \ {j.file}
    /\ Goto(g, "update")
    /\ UNCHANGED <<row, object, dead, events, mailed, timers>>

\* Step 5. The UPDATE does not look at the status it overwrites.
UpdateDone(g, j) ==
    /\ pc[g] = "update"
    /\ \/ /\ row' = DoneRow(j.file)
          /\ Goto(g, "event") \/ ("reply" \in Fault /\ Fails(g, j))
       \/ "db" \in Fault /\ row' = row /\ Fails(g, j)
    /\ UNCHANGED <<tmp, object, dead, events, mailed, timers>>

\* Step 6. What the hub does with the event is not the processor's concern.
NotifyDone(g, j) ==
    /\ pc[g] = "event"
    /\ events' = [events EXCEPT ![j.file] = Append(@, "done")]
    /\ Goto(g, "mail")
    /\ UNCHANGED <<row, tmp, object, dead, mailed, timers>>

\* Step 7: fire and forget.
SendMail(g, j) ==
    /\ pc[g] = "mail"
    /\ mailed' = mailed \cup {j.file}
    /\ Goto(g, "exit")
    /\ UNCHANGED <<row, tmp, object, dead, events, timers>>

-----------------------------------------------------------------------------
\* The last failure: dead letter, status error, error event (lines 75-81).
\* DeadLetter.Save logs its own error and carries on.
Buried(f, n) ==
    \/ dead' = [dead EXCEPT ![f] = Append(@, n)]
    \/ "db" \in Fault /\ dead' = dead

\* Slip: the error event goes out and the row is left as it was.
BurySkipsRow(g, j) ==
    /\ pc[g] = "bury"
    /\ Buried(j.file, j.retry + 1)
    /\ Goto(g, "nerr")
    /\ UNCHANGED <<row, tmp, object, events, mailed, timers>>

Bury(g, j) ==
    /\ pc[g] = "bury"
    /\ Buried(j.file, j.retry + 1)
    /\ Goto(g, "uperr")
    /\ UNCHANGED <<row, tmp, object, events, mailed, timers>>

UpdateError(g, j) ==
    /\ pc[g] = "uperr"
    /\ Attempt(ErrorRow(j.file))
    /\ Goto(g, "nerr")
    /\ UNCHANGED <<tmp, object, dead, events, mailed, timers>>

NotifyError(g, j) ==
    /\ pc[g] = "nerr"
    /\ events' = [events EXCEPT ![j.file] = Append(@, "error")]
    /\ Goto(g, "exit")
    /\ UNCHANGED <<row, tmp, object, dead, mailed, timers>>

\* An earlier failure: count it in the row, arm the backoff timer (83-93).
CountRetry(g, j) ==
    /\ pc[g] = "count"
    /\ Attempt(CountedRow(j.file))
    /\ Goto(g, "after")
    /\ UNCHANGED <<tmp, object, dead, events, mailed, timers>>

\* Slip: RetryCount is incremented on another copy of the job.
RetriedUncounted(j) == j

Retried(j) == [j EXCEPT !.retry = @ + 1]

ScheduleRetry(g, j) ==
    /\ pc[g] = "after"
    /\ timers' = timers \cup {Retried(j)}
    /\ Goto(g, "exit")
    /\ UNCHANGED storeVars

\* One statement of goroutine g on its job j.
Work(g, j) ==
    \/ Begin(g, j)
    \/ ProcessFile(g, j)
    \/ PutFile(g, j)
    \/ RemoveTmp(g, j)
    \/ UpdateDone(g, j)
    \/ NotifyDone(g, j)
    \/ SendMail(g, j)
    \/ Bury(g, j)
    \/ UpdateError(g, j)
    \/ NotifyError(g, j)
    \/ CountRetry(g, j)
    \/ ScheduleRetry(g, j)

-----------------------------------------------------------------------------
ProcTypeOK ==
    /\ row \in [File -> Row]
    /\ tmp \subseteq File
    /\ object \subseteq File
    /\ dead \in [File -> Seq(1..MaxRetries)]
    /\ events \in [File -> Seq({"done", "error"})]
    /\ mailed \subseteq File
    /\ timers \subseteq Job
    /\ pc \in [Goroutine -> Label]
=============================================================================
