---------------------------- MODULE FileLife_proofs ----------------------------
(***************************************************************************)
(* What becomes of a file in UploadService, for every set of files and      *)
(* goroutines, every number of workers, queue size and maxRetries: its row, *)
(* its content and its events; then its retries, counted and answered.  Each *)
(* theorem names the faults its property does not survive.                  *)
(***************************************************************************)
EXTENDS UploadService_proofs

-----------------------------------------------------------------------------
(* The story of a file: what its place in the pipeline says of its row, its *)
(* content, its dead letters and its events. Custody gives every file one   *)
(* place, so a statement of a goroutine has only that place to account for. *)

\* A goroutine is about to execute the statement l for file f.
At(f, l) == \E g \in Busy : run[g].file = f /\ pc[g] = l

\* The places where the current attempt has not begun or has failed.
Idling == {"begin", "count", "after", "bury"}

\* The places of an attempt under way or of an outcome being made known.
Site == {"process", "put", "clean", "update", "event", "mail", "uperr", "nerr"}

\* File f waits for an attempt, or for the consequence of a failed one.
Waits(f) ==
    \/ upload[f] = "created"
    \/ \E i \in Queued : queue[i].file = f
    \/ \E d \in Holding : hold[d].file = f
    \/ \E j \in timers : j.file = f
    \/ \E l \in Idling : At(f, l)

Open(f) == row[f].status \in {"pending", "processing", "deleted"}
Silent(f) == events[f] = <<>> /\ dead[f] = <<>>
Finished(f) == row[f].status \in {"done", "deleted"}
GivenUp(f) == row[f].status \in {"error", "deleted"}

\* Before the row is written nothing is known of the file.
Unrecorded(f) ==
    /\ upload[f] \in {"none", "saved"} =>
          row[f].status = "absent" /\ ~row[f].path /\ Silent(f)
    /\ upload[f] = "saved" => f \in tmp

\* What holds of a file at each place of the pipeline.
Placed(f) ==
    /\ Waits(f) => Open(f) /\ Silent(f)
    /\ \A l \in {"process", "put", "clean", "update"} :
          At(f, l) => row[f].status \in {"processing", "deleted"} /\ Silent(f)
    /\ \A l \in {"clean", "update"} :
          At(f, l) => row[f].status = "deleted" \/ f \in object
    /\ At(f, "uperr") => Open(f) /\ events[f] = <<>>
    /\ At(f, "nerr") => events[f] = <<>>
    /\ At(f, "event") => Finished(f) /\ events[f] = <<>>
    /\ At(f, "mail") => Finished(f)

\* What holds of a file wherever it is.
Recorded(f) ==
    /\ row[f].path => Finished(f)
    /\ delete[f] = "object" => row[f].path
    /\ row[f].status \in {"pending", "processing"} => f \in tmp \cup object
    /\ f \in mailed => Finished(f)
    /\ events[f] \in {<<>>, <<"done">>, <<"error">>}
    /\ events[f] = <<"done">> => Finished(f)
    /\ Len(dead[f]) <= 1

\* With a database that answers, an announced failure is in the row.
Honest(f) ==
    "db" \notin Fault =>
        /\ At(f, "nerr") => GivenUp(f)
        /\ events[f] = <<"error">> => GivenUp(f)

Story(f) == Unrecorded(f) /\ Placed(f) /\ Recorded(f) /\ Honest(f)

LifeInv == StoreTypes /\ Custody /\ \A f \in File : Story(f)

-----------------------------------------------------------------------------
(* Steps that leave a file's data alone and only drop its carriers. *)

SameData(f) ==
    /\ row'[f] = row[f]
    /\ f \in tmp' <=> f \in tmp
    /\ f \in object' <=> f \in object
    /\ dead'[f] = dead[f]
    /\ events'[f] = events[f]
    /\ f \in mailed' <=> f \in mailed

\* No place of the pipeline is reached that was not held before.
NoNewPlace(f) ==
    /\ Waits(f)' => Waits(f)
    /\ \A l \in Site : At(f, l)' => At(f, l)

Passive(f) ==
    /\ SameData(f)
    /\ NoNewPlace(f)
    /\ upload'[f] \in {"none", "saved"} => upload'[f] = upload[f]
    /\ delete'[f] = "object" => delete[f] = "object"

LEMMA PassiveKeepsStory ==
    ASSUME NEW f \in File, Story(f), Passive(f) PROVE Story(f)'
<1>1. Unrecorded(f)'
  BY DEF Story, Unrecorded, Passive, SameData, Silent
<1>2. Placed(f)'
  BY DEF Story, Placed, Passive, SameData, NoNewPlace, Site, Open, Silent, Finished
<1>3. Recorded(f)'
  BY DEF Story, Recorded, Passive, SameData, Finished
<1>4. Honest(f)'
  BY DEF Story, Honest, Passive, SameData, NoNewPlace, Site, GivenUp
<1> QED BY <1>1, <1>2, <1>3, <1>4 DEF Story

\* Fewer carriers, no new place.
LEMMA ShrinkingPlaces ==
    ASSUME Custody, Shrinks, NEW f \in File,
           upload'[f] = "created" => upload[f] = "created",
           \A g \in Busy' : pc'[g] = pc[g]
    PROVE  NoNewPlace(f)
<1>1. /\ Queued' = Queued
      /\ \A d \in Holding' : d \in Holding /\ hold'[d] = hold[d]
      /\ \A g \in Busy' : g \in Busy /\ run'[g] = run[g]
  BY DEF Shrinks, Queued, Holding, Busy
<1>2. \A l : At(f, l)' => At(f, l)
  BY <1>1 DEF At
<1>3. Waits(f)' => Waits(f)
  BY <1>1, <1>2 DEF Waits, Shrinks
<1> QED BY <1>2, <1>3 DEF NoNewPlace

\* A file that a goroutine works on has no other carrier.
LEMMA OnlyWorker ==
    ASSUME Custody, NEW g \in Busy
    PROVE  /\ g \in Goroutine /\ run[g] \in Job /\ run[g].file \in File
           /\ upload[run[g].file] = "accepted"
           /\ \A i \in Queued : queue[i].file # run[g].file
           /\ \A d \in Holding : hold[d].file # run[g].file
           /\ \A j \in timers : j.file # run[g].file
           /\ \A h \in Busy : run[h].file = run[g].file => h = g
BY DEF Custody, CarrierTypes, Accepted, Disjoint, Injective, Busy, Working, Job

\* A file whose upload is not accepted is in no place of the pipeline proper.
LEMMA NowhereYet ==
    ASSUME Custody, NEW f \in File, upload[f] # "accepted"
    PROVE  /\ \A l : ~At(f, l)
           /\ Waits(f) => upload[f] = "created"
<1>1. \A l : ~At(f, l)
  BY DEF Custody, Accepted, At
<1> QED BY <1>1 DEF Custody, Accepted, Waits

\* What the statements on the files table do to it. No other row moves.
RowStep(f, s, p) ==
    /\ \A x \in File \ {f} : row'[x] = row[x]
    /\ row'[f].status = s
    /\ row'[f].path = p

LEMMA RowSteps ==
    ASSUME row \in [File -> Row], NEW f \in File
    PROVE  /\ row' = row => RowStep(f, row[f].status, row[f].path)
           /\ row' = [row EXCEPT ![f].status = "pending"]
                 => RowStep(f, "pending", row[f].path)
           /\ \A s : row' = WithStatus(f, s)
                 => RowStep(f, IF Exists(f) THEN s ELSE row[f].status, row[f].path)
           /\ row' = ErrorRow(f)
                 => RowStep(f, IF Exists(f) THEN "error" ELSE row[f].status, row[f].path)
           /\ row' = CountedRow(f) => RowStep(f, row[f].status, row[f].path)
           /\ row' = DoneRow(f)
                 => RowStep(f, IF Exists(f) THEN "done" ELSE row[f].status,
                               IF Exists(f) THEN TRUE ELSE row[f].path)
<1>1. row[f] \in Row
  OBVIOUS
<1>2. \A s : row' = [row EXCEPT ![f].status = s] => RowStep(f, s, row[f].path)
  BY <1>1 DEF Row, RowStep
<1>3. row' = [row EXCEPT ![f].retries = @ + 1] => RowStep(f, row[f].status, row[f].path)
  BY <1>1 DEF Row, RowStep
<1>4. row' = [row EXCEPT ![f].status = "done", ![f].path = TRUE] => RowStep(f, "done", TRUE)
  BY <1>1 DEF Row, RowStep
<1>5. row' = row => RowStep(f, row[f].status, row[f].path)
  BY DEF RowStep
<1> QED
  BY <1>2, <1>3, <1>4, <1>5 DEF WithStatus, ErrorRow, CountedRow, DoneRow

-----------------------------------------------------------------------------
(* The statements of a goroutine. *)

\* A statement takes its goroutine from one place to the next, and nobody else
\* anywhere.
LEMMA WorkerMoves ==
    ASSUME Custody, NEW g \in Busy, Work(g, run[g]),
           UNCHANGED <<poolVars, reqVars, stage>>
    PROVE  /\ pc[g] \in Label \ {"idle", "exit"}
           /\ pc'[g] \in Label
           /\ \A h \in Goroutine \ {g} : pc'[h] = pc[h]
           /\ timers' \subseteq timers \cup {Retried(run[g])}
           /\ pc[g] # "after" => timers' = timers
<1>1. /\ run[g] # None /\ g \in Goroutine
      /\ pc \in [Goroutine -> Label]
  BY DEF Busy, Working, Custody, CarrierTypes
<1>2. pc[g] \in Label \ {"idle", "exit"}
  BY DEF Work, Begin, ProcessFile, PutFile, RemoveTmp, UpdateDone, NotifyDone, SendMail,
         Bury, UpdateError, NotifyError, CountRetry, ScheduleRetry, Label
<1>3. PICK l \in Label : pc' = [pc EXCEPT ![g] = l]
  BY DEF Work, Begin, ProcessFile, PutFile, RemoveTmp, UpdateDone, NotifyDone, SendMail,
         Bury, UpdateError, NotifyError, CountRetry, ScheduleRetry, Goto, Fails, Label
<1>4. /\ timers' \subseteq timers \cup {Retried(run[g])}
      /\ pc[g] # "after" => timers' = timers
  BY DEF Work, Begin, ProcessFile, PutFile, RemoveTmp, UpdateDone, NotifyDone, SendMail,
         Bury, UpdateError, NotifyError, CountRetry, ScheduleRetry
<1> QED BY <1>1, <1>2, <1>3, <1>4

\* Three facts about sequences of one outcome.
LEMMA Outcomes ==
    /\ \A e : Append(<<>>, e) = <<e>> /\ Len(<<e>>) = 1 /\ <<e>> # <<>> /\ <<e>>[1] = e
    /\ <<"done">> # <<"error">>
    /\ Len(<<>>) = 0
<1>1. \A e : Append(<<>>, e) = <<e>> /\ Len(<<e>>) = 1 /\ <<e>>[1] = e
  OBVIOUS
<1>2. \A e : <<e>> # <<>>
  <2>1. Len(<<>>) = 0
    OBVIOUS
  <2> QED BY <1>1, <2>1
<1>3. <<"done">> # <<"error">>
  BY <1>1, "done" # "error"
<1> QED BY <1>1, <1>2, <1>3

LEMMA WorkerPlaces ==
    ASSUME Custody, NEW g \in Busy, Work(g, run[g]),
           UNCHANGED <<poolVars, reqVars, stage>>, NEW f \in File, run[g].file = f
    PROVE  /\ \A l \in Site : At(f, l)' => l = pc'[g]
           /\ Waits(f)' => pc'[g] \in Idling \/ pc[g] = "after"
           /\ \A x \in File \ {f} : NoNewPlace(x)
<1>1. /\ g \in Goroutine /\ run[g] \in Job 
      /\ upload[f] = "accepted"
      /\ \A i \in Queued : queue[i].file # f
      /\ \A d \in Holding : hold[d].file # f
      /\ \A j \in timers : j.file # f
      /\ \A h \in Busy : run[h].file = f => h = g
  BY OnlyWorker
<1>2. /\ pc[g] \in Label \ {"idle", "exit"}
      /\ \A h \in Goroutine \ {g} : pc'[h] = pc[h]
      /\ timers' \subseteq timers \cup {Retried(run[g])}
      /\ pc[g] # "after" => timers' = timers
  BY WorkerMoves
<1>3. /\ UNCHANGED <<queue, hold, run, upload>>
      /\ Queued' = Queued /\ Holding' = Holding
  BY DEF poolVars, reqVars, Queued, Holding
<1>4. \A h \in Busy' : h \in Goroutine /\ h \in Busy
  BY <1>2, <1>3 DEF Busy, Working
<1>5. \A l : At(f, l)' => l = pc'[g]
  BY <1>1, <1>3, <1>4 DEF At
<1>6. Waits(f)' => pc'[g] \in Idling \/ pc[g] = "after"
  <2>1. pc[g] # "after" => \A j \in timers' : j.file # f
    BY <1>1, <1>2
  <2> QED BY <1>1, <1>3, <1>5, <2>1 DEF Waits
<1>7. ASSUME NEW x \in File, x # f PROVE NoNewPlace(x)
  <2>1. \A l : At(x, l)' => At(x, l)
    BY <1>2, <1>3, <1>4, <1>7 DEF At
  <2>2. Retried(run[g]).file = f
    BY <1>1 DEF Retried, Job
  <2>3. (\E j \in timers' : j.file = x) => \E j \in timers : j.file = x
    BY <1>2, <1>7, <2>2
  <2>4. Waits(x)' => Waits(x)
    BY <1>3, <2>1, <2>3 DEF Waits
  <2> QED BY <2>1, <2>4 DEF NoNewPlace
<1> QED BY <1>5, <1>6, <1>7 DEF Site

\* A statement works on the data of its own file.
LEMMA WorkerLeavesOthers ==
    ASSUME StoreTypes, Custody, NEW g \in Busy, Work(g, run[g]),
           UNCHANGED <<poolVars, reqVars, stage>>, NEW f \in File, run[g].file = f
    PROVE  \A x \in File \ {f} : Passive(x)
<1> SUFFICES ASSUME NEW x \in File, x # f PROVE Passive(x)
  OBVIOUS
<1>2. NoNewPlace(x)
  BY WorkerPlaces
<1>3. row'[x] = row[x]
  <2>1. \/ row' = row \/ row' = WithStatus(f, "processing") \/ row' = DoneRow(f)
        \/ row' = ErrorRow(f) \/ row' = CountedRow(f)
    BY DEF Work, Begin, ProcessFile, PutFile, RemoveTmp, UpdateDone, NotifyDone, SendMail,
           Bury, UpdateError, NotifyError, CountRetry, ScheduleRetry, Attempt, storeVars
  <2> QED BY <2>1, RowSteps DEF StoreTypes, RowStep
<1>4. /\ x \in tmp' <=> x \in tmp
      /\ x \in object' <=> x \in object
      /\ x \in mailed' <=> x \in mailed
  BY DEF Work, Begin, ProcessFile, PutFile, RemoveTmp, UpdateDone, NotifyDone, SendMail,
         Bury, UpdateError, NotifyError, CountRetry, ScheduleRetry, storeVars
<1>5. dead'[x] = dead[x] /\ events'[x] = events[x]
  BY DEF StoreTypes, Work, Begin, ProcessFile, PutFile, RemoveTmp, UpdateDone, NotifyDone,
         SendMail, Bury, Buried, UpdateError, NotifyError, CountRetry, ScheduleRetry, storeVars
<1> QED BY <1>2, <1>3, <1>4, <1>5 DEF Passive, SameData, reqVars

\* A statement keeps the story of its own file, as long as no reply is lost.
LEMMA WorkerKeepsOwn ==
    ASSUME "reply" \notin Fault, StoreTypes, Custody, NEW g \in Busy, Work(g, run[g]),
           UNCHANGED <<poolVars, reqVars, stage>>,
           NEW f \in File, run[g].file = f, Story(f)
    PROVE  Story(f)'
<1>1. /\ g \in Goroutine /\ upload'[f] = "accepted"
      /\ pc \in [Goroutine -> Label]
      /\ dead \in [File -> Seq(1..MaxRetries)]
      /\ events \in [File -> Seq({"done", "error"})]
      /\ row \in [File -> Row]
      /\ delete' = delete
  BY OnlyWorker DEF reqVars, Custody, CarrierTypes, StoreTypes
<1>2. /\ At(f, pc[g])
      /\ pc[g] \in Idling => Waits(f)
  BY DEF At, Waits
<1>3. /\ \A l \in Site : At(f, l)' => l = pc'[g]
      /\ Waits(f)' => pc'[g] \in Idling \/ pc[g] = "after"
  BY WorkerPlaces
<1>4. Unrecorded(f)'
  BY <1>1 DEF Unrecorded
<1>5. Placed(f) /\ Recorded(f) /\ Honest(f)
  BY DEF Story
<1> SUFFICES Placed(f)' /\ Recorded(f)' /\ Honest(f)'
  BY <1>4 DEF Story
<1> USE DEF Site, Idling
<1>6. CASE Begin(g, run[g])
  <2>1. Open(f) /\ Silent(f)
    BY <1>2, <1>5, <1>6 DEF Begin, Placed
  <2>2. /\ row'[f].path = row[f].path
        /\ \/ row'[f].status = row[f].status /\ pc'[g] \in {"bury", "count"}
           \/ row'[f].status = "processing" /\ pc'[g] = "process"
                /\ row[f].status \in {"pending", "processing"}
    <3>1. \/ row' = row /\ pc'[g] \in {"bury", "count"}
          \/ row' = WithStatus(f, "processing") /\ pc'[g] = "process" /\ Exists(f)
      BY <1>1, <1>6, <2>1 DEF Begin, Settled, Open, Goto, Fails
    <3> QED BY <1>1, <2>1, <3>1, RowSteps DEF RowStep, Open, Exists
  <2>3. UNCHANGED <<tmp, object, dead, events, mailed>>
    BY <1>6 DEF Begin
  <2>4. Placed(f)'
    BY <1>3, <2>1, <2>2, <2>3 DEF Placed, Open, Silent
  <2>5. Recorded(f)'
    BY <1>1, <1>5, <2>1, <2>2, <2>3 DEF Recorded, Silent, Open, Finished
  <2>6. Honest(f)'
    BY <1>3, <2>1, <2>2, <2>3, Outcomes DEF Honest, Silent
  <2> QED BY <2>4, <2>5, <2>6
<1>7. CASE ProcessFile(g, run[g])
  <2>1. /\ UNCHANGED <<row, tmp, object, dead, events, mailed>>
        /\ pc[g] = "process" /\ pc'[g] \in {"put", "exit", "bury", "count"}
    BY <1>1, <1>7 DEF ProcessFile, Goto, Fails
  <2>2. row[f].status \in {"processing", "deleted"} /\ Silent(f)
    BY <1>2, <1>5, <2>1 DEF Placed
  <2>3. Placed(f)'
    BY <1>3, <2>1, <2>2 DEF Placed, Open, Silent
  <2>4. Recorded(f)'
    BY <1>1, <1>5, <2>1 DEF Recorded, Finished
  <2>5. Honest(f)'
    BY <1>3, <2>1, <2>2 DEF Honest, Silent
  <2> QED BY <2>3, <2>4, <2>5
<1>8. CASE PutFile(g, run[g])
  <2>1. /\ UNCHANGED <<row, tmp, dead, events, mailed>>
        /\ pc[g] = "put" /\ object \subseteq object'
        /\ \/ pc'[g] \in {"bury", "count"}
           \/ pc'[g] = "clean" /\ f \in object'
    BY <1>1, <1>8 DEF PutFile, Goto, Fails
  <2>2. row[f].status \in {"processing", "deleted"} /\ Silent(f)
    BY <1>2, <1>5, <2>1 DEF Placed
  <2>3. Placed(f)'
    BY <1>3, <2>1, <2>2 DEF Placed, Open, Silent
  <2>4. Recorded(f)'
    BY <1>1, <1>5, <2>1 DEF Recorded, Finished
  <2>5. Honest(f)'
    BY <1>3, <2>1, <2>2 DEF Honest, Silent
  <2> QED BY <2>3, <2>4, <2>5
<1>9. CASE RemoveTmp(g, run[g])
  <2>1. /\ UNCHANGED <<row, object, dead, events, mailed>>
        /\ pc[g] = "clean" /\ pc'[g] = "update"
    BY <1>1, <1>9 DEF RemoveTmp, Goto
  <2>2. /\ row[f].status \in {"processing", "deleted"} /\ Silent(f)
        /\ row[f].status = "deleted" \/ f \in object
    BY <1>2, <1>5, <2>1 DEF Placed
  <2>3. Placed(f)'
    BY <1>3, <2>1, <2>2 DEF Placed, Open, Silent
  <2>4. Recorded(f)'
    BY <1>1, <1>5, <2>1, <2>2 DEF Recorded, Finished
  <2>5. Honest(f)'
    BY <1>3, <2>1, <2>2 DEF Honest, Silent
  <2> QED BY <2>3, <2>4, <2>5
<1>10. CASE UpdateDone(g, run[g])
  <2>1. /\ UNCHANGED <<tmp, object, dead, events, mailed>>
        /\ pc[g] = "update"
        /\ \/ row' = row /\ pc'[g] \in {"bury", "count"}
           \/ row' = DoneRow(f) /\ pc'[g] = "event"
    BY <1>1, <1>10 DEF UpdateDone, Goto, Fails
  <2>2. /\ row[f].status \in {"processing", "deleted"} /\ Silent(f)
        /\ row[f].status = "deleted" \/ f \in object
    BY <1>2, <1>5, <2>1 DEF Placed
  <2>3. \/ row' = row /\ pc'[g] \in {"bury", "count"}
        \/ /\ pc'[g] = "event"
           /\ \/ row[f].status = "deleted" /\ row'[f].status = "deleted"
                 /\ row'[f].path = row[f].path
              \/ row'[f].status = "done" /\ row'[f].path /\ f \in object
    <3>1. CASE row' = DoneRow(f) /\ pc'[g] = "event"
      BY <1>1, <2>2, <3>1, RowSteps DEF RowStep, Exists
    <3> QED BY <2>1, <3>1
  <2>4. Placed(f)'
    BY <1>3, <2>1, <2>2, <2>3 DEF Placed, Open, Silent, Finished
  <2>5. Recorded(f)'
    BY <1>1, <1>5, <2>1, <2>2, <2>3 DEF Recorded, Finished, Silent
  <2>6. Honest(f)'
    BY <1>3, <2>1, <2>2, <2>3 DEF Honest, Silent
  <2> QED BY <2>4, <2>5, <2>6
<1>11. CASE NotifyDone(g, run[g])
  <2>1. /\ UNCHANGED <<row, tmp, object, dead, mailed>>
        /\ pc[g] = "event" /\ pc'[g] = "mail"
        /\ events'[f] = Append(events[f], "done")
    BY <1>1, <1>11 DEF NotifyDone, Goto
  <2>2. Finished(f) /\ events'[f] = <<"done">>
    BY <1>2, <1>5, <2>1, Outcomes DEF Placed
  <2>3. Placed(f)'
    BY <1>3, <2>1, <2>2 DEF Placed, Finished
  <2>4. Recorded(f)'
    BY <1>1, <1>5, <2>1, <2>2 DEF Recorded, Finished
  <2>5. Honest(f)'
    BY <1>3, <2>1, <2>2, Outcomes DEF Honest
  <2> QED BY <2>3, <2>4, <2>5
<1>12. CASE SendMail(g, run[g])
  <2>1. /\ UNCHANGED <<row, tmp, object, dead, events>>
        /\ pc[g] = "mail" /\ pc'[g] = "exit"
    BY <1>1, <1>12 DEF SendMail, Goto
  <2>2. Finished(f)
    BY <1>2, <1>5, <2>1 DEF Placed
  <2>3. Placed(f)'
    BY <1>3, <2>1 DEF Placed
  <2>4. Recorded(f)'
    BY <1>1, <1>5, <2>1, <2>2 DEF Recorded, Finished
  <2>5. Honest(f)'
    BY <1>3, <1>5, <2>1 DEF Honest, GivenUp
  <2> QED BY <2>3, <2>4, <2>5
<1>13. CASE Bury(g, run[g])
  <2>1. /\ UNCHANGED <<row, tmp, object, events, mailed>>
        /\ pc[g] = "bury" /\ pc'[g] = "uperr"
        /\ dead'[f] = dead[f] \/ dead'[f] = Append(dead[f], run[g].retry + 1)
    BY <1>1, <1>13 DEF Bury, Buried, Goto
  <2>2. Open(f) /\ Silent(f)
    BY <1>2, <1>5, <2>1 DEF Placed
  <2>3. Len(dead'[f]) <= 1
    <3>1. dead'[f] = <<>> \/ dead'[f] = <<run[g].retry + 1>>
      BY <2>1, <2>2, Outcomes DEF Silent
    <3>2. Len(<<run[g].retry + 1>>) = 1 /\ Len(<<>>) = 0
      BY Outcomes
    <3>3. Len(dead'[f]) = 0 \/ Len(dead'[f]) = 1
      BY <3>1, <3>2, Zenon
    <3>4. \A n : n = 0 \/ n = 1 => n <= 1
      OBVIOUS
    <3> QED BY <3>3, <3>4, Zenon
  <2>4. Placed(f)'
    BY <1>3, <2>1, <2>2 DEF Placed, Open, Silent
  <2>5. Recorded(f)'
    BY <1>1, <1>5, <2>1, <2>3 DEF Recorded, Finished
  <2>6. Honest(f)'
    BY <1>3, <2>1, <2>2 DEF Honest, Silent
  <2> QED BY <2>4, <2>5, <2>6
<1>14. CASE UpdateError(g, run[g])
  <2>1. /\ UNCHANGED <<tmp, object, dead, events, mailed>>
        /\ pc[g] = "uperr" /\ pc'[g] = "nerr"
        /\ row' = ErrorRow(f) \/ ("db" \in Fault /\ row' = row)
    BY <1>1, <1>14 DEF UpdateError, Attempt, Goto
  <2>2. Open(f) /\ events[f] = <<>>
    BY <1>2, <1>5, <2>1 DEF Placed
  <2>3. \/ row' = row /\ "db" \in Fault
        \/ row'[f].path = row[f].path /\
           \/ row'[f].status = "error" /\ row[f].status # "deleted"
           \/ row'[f].status = "deleted" /\ row[f].status = "deleted"
    <3>1. CASE row' = ErrorRow(f)
      BY <1>1, <2>2, <3>1, RowSteps DEF RowStep, Exists, Open
    <3> QED BY <2>1, <3>1
  <2>4. Placed(f)'
    BY <1>3, <2>1, <2>2 DEF Placed
  <2>5. Recorded(f)'
    BY <1>1, <1>5, <2>1, <2>2, <2>3 DEF Recorded, Finished, Open
  <2>6. Honest(f)'
    BY <1>3, <2>1, <2>2, <2>3 DEF Honest, GivenUp
  <2> QED BY <2>4, <2>5, <2>6
<1>15. CASE NotifyError(g, run[g])
  <2>1. /\ UNCHANGED <<row, tmp, object, dead, mailed>>
        /\ pc[g] = "nerr" /\ pc'[g] = "exit"
        /\ events'[f] = Append(events[f], "error")
    BY <1>1, <1>15 DEF NotifyError, Goto
  <2>2. events'[f] = <<"error">>
    BY <1>2, <1>5, <2>1, Outcomes DEF Placed
  <2>3. Placed(f)'
    BY <1>3, <2>1 DEF Placed
  <2>4. Recorded(f)'
    BY <1>1, <1>5, <2>1, <2>2, Outcomes DEF Recorded, Finished
  <2>5. Honest(f)'
    BY <1>2, <1>3, <1>5, <2>1, <2>2 DEF Honest, GivenUp
  <2> QED BY <2>3, <2>4, <2>5
<1>16. CASE CountRetry(g, run[g])
  <2>1. /\ UNCHANGED <<tmp, object, dead, events, mailed>>
        /\ pc[g] = "count" /\ pc'[g] = "after"
        /\ row' = row \/ row' = CountedRow(f)
    BY <1>1, <1>16 DEF CountRetry, Attempt, Goto
  <2>2. Open(f) /\ Silent(f)
    BY <1>2, <1>5, <2>1 DEF Placed
  <2>3. row'[f].path = row[f].path /\ row'[f].status = row[f].status
    BY <1>1, <2>1, RowSteps DEF RowStep
  <2>4. Placed(f)'
    BY <1>3, <2>1, <2>2, <2>3 DEF Placed, Open, Silent
  <2>5. Recorded(f)'
    BY <1>1, <1>5, <2>1, <2>3 DEF Recorded, Finished
  <2>6. Honest(f)'
    BY <1>3, <2>1, <2>2 DEF Honest, Silent
  <2> QED BY <2>4, <2>5, <2>6
<1>17. CASE ScheduleRetry(g, run[g])
  <2>1. /\ UNCHANGED <<row, tmp, object, dead, events, mailed>>
        /\ pc[g] = "after" /\ pc'[g] = "exit"
    BY <1>1, <1>17 DEF ScheduleRetry, storeVars, Goto
  <2>2. Open(f) /\ Silent(f)
    BY <1>2, <1>5, <2>1 DEF Placed
  <2>3. Placed(f)'
    BY <1>3, <2>1, <2>2 DEF Placed, Open, Silent
  <2>4. Recorded(f)'
    BY <1>1, <1>5, <2>1 DEF Recorded, Finished
  <2>5. Honest(f)'
    BY <1>3, <2>1, <2>2 DEF Honest, Silent
  <2> QED BY <2>3, <2>4, <2>5
<1> QED
  BY <1>6, <1>7, <1>8, <1>9, <1>10, <1>11, <1>12, <1>13, <1>14, <1>15, <1>16, <1>17
  DEF Work

-----------------------------------------------------------------------------
(* The requests, the pool, the timers and the life of the process. *)

\* A request changes the data of its own file only, and moves no goroutine.
LEMMA RequestLeavesOthers ==
    ASSUME StoreTypes, Custody, NEW f \in File,
           \/ SaveUpload(f) \/ CreateRow(f) \/ DeleteReads(f)
           \/ DeleteObject(f) \/ DeleteRow(f)
    PROVE  /\ \A x \in File \ {f} : Passive(x)
           /\ \A l : At(f, l)' <=> At(f, l)
           /\ Waits(f)' => Waits(f) \/ upload'[f] = "created"
<1>1. /\ UNCHANGED <<poolVars, pc, timers, dead, events, mailed>>
      /\ \A x \in File \ {f} : upload'[x] = upload[x] /\ delete'[x] = delete[x]
  BY DEF SaveUpload, CreateRow, DeleteReads, DeleteObject, DeleteRow, UploadGoes,
         DeleteGoes, procVars, Custody, CarrierTypes, StoreTypes
<1>2. UNCHANGED <<queue, hold, run, pc, timers>>
  BY <1>1 DEF poolVars
<1>3. Queued' = Queued /\ Holding' = Holding /\ Busy' = Busy
  BY <1>2 DEF Queued, Holding, Busy, Working
<1>4. \A x, l : At(x, l)' <=> At(x, l)
  BY <1>2, <1>3 DEF At
<1>5. \A x : Waits(x)' => Waits(x) \/ upload'[x] = "created"
  BY <1>2, <1>3, <1>4 DEF Waits
<1>6. ASSUME NEW x \in File, x # f PROVE Passive(x)
  <2>1. row'[x] = row[x]
    <3>1. \/ row' = row \/ row' = [row EXCEPT ![f].status = "pending"]
          \/ row' = WithStatus(f, "deleted")
      BY DEF SaveUpload, CreateRow, DeleteReads, DeleteObject, DeleteRow, Attempt, procVars
    <3> QED BY <1>6, <3>1, RowSteps DEF RowStep, StoreTypes
  <2>2. /\ x \in tmp' <=> x \in tmp
        /\ x \in object' <=> x \in object
    BY <1>6 DEF SaveUpload, CreateRow, DeleteReads, DeleteObject, DeleteRow, procVars
  <2>3. Waits(x)' => Waits(x)
    BY <1>1, <1>5, <1>6 DEF Waits
  <2> QED BY <1>1, <1>4, <1>6, <2>1, <2>2, <2>3 DEF Passive, SameData, NoNewPlace
<1> QED BY <1>4, <1>5, <1>6

LEMMA RequestKeepsOwn ==
    ASSUME "reply" \notin Fault, StoreTypes, Custody, NEW f \in File, Story(f),
           \/ SaveUpload(f) \/ CreateRow(f) \/ DeleteReads(f)
           \/ DeleteObject(f) \/ DeleteRow(f)
    PROVE  Story(f)'
<1>1. /\ \A l : At(f, l)' <=> At(f, l)
      /\ Waits(f)' => Waits(f) \/ upload'[f] = "created"
  BY RequestLeavesOthers
<1>2. /\ row \in [File -> Row] /\ upload \in [File -> UploadState]
      /\ delete \in [File -> DeleteState]
  BY DEF StoreTypes, Custody, CarrierTypes
<1>3. Unrecorded(f) /\ Placed(f) /\ Recorded(f) /\ Honest(f)
  BY DEF Story
<1>4. CASE SaveUpload(f)
  <2>1. /\ UNCHANGED <<row, object, dead, events, mailed, delete>>
        /\ upload[f] = "none"
        /\ \/ upload'[f] = "saved" /\ f \in tmp'
           \/ upload'[f] = "failed" /\ tmp' = tmp
    BY <1>2, <1>4 DEF SaveUpload, UploadGoes
  <2>2. (\A l : ~At(f, l)) /\ ~Waits(f)
    BY <2>1, NowhereYet
  <2>3. row[f].status = "absent" /\ Silent(f) /\ ~row[f].path
    BY <1>3, <2>1 DEF Unrecorded
  <2>4. Unrecorded(f)'
    BY <2>1, <2>3 DEF Unrecorded, Silent
  <2>5. Placed(f)' /\ Honest(f)'
    BY <1>1, <1>3, <2>1, <2>2 DEF Placed, Honest, GivenUp
  <2>6. Recorded(f)'
    BY <1>3, <2>1, <2>3 DEF Recorded, Finished
  <2> QED BY <2>4, <2>5, <2>6 DEF Story
<1>5. CASE CreateRow(f)
  <2>1. /\ UNCHANGED <<object, dead, events, mailed, delete>>
        /\ upload[f] = "saved"
        /\ \/ /\ row' = [row EXCEPT ![f].status = "pending"] /\ tmp' = tmp
              /\ upload'[f] = "created"
           \/ row' = row /\ upload'[f] = "failed"
    BY <1>2, <1>5 DEF CreateRow, UploadGoes
  <2>2. (\A l : ~At(f, l)) /\ ~Waits(f)
    BY <2>1, NowhereYet
  <2>3. row[f].status = "absent" /\ Silent(f) /\ f \in tmp /\ ~row[f].path
    BY <1>3, <2>1 DEF Unrecorded
  <2>4. \/ /\ row'[f].status = "pending" /\ row'[f].path = row[f].path /\ tmp' = tmp
           /\ upload'[f] = "created"
        \/ row' = row /\ upload'[f] = "failed"
    BY <1>2, <2>1, RowSteps DEF RowStep
  <2>5. Unrecorded(f)'
    BY <2>4 DEF Unrecorded
  <2>6. Placed(f)' /\ Honest(f)'
    BY <1>1, <2>1, <2>2, <2>3, <2>4, Outcomes DEF Placed, Honest, Open, Silent
  <2>7. Recorded(f)'
    BY <1>3, <2>1, <2>3, <2>4, Outcomes DEF Recorded, Finished, Silent
  <2> QED BY <2>5, <2>6, <2>7 DEF Story
<1>6. CASE DeleteReads(f)
  <2>1. /\ UNCHANGED <<row, tmp, object, dead, events, mailed, upload>>
        /\ delete'[f] = IF row[f].path THEN "object" ELSE "row"
    BY <1>2, <1>6 DEF DeleteReads, DeleteGoes, procVars
  <2>2. Waits(f)' => Waits(f)
    BY <1>1, <2>1 DEF Waits
  <2>3. Unrecorded(f)' /\ Recorded(f)'
    BY <1>3, <2>1 DEF Unrecorded, Recorded, Silent, Finished
  <2>4. Placed(f)' /\ Honest(f)'
    BY <1>1, <1>3, <2>1, <2>2 DEF Placed, Honest, Open, Silent, Finished, GivenUp
  <2> QED BY <2>3, <2>4 DEF Story
<1>7. CASE DeleteObject(f)
  <2>1. /\ UNCHANGED <<row, tmp, dead, events, mailed, upload>>
        /\ delete[f] = "object" /\ delete'[f] = "row"
    BY <1>2, <1>7 DEF DeleteObject, DeleteGoes
  <2>2. Finished(f) /\ row[f].path
    BY <1>3, <2>1 DEF Recorded
  <2>3. Waits(f)' => Waits(f)
    BY <1>1, <2>1 DEF Waits
  <2>4. Unrecorded(f)' /\ Recorded(f)'
    BY <1>3, <2>1, <2>2 DEF Unrecorded, Recorded, Silent, Finished
  <2>5. Placed(f)' /\ Honest(f)'
    BY <1>1, <1>3, <2>1, <2>2, <2>3 DEF Placed, Honest, Open, Silent, Finished, GivenUp
  <2> QED BY <2>4, <2>5 DEF Story
<1>8. CASE DeleteRow(f)
  <2>1. /\ UNCHANGED <<tmp, object, dead, events, mailed, upload>>
        /\ delete'[f] = "none"
        /\ row' = row \/ row' = WithStatus(f, "deleted")
    BY <1>2, <1>8 DEF DeleteRow, DeleteGoes, Attempt
  <2>2. row'[f].path = row[f].path
        /\ \/ row'[f].status = row[f].status
           \/ row'[f].status = "deleted" /\ row[f].status # "absent"
    BY <1>2, <2>1, RowSteps DEF RowStep, Exists
  <2>3. Waits(f)' => Waits(f)
    BY <1>1, <2>1 DEF Waits
  <2>4. Unrecorded(f)' /\ Recorded(f)'
    BY <1>3, <2>1, <2>2 DEF Unrecorded, Recorded, Silent, Finished
  <2>5. Placed(f)' /\ Honest(f)'
    BY <1>1, <1>3, <2>1, <2>2, <2>3 DEF Placed, Honest, Open, Silent, Finished, GivenUp
  <2> QED BY <2>4, <2>5 DEF Story
<1> QED BY <1>4, <1>5, <1>6, <1>7, <1>8

\* Handing a job on, and dropping one, are news to no file.
LEMMA HandlingIsPassive ==
    ASSUME Custody, NEW f \in File,
           \/ \E x \in File : EnqueueUpload(x)
           \/ \E j \in Job : TimerRequeues(j)
           \/ \E d \in Dispatcher : Receive(d) \/ Leave(d)
           \/ \E d \in Dispatcher, g \in Goroutine : Spawn(d, g)
           \/ \E g \in Goroutine : Finish(g)
           \/ Signalled \/ CancelContext \/ PoolWaited \/ Boot \/ UNCHANGED vars
    PROVE  Passive(f)
<1>1. SameData(f) /\ delete' = delete
  BY DEF EnqueueUpload, TimerRequeues, Receive, Leave, Spawn, Finish, Signalled,
         CancelContext, PoolWaited, Boot, vars, procVars, storeVars, reqVars, SameData
<1>2. upload' \in [File -> UploadState]
      /\ \A x \in File : upload'[x] # upload[x] => upload[x] = "created"
                                /\ upload'[x] \in {"accepted", "busy", "failed"}
  BY DEF Custody, CarrierTypes, UploadState, UploadGoes, EnqueueUpload, TimerRequeues,
         Receive, Leave, Spawn, Finish, Signalled, CancelContext, PoolWaited, Boot, vars, reqVars
<1>3. SUFFICES NoNewPlace(f)
  BY <1>1, <1>2 DEF Passive
<1>4. CASE \/ \E x \in File : EnqueueUpload(x) /\ Pool!Enqueue(FirstJob(x))
           \/ \E j \in Job : TimerRequeues(j)
  <2>1. PICK j \in Job : /\ queue' = Append(queue, j)
                         /\ upload[j.file] = "created" \/ j \in timers
    <3>1. \A x \in File : FirstJob(x) \in Job /\ FirstJob(x).file = x
      BY ProcessorAssumption DEF FirstJob, Job
    <3> QED BY <1>4, <3>1 DEF EnqueueUpload, TimerRequeues, Pool!Enqueue
  <2>2. /\ UNCHANGED <<hold, run, pc>> /\ timers' \subseteq timers
    BY <1>4 DEF EnqueueUpload, TimerRequeues, Pool!Enqueue, procVars
  <2>3. \A i \in Queued' : (i \in Queued /\ queue'[i] = queue[i]) \/ queue'[i] = j
    BY <2>1, AppendGrows DEF Custody, CarrierTypes, GrowsBy
  <2>4. Holding' = Holding /\ Busy' = Busy
    BY <2>2 DEF Holding, Busy, Working
  <2>5. \A l : At(f, l)' => At(f, l)
    BY <2>2, <2>4 DEF At
  <2>6. Waits(f)' => Waits(f)
    BY <1>2, <2>1, <2>2, <2>3, <2>4, <2>5 DEF Waits
  <2> QED BY <2>5, <2>6 DEF NoNewPlace
<1>5. CASE \E d \in Dispatcher : Receive(d)
  <2>1. PICK d \in Dispatcher : Receive(d)
    BY <1>5
  <2>2. /\ queue # <<>> /\ queue \in Seq(Job)
        /\ queue' = Tail(queue)
        /\ hold' = [hold EXCEPT ![d] = Head(queue)]
        /\ UNCHANGED <<run, pc, timers, upload>>
    BY <2>1 DEF Receive, Pool!Receive, procVars, reqVars, Custody, CarrierTypes
  <2>3. /\ 1 \in Queued /\ Head(queue) = queue[1]
        /\ \A i \in Queued' : i + 1 \in Queued /\ queue'[i] = queue[i + 1]
    BY <2>2 DEF Queued
  <2>4. \A e \in Holding' : (e \in Holding /\ hold'[e] = hold[e]) \/ hold'[e] = queue[1]
    BY <2>2, <2>3 DEF Holding, Custody, CarrierTypes
  <2>5. Busy' = Busy
    BY <2>2 DEF Busy, Working
  <2>6. \A l : At(f, l)' => At(f, l)
    BY <2>2, <2>5 DEF At
  <2>7. Waits(f)' => Waits(f)
    BY <2>2, <2>3, <2>4, <2>6 DEF Waits
  <2> QED BY <2>6, <2>7 DEF NoNewPlace
<1>6. CASE \E d \in Dispatcher, g \in Goroutine : Spawn(d, g)
  <2>1. PICK d \in Dispatcher, g \in Goroutine : Spawn(d, g)
    BY <1>6
  <2>2. /\ d \in Holding
        /\ run' = [run EXCEPT ![g] = hold[d]]
        /\ hold' = [hold EXCEPT ![d] = None]
        /\ pc' = [pc EXCEPT ![g] = "begin"]
        /\ UNCHANGED <<queue, timers, upload>>
    BY <2>1 DEF Spawn, Pool!Spawn, Pool!AtAcquire, Goto, reqVars, Holding
  <2>3. Queued' = Queued
        /\ \A e \in Holding' : e \in Holding /\ hold'[e] = hold[e]
    BY <2>2 DEF Queued, Holding, Custody, CarrierTypes
  <2>4. \A h \in Busy' : \/ h \in Busy /\ run'[h] = run[h] /\ pc'[h] = pc[h]
                         \/ run'[h] = hold[d] /\ pc'[h] = "begin"
    BY <2>2 DEF Busy, Working, Custody, CarrierTypes
  <2>5. \A l : At(f, l)' => At(f, l) \/ (l = "begin" /\ hold[d].file = f)
    BY <2>4 DEF At
  <2>6. Waits(f)' => Waits(f)
    BY <2>2, <2>3, <2>5 DEF Waits
  <2>7. \A l \in Site : At(f, l)' => At(f, l)
    BY <2>5 DEF Site
  <2> QED BY <2>6, <2>7 DEF NoNewPlace
<1>7. CASE \/ \E x \in File : EnqueueUpload(x) /\ UNCHANGED poolVars
           \/ \E d \in Dispatcher : Leave(d)
           \/ \E g \in Goroutine : Finish(g)
           \/ Signalled \/ CancelContext \/ PoolWaited \/ Boot \/ UNCHANGED vars
  <2>1. /\ queue' = queue /\ timers' = timers
        /\ \A d \in Dispatcher : hold'[d] # None => hold'[d] = hold[d]
        /\ \A g \in Goroutine : run'[g] # None => run'[g] = run[g] /\ pc'[g] = pc[g]
    BY <1>7 DEF Custody, CarrierTypes, EnqueueUpload, Leave, Pool!Exit, Pool!Abandon, Finish,
                Pool!Finish, Signalled, CancelContext, PoolWaited, Boot, Pool!Close, Pool!Cancel,
                Goto, vars, poolVars, procVars, storeVars
  <2>2. /\ Queued' = Queued
        /\ \A d \in Holding' : d \in Holding /\ hold'[d] = hold[d]
        /\ \A g \in Busy' : g \in Busy /\ run'[g] = run[g] /\ pc'[g] = pc[g]
    BY <2>1 DEF Queued, Holding, Busy, Working
  <2>3. \A l : At(f, l)' => At(f, l)
    BY <2>2 DEF At
  <2>4. Waits(f)' => Waits(f)
    BY <1>2, <2>1, <2>2, <2>3 DEF Waits
  <2> QED BY <2>3, <2>4 DEF NoNewPlace
<1> QED BY <1>4, <1>5, <1>6, <1>7 DEF EnqueueUpload

LEMMA EndIsPassive == ASSUME ProcessEnds, NEW f \in File PROVE Passive(f)
<1>1. /\ SameData(f)
      /\ upload'[f] \in {"none", "saved", "created"} => upload'[f] = upload[f] /\ upload[f] = "none"
      /\ delete'[f] = "none"
  BY DEF ProcessEnds, storeVars, SameData
<1>2. Queued' = {} /\ Holding' = {} /\ Busy' = {} /\ timers' = {}
  BY DEF ProcessEnds, Pool!Restart, Queued, Holding, Busy, Working, Dispatcher
<1>3. (\A l : ~At(f, l)') /\ ~Waits(f)'
  BY <1>1, <1>2 DEF At, Waits
<1> QED BY <1>1, <1>3 DEF Passive, NoNewPlace

\* A timer that finds the queue full ends the job and buries the file.
LEMMA BuryingKeepsStory ==
    ASSUME StoreTypes, Custody, NEW j \in Job, TimerFindsFull(j),
           \A x \in File : Story(x), NEW f \in File
    PROVE  Story(f)'
<1>1. /\ j \in timers /\ timers' = timers \ {j}
      /\ UNCHANGED <<row, tmp, object, events, mailed, pc, poolVars, reqVars>>
      /\ Buried(j.file, j.retry)
  BY DEF TimerFindsFull
<1>2. UNCHANGED <<queue, hold, run, upload, delete>>
  BY <1>1 DEF poolVars, reqVars
<1>3. Queued' = Queued /\ Holding' = Holding /\ Busy' = Busy
  BY <1>1, <1>2 DEF Queued, Holding, Busy, Working
<1>4. \A l : At(f, l)' <=> At(f, l)
  BY <1>1, <1>2, <1>3 DEF At
<1>5. CASE f # j.file
  <2>1. dead'[f] = dead[f]
    BY <1>1, <1>5 DEF Buried, StoreTypes
  <2>2. Waits(f)' => Waits(f)
    BY <1>1, <1>2, <1>3, <1>4 DEF Waits
  <2>3. Passive(f)
    BY <1>1, <1>2, <1>4, <2>1, <2>2 DEF Passive, SameData, NoNewPlace
  <2> QED BY <2>3, PassiveKeepsStory
<1>6. CASE f = j.file
  <2>1. /\ upload[f] = "accepted"
        /\ \A i \in Queued : queue[i].file # f
        /\ \A d \in Holding : hold[d].file # f
        /\ \A g \in Busy : run[g].file # f
        /\ \A k \in timers : k.file = f => k = j
    BY <1>1, <1>6 DEF Custody, Accepted, Disjoint, Injective
  <2>2. (\A l : ~At(f, l)) /\ ~Waits(f)'
    BY <1>1, <1>2, <1>3, <1>4, <2>1 DEF At, Waits
  <2>3. Open(f) /\ Silent(f) /\ Recorded(f)
    BY <1>1, <1>6 DEF Story, Placed, Waits
  <2>4. dead'[f] = <<>> \/ dead'[f] = <<j.retry>>
    BY <1>1, <1>6, <2>3, Outcomes DEF Buried, Silent, StoreTypes
  <2>5. Len(dead'[f]) <= 1
    <3>1. Len(<<j.retry>>) = 1 /\ Len(<<>>) = 0
      BY Outcomes
    <3>2. Len(dead'[f]) = 0 \/ Len(dead'[f]) = 1
      BY <2>4, <3>1, Zenon
    <3>3. \A n : n = 0 \/ n = 1 => n <= 1
      OBVIOUS
    <3> QED BY <3>2, <3>3, Zenon
  <2>6. Unrecorded(f)'
    BY <1>2, <2>1 DEF Unrecorded
  <2>7. Placed(f)' /\ Honest(f)'
    BY <1>1, <1>4, <2>2, <2>3, Outcomes DEF Placed, Honest, Silent
  <2>8. Recorded(f)'
    BY <1>1, <1>2, <2>3, <2>5 DEF Recorded, Finished
  <2> QED BY <2>6, <2>7, <2>8 DEF Story
<1> QED BY <1>5, <1>6

-----------------------------------------------------------------------------
LEMMA InitLife == Init => LifeInv
<1> SUFFICES ASSUME Init, NEW f \in File PROVE Story(f)
  BY InitTypes, InitCustody DEF LifeInv
<1>1. Custody /\ upload[f] = "none" /\ delete[f] = "none"
  BY InitCustody DEF Init
<1>2. (\A l : ~At(f, l)) /\ ~Waits(f)
  BY <1>1, NowhereYet
<1>3. /\ row[f].status = "absent" /\ ~row[f].path /\ Silent(f)
      /\ f \notin tmp /\ f \notin mailed
  BY DEF Init, ProcInit, Silent
<1> QED
  BY <1>1, <1>2, <1>3, Outcomes DEF Story, Unrecorded, Placed, Recorded, Honest, Silent

LEMMA StepLife ==
    ASSUME "reply" \notin Fault, LifeInv, [Next]_vars PROVE LifeInv'
<1> SUFFICES ASSUME NEW f \in File PROVE Story(f)'
  BY StepTypes, StepCustody DEF LifeInv
<1> USE DEF LifeInv
<1>1. ASSUME NEW x \in File,
             \/ SaveUpload(x) \/ CreateRow(x) \/ DeleteReads(x)
             \/ DeleteObject(x) \/ DeleteRow(x)
      PROVE  Story(f)'
  <2>1. CASE x = f
    BY <1>1, <2>1, RequestKeepsOwn
  <2>2. CASE x # f
    <3>1. Passive(f)
      BY <1>1, <2>2, RequestLeavesOthers
    <3> QED BY <3>1, PassiveKeepsStory
  <2> QED BY <2>1, <2>2
<1>2. ASSUME NEW g \in Goroutine, GoroutineWorks(g) PROVE Story(f)'
  <2>1. /\ run[g] # None /\ Work(g, run[g])
        /\ UNCHANGED <<poolVars, reqVars, stage>>
    BY <1>2 DEF GoroutineWorks
  <2>2. g \in Busy
    BY <2>1 DEF Busy, Working, Work, Begin, ProcessFile, PutFile, RemoveTmp, UpdateDone,
                NotifyDone, SendMail, Bury, UpdateError, NotifyError, CountRetry, ScheduleRetry
  <2>3. CASE run[g].file = f
    BY <2>1, <2>2, <2>3, WorkerKeepsOwn
  <2>4. CASE run[g].file # f
    <3>1. run[g].file \in File
      BY <2>2, OnlyWorker
    <3>2. Passive(f)
      BY <2>1, <2>2, <2>4, <3>1, WorkerLeavesOthers
    <3> QED BY <3>2, PassiveKeepsStory
  <2> QED BY <2>3, <2>4
<1>3. ASSUME NEW j \in Job, TimerFindsFull(j) PROVE Story(f)'
  BY <1>3, BuryingKeepsStory
<1>4. CASE ShutDown \/ Crash \/ \E j \in Job : TimerPanics(j)
  <2>1. ProcessEnds
    BY <1>4 DEF ShutDown, Crash, TimerPanics
  <2> QED BY <2>1, EndIsPassive, PassiveKeepsStory
<1>5. CASE \/ \E x \in File : EnqueueUpload(x)
           \/ \E j \in Job : TimerRequeues(j)
           \/ \E d \in Dispatcher : Receive(d) \/ Leave(d)
           \/ \E d \in Dispatcher, g \in Goroutine : Spawn(d, g)
           \/ \E g \in Goroutine : Finish(g)
           \/ Signalled \/ CancelContext \/ PoolWaited \/ Boot \/ UNCHANGED vars
  BY <1>5, HandlingIsPassive, PassiveKeepsStory
<1> QED BY <1>1, <1>2, <1>3, <1>4, <1>5 DEF Next, TimerFires

LEMMA LifeHolds == ASSUME "reply" \notin Fault PROVE Spec => []LifeInv
BY InitLife, StepLife, PTL DEF Spec

\* However uploads, attempts, deletions, crashes and restarts mix, a file's
\* outcome is announced once and buried once (processor.go:75-81, 179-187,
\* deadletter.go:30-45), if no reply of the database is lost.
THEOREM ToldOnce == ASSUME "reply" \notin Fault PROVE Spec => []OutcomeToldOnce
<1>1. LifeInv => OutcomeToldOnce
  <2> SUFFICES ASSUME LifeInv, NEW f \in File
               PROVE  Len(events[f]) <= 1 /\ Len(dead[f]) <= 1
    BY DEF OutcomeToldOnce
  <2>1. Recorded(f)
    BY DEF LifeInv, Story
  <2>2. Len(<<"done">>) = 1 /\ Len(<<"error">>) = 1 /\ Len(<<>>) = 0
    BY Outcomes
  <2>3. Len(events[f]) = 0 \/ Len(events[f]) = 1
    BY <2>1, <2>2, Zenon DEF Recorded
  <2>4. \A n : n = 0 \/ n = 1 => n <= 1
    OBVIOUS
  <2>5. Len(events[f]) <= 1
    BY <2>3, <2>4, Zenon
  <2> QED BY <2>1, <2>5 DEF Recorded
<1> QED BY <1>1, LifeHolds, PTL

\* The content of an unsettled file is never lost: the temporary file goes
\* only once the object is stored, and no delete removes the object of a file
\* whose path it could not have read (processor.go:160-176, file.go:113-126).
THEOREM ContentIsKept == ASSUME "reply" \notin Fault PROVE Spec => []ContentKept
<1>1. LifeInv => ContentKept
  BY DEF LifeInv, Story, Recorded, ContentKept
<1> QED BY <1>1, LifeHolds, PTL

\* With a database that answers, what the owner was told and mailed is what the
\* row says from then on (processor.go:78-79, 179-187).
THEOREM ToldTruly ==
    ASSUME "reply" \notin Fault, "db" \notin Fault PROVE Spec => []OutcomeIsTrue
<1>1. LifeInv => OutcomeIsTrue
  <2> SUFFICES ASSUME LifeInv, NEW f \in File
               PROVE  /\ \A i \in DOMAIN events[f] :
                            row[f].status \in {events[f][i], "deleted"}
                      /\ f \in mailed => row[f].status \in {"done", "deleted"}
    BY DEF OutcomeIsTrue
  <2>1. Recorded(f) /\ Honest(f)
    BY DEF LifeInv, Story
  <2>2. CASE events[f] = <<>>
    BY <2>1, <2>2 DEF Recorded, Finished
  <2>3. CASE events[f] = <<"done">>
    BY <2>1, <2>3 DEF Recorded, Finished
  <2>4. CASE events[f] = <<"error">>
    BY <2>1, <2>4 DEF Recorded, Finished, Honest, GivenUp
  <2> QED BY <2>1, <2>2, <2>3, <2>4 DEF Recorded
<1> QED BY <1>1, LifeHolds, PTL

-----------------------------------------------------------------------------
(* The service implements FileStatus. *)

Shown == [f \in File |-> row[f].status]

\* A change of one row is a change of one status.
LEMMA ShownSteps ==
    ASSUME row \in [File -> Row], NEW f \in File, NEW s, NEW p, RowStep(f, s, p)
    PROVE  /\ Shown[f] = row[f].status
           /\ Shown' = [Shown EXCEPT ![f] = s]
           /\ s = row[f].status => Shown' = Shown
BY DEF Shown, RowStep

LEMMA StatusSteps ==
    ASSUME "reply" \notin Fault, LifeInv, [Next]_vars
    PROVE  [Lifecycle!Next]_Shown
<1> USE DEF Lifecycle!Next, Lifecycle!Record, Lifecycle!TakeUp, Lifecycle!Complete,
            Lifecycle!GiveUp, Lifecycle!Delete, Lifecycle!Moves
<1>1. row \in [File -> Row]
  BY DEF LifeInv, StoreTypes
<1>2. CASE row' = row
  BY <1>2 DEF Shown
<1>3. ASSUME NEW f \in File, CreateRow(f) PROVE [Lifecycle!Next]_Shown
  <2>1. row' = row \/ row' = [row EXCEPT ![f].status = "pending"]
    BY <1>3 DEF CreateRow
  <2>2. row[f].status = "absent"
    BY <1>3 DEF CreateRow, LifeInv, Story, Unrecorded
  <2>3. CASE row' = [row EXCEPT ![f].status = "pending"]
    <3>1. Shown[f] = "absent" /\ Shown' = [Shown EXCEPT ![f] = "pending"]
      BY <1>1, <2>2, <2>3, RowSteps, ShownSteps
    <3> QED BY <3>1 DEF Shown
  <2> QED BY <1>2, <2>1, <2>3
<1>4. ASSUME NEW f \in File, DeleteRow(f) PROVE [Lifecycle!Next]_Shown
  <2>1. row' = row \/ row' = WithStatus(f, "deleted")
    BY <1>4 DEF DeleteRow, Attempt
  <2>2. CASE Exists(f) /\ row' = WithStatus(f, "deleted")
    <3>1. Shown[f] = row[f].status /\ Shown' = [Shown EXCEPT ![f] = "deleted"]
      BY <1>1, <2>2, RowSteps, ShownSteps
    <3>2. row[f].status \in {"pending", "processing", "done", "error"}
      BY <1>1, <2>2 DEF Exists, Row, Status
    <3> QED BY <3>1, <3>2 DEF Shown
  <2> QED BY <1>2, <2>1, <2>2 DEF WithStatus
<1>5. ASSUME NEW g \in Goroutine, GoroutineWorks(g) PROVE [Lifecycle!Next]_Shown
  <2>1. run[g] # None /\ Work(g, run[g])
    BY <1>5 DEF GoroutineWorks
  <2>2. g \in Busy
    BY <2>1 DEF Busy, Working, Work, Begin, ProcessFile, PutFile, RemoveTmp, UpdateDone,
                NotifyDone, SendMail, Bury, UpdateError, NotifyError, CountRetry, ScheduleRetry
  <2>3. PICK f \in File : run[g].file = f
    BY <2>2, OnlyWorker DEF LifeInv
  <2>4. /\ At(f, pc[g])
        /\ pc[g] \in Idling => Waits(f)
        /\ Placed(f)
    BY <2>2, <2>3 DEF At, Waits, LifeInv, Story
  <2>5. CASE Begin(g, run[g]) /\ row' # row
    <3>1. Exists(f) /\ ~Settled(f) /\ row' = WithStatus(f, "processing")
      BY <2>3, <2>5 DEF Begin
    <3>2. Shown[f] = row[f].status /\ Shown' = [Shown EXCEPT ![f] = "processing"]
      BY <1>1, <3>1, RowSteps, ShownSteps
    <3>3. row[f].status \in {"pending", "processing"}
      BY <1>1, <3>1 DEF Exists, Settled, Row, Status
    <3> QED BY <3>2, <3>3 DEF Shown
  <2>6. CASE UpdateDone(g, run[g]) /\ row' # row
    <3>1. Exists(f) /\ row' = DoneRow(f) /\ pc[g] = "update"
      BY <2>3, <2>6 DEF UpdateDone, DoneRow
    <3>2. Shown[f] = row[f].status /\ Shown' = [Shown EXCEPT ![f] = "done"]
      BY <1>1, <3>1, RowSteps, ShownSteps
    <3>3. row[f].status = "processing"
      BY <2>4, <3>1 DEF Exists, Placed
    <3> QED BY <3>2, <3>3 DEF Shown
  <2>7. CASE UpdateError(g, run[g]) /\ row' # row
    <3>1. Exists(f) /\ row' = ErrorRow(f) /\ pc[g] = "uperr"
      BY <2>3, <2>7 DEF UpdateError, Attempt, ErrorRow, WithStatus
    <3>2. Shown[f] = row[f].status /\ Shown' = [Shown EXCEPT ![f] = "error"]
      BY <1>1, <3>1, RowSteps, ShownSteps
    <3>3. row[f].status \in {"pending", "processing"}
      BY <2>4, <3>1 DEF Exists, Placed, Open
    <3> QED BY <3>2, <3>3 DEF Shown
  <2>8. CASE CountRetry(g, run[g])
    <3>1. row' = row \/ row' = CountedRow(f)
      BY <2>3, <2>8 DEF CountRetry, Attempt
    <3>2. Shown' = Shown
      BY <1>1, <3>1, RowSteps, ShownSteps
    <3> QED BY <3>2
  <2>9. CASE \/ ProcessFile(g, run[g]) \/ PutFile(g, run[g]) \/ RemoveTmp(g, run[g])
             \/ NotifyDone(g, run[g]) \/ SendMail(g, run[g]) \/ Bury(g, run[g])
             \/ NotifyError(g, run[g]) \/ ScheduleRetry(g, run[g])
    <3>1. row' = row
      BY <2>9 DEF ProcessFile, PutFile, RemoveTmp, NotifyDone, SendMail, Bury, NotifyError,
                  ScheduleRetry, storeVars
    <3> QED BY <1>2, <3>1
  <2> QED BY <1>2, <2>1, <2>5, <2>6, <2>7, <2>8, <2>9 DEF Work
<1>6. CASE \/ \E f \in File : SaveUpload(f) \/ EnqueueUpload(f) \/ DeleteReads(f) \/ DeleteObject(f)
           \/ \E d \in Dispatcher : Receive(d) \/ Leave(d)
           \/ \E d \in Dispatcher, g \in Goroutine : Spawn(d, g)
           \/ \E g \in Goroutine : Finish(g)
           \/ \E j \in Job : TimerFires(j)
           \/ Signalled \/ CancelContext \/ PoolWaited \/ ShutDown \/ Crash \/ Boot
           \/ UNCHANGED vars
  <2>1. row' = row
    BY <1>6 DEF SaveUpload, EnqueueUpload, DeleteReads, DeleteObject, Receive, Leave, Spawn,
                Finish, TimerFires, TimerRequeues, TimerFindsFull, TimerPanics, Signalled,
                CancelContext, PoolWaited, ShutDown, Crash, Boot, ProcessEnds, vars, procVars,
                storeVars
  <2> QED BY <1>2, <2>1
<1> QED BY <1>3, <1>4, <1>5, <1>6 DEF Next

\* What the owner sees of a file is a life FileStatus allows: a settled file
\* stays settled until it is deleted, a deleted one stays deleted
\* (processor.go:109-128, file.go:113-126, domain/file.go).
THEOREM ServiceImplementsFileStatus ==
    ASSUME "reply" \notin Fault PROVE Spec => ImplementsFileStatus
<1>1. Init => Lifecycle!Init
  BY DEF Init, ProcInit, Lifecycle!Init
<1>2. LifeInv /\ [Next]_vars => [Lifecycle!Next]_Shown
  BY StatusSteps
<1> QED
  BY <1>1, <1>2, LifeHolds, PTL DEF Spec, ImplementsFileStatus, Lifecycle!Spec, Shown

-----------------------------------------------------------------------------
(* What is done can be downloaded, as long as nobody ends the process and the *)
(* database answers.                                                          *)

LastingFaults == {"store", "disk", "process", "panic"}

\* The process is never asked to stop, so it never stops.
Serving == ~closed /\ ~cancelled /\ stage = "serving"

Downloadable(f) ==
    row[f].status = "done" => f \in object \/ delete[f] = "row"

ObjectInv == Serving /\ \A f \in File : Downloadable(f)

LEMMA StepObject ==
    ASSUME Fault \subseteq LastingFaults, LifeInv, ObjectInv, [Next]_vars
    PROVE  ObjectInv'
<1> USE DEF LastingFaults
<1>1. Serving'
  BY DEF ObjectInv, Serving, Next, vars, poolVars, SaveUpload, CreateRow, EnqueueUpload,
         DeleteReads, DeleteObject, DeleteRow, Receive, Leave, Spawn, GoroutineWorks, Finish,
         TimerFires, TimerRequeues, TimerFindsFull, TimerPanics, Signalled, CancelContext,
         PoolWaited, ShutDown, Crash, Boot, Pool!Enqueue, Pool!Receive, Pool!Exit, Pool!Abandon,
         Pool!Spawn, Pool!Finish
<1> SUFFICES ASSUME NEW f \in File PROVE Downloadable(f)'
  BY <1>1 DEF ObjectInv
<1> USE DEF ObjectInv, Downloadable
<1>2. /\ Placed(f) /\ Recorded(f)
      /\ row \in [File -> Row] /\ delete \in [File -> DeleteState]
  BY DEF LifeInv, Story, StoreTypes
<1>3. ASSUME NEW x \in File,
             \/ SaveUpload(x) \/ CreateRow(x) \/ EnqueueUpload(x) \/ DeleteReads(x)
             \/ DeleteObject(x) \/ DeleteRow(x)
      PROVE  Downloadable(f)'
  <2>1. CASE x # f
    <3>1. row'[f] = row[f]
      <4>1. \/ row' = row \/ row' = [row EXCEPT ![x].status = "pending"]
            \/ row' = WithStatus(x, "deleted")
        BY <1>3 DEF SaveUpload, CreateRow, EnqueueUpload, DeleteReads, DeleteObject, DeleteRow,
                    Attempt, procVars
      <4> QED BY <1>2, <2>1, <4>1, RowSteps DEF RowStep
    <3>2. (f \in object' <=> f \in object) /\ delete'[f] = delete[f]
      BY <1>2, <1>3, <2>1 DEF SaveUpload, CreateRow, EnqueueUpload, DeleteReads, DeleteObject,
                              DeleteRow, DeleteGoes, procVars
    <3> QED BY <3>1, <3>2
  <2>2. CASE SaveUpload(f) \/ EnqueueUpload(f)
    BY <2>2 DEF SaveUpload, EnqueueUpload, procVars
  <2>3. CASE CreateRow(f)
    <3>1. row' = [row EXCEPT ![f].status = "pending"]
      BY <2>3 DEF CreateRow
    <3> QED BY <1>2, <3>1, RowSteps DEF RowStep
  <2>4. CASE DeleteReads(f)
    BY <1>2, <2>4 DEF DeleteReads, DeleteGoes, procVars, DeleteState
  <2>5. CASE DeleteObject(f)
    BY <1>2, <2>5 DEF DeleteObject, DeleteGoes
  <2>6. CASE DeleteRow(f)
    <3>1. row' = WithStatus(f, "deleted")
      BY <2>6 DEF DeleteRow, Attempt
    <3>2. row'[f].status # "done"
      BY <1>2, <3>1, RowSteps DEF RowStep, Exists
    <3> QED BY <3>2
  <2> QED BY <1>3, <2>1, <2>2, <2>3, <2>4, <2>5, <2>6
<1>4. ASSUME NEW g \in Goroutine, GoroutineWorks(g) PROVE Downloadable(f)'
  <2>1. run[g] # None /\ Work(g, run[g]) /\ UNCHANGED delete
    BY <1>4 DEF GoroutineWorks, reqVars
  <2>2. g \in Busy
    BY <2>1 DEF Busy, Working, Work, Begin, ProcessFile, PutFile, RemoveTmp, UpdateDone,
                NotifyDone, SendMail, Bury, UpdateError, NotifyError, CountRetry, ScheduleRetry
  <2>3. run[g].file \in File
    BY <2>2, OnlyWorker DEF LifeInv
  <2>4. f \in object => f \in object'
    BY <2>1 DEF Work, Begin, ProcessFile, PutFile, RemoveTmp, UpdateDone, NotifyDone,
                SendMail, Bury, UpdateError, NotifyError, CountRetry, ScheduleRetry, storeVars
  <2>5. CASE UpdateDone(g, run[g]) /\ row' = DoneRow(run[g].file) /\ run[g].file = f
    <3>1. At(f, "update") /\ object' = object
      BY <2>2, <2>5 DEF At, UpdateDone
    <3>2. row[f].status = "deleted" \/ f \in object
      BY <1>2, <3>1 DEF Placed
    <3>3. row[f].status = "deleted" => row' = row
      BY <2>5 DEF DoneRow, Exists
    <3> QED BY <3>1, <3>2, <3>3
  <2>6. CASE ~(UpdateDone(g, run[g]) /\ row' = DoneRow(run[g].file) /\ run[g].file = f)
    <3>1. PICK x \in File : run[g].file = x
      BY <2>3
    <3>2. \/ row' = row \/ row' = WithStatus(x, "processing")
          \/ row' = ErrorRow(x) \/ row' = CountedRow(x)
          \/ row' = DoneRow(x) /\ x # f
      BY <2>1, <2>6, <3>1 DEF Work, Begin, ProcessFile, PutFile, RemoveTmp, UpdateDone,
         NotifyDone, SendMail, Bury, UpdateError, NotifyError, CountRetry, ScheduleRetry,
         Attempt, storeVars
    <3>3. CASE x # f
      BY <1>2, <2>1, <2>4, <3>2, <3>3, RowSteps DEF RowStep
    <3>4. CASE x = f
      <4>1. row'[f].status = "done" => row[f].status = "done"
        <5>1. \/ RowStep(f, row[f].status, row[f].path)
              \/ \E s \in {"processing", "error"} :
                    RowStep(f, IF Exists(f) THEN s ELSE row[f].status, row[f].path)
          BY <1>2, <3>2, <3>4, RowSteps, Zenon
        <5> QED BY <5>1 DEF RowStep
      <4> QED BY <2>1, <2>4, <4>1
    <3> QED BY <3>3, <3>4
  <2> QED BY <2>5, <2>6
<1>5. CASE \/ \E d \in Dispatcher : Receive(d) \/ Leave(d)
           \/ \E d \in Dispatcher, g \in Goroutine : Spawn(d, g)
           \/ \E g \in Goroutine : Finish(g)
           \/ \E j \in Job : TimerRequeues(j) \/ TimerFindsFull(j)
           \/ Signalled \/ CancelContext \/ PoolWaited \/ Boot \/ UNCHANGED vars
  BY <1>5 DEF Receive, Leave, Spawn, Finish, TimerRequeues, TimerFindsFull, Signalled,
              CancelContext, PoolWaited, Boot, vars, procVars, storeVars, reqVars
<1>6. ~ShutDown /\ ~Crash /\ \A j \in Job : ~TimerPanics(j)
  BY DEF Serving, ShutDown, Crash, TimerPanics
<1> QED BY <1>3, <1>4, <1>5, <1>6 DEF Next, TimerFires

\* Every done file has its object until a delete has removed it: the object is
\* stored before the row says so, and an attempt that fails later does not take
\* it back (processor.go:160-179, file.go:119-126).
THEOREM DoneIsDownloadable ==
    ASSUME Fault \subseteq LastingFaults PROVE Spec => []DoneHasObject
<1>1. "reply" \notin Fault
  BY DEF LastingFaults
<1>2. Init => ObjectInv
  <2>1. Init => \A f \in File : row[f].status = "absent"
    BY DEF Init, ProcInit
  <2>2. Init => Serving
    BY DEF Init, Pool!Init, Serving
  <2> QED BY <2>1, <2>2 DEF ObjectInv, Downloadable
<1>3. LifeInv /\ ObjectInv /\ [Next]_vars => ObjectInv'
  BY StepObject
<1>4. ObjectInv => DoneHasObject
  BY DEF ObjectInv, Downloadable, DoneHasObject
<1> QED BY <1>1, <1>2, <1>3, <1>4, LifeHolds, PTL DEF Spec

-----------------------------------------------------------------------------
(* The retry count. The row and the job are incremented by two statements;  *)
(* between them the goroutine's job is one behind.                          *)

Tallied(j) == Exists(j.file) => row[j.file].retries = j.retry

\* The places at which the job's own count is the row's.
Attempting == {"begin", "process", "put", "clean", "update", "bury", "count"}

\* The jobs with which a file's next attempt begins or its current one goes on.
Current ==
    Waiting
        \cup {run[g] : g \in {g \in Busy : pc[g] \in Attempting}}
        \cup {Retried(run[g]) : g \in {g \in Busy : pc[g] = "after"}}

Fresh(f) == upload[f] \in {"none", "saved", "created"}

Column ==
    /\ \A f \in File : Fresh(f) => row[f].retries = 0
    /\ \A j \in Current : Tallied(j)

LEMMA CurrentMembers ==
    ASSUME Custody
    PROVE  /\ \A i \in Queued : queue[i] \in Current
           /\ \A d \in Holding : hold[d] \in Current
           /\ timers \subseteq Current
           /\ \A g \in Busy : /\ pc[g] \in Attempting => run[g] \in Current
                              /\ pc[g] = "after" => Retried(run[g]) \in Current
           /\ \A j \in Current : j.file \in File
           /\ \A j \in Current :
                 \/ \E i \in Queued : j = queue[i]
                 \/ \E d \in Holding : j = hold[d]
                 \/ j \in timers
                 \/ \E g \in Busy : /\ pc[g] \in Attempting /\ j = run[g]
                                    /\ j.file = run[g].file
                 \/ \E g \in Busy : /\ pc[g] = "after" /\ j = Retried(run[g])
                                    /\ j.file = run[g].file
<1>1. DOMAIN queue = Queued
  BY DEF Custody, CarrierTypes, Queued
<1>2. \A g \in Busy : Retried(run[g]).file = run[g].file
  BY DEF Custody, CarrierTypes, Busy, Working, Job, Retried
<1>3. \A x \in Job : x.file \in File
  BY DEF Job
<1>4. /\ \A i \in Queued : queue[i] \in Job
      /\ \A d \in Holding : hold[d] \in Job
      /\ \A g \in Busy : run[g] \in Job
      /\ timers \subseteq Job
  BY DEF Custody, CarrierTypes, Queued, Holding, Busy, Working
<1>5. \A j \in Current : j.file \in File
  BY <1>1, <1>2, <1>3, <1>4 DEF Current, Waiting, Holding
<1> QED BY <1>1, <1>2, <1>5 DEF Current, Waiting, Holding

\* No file's count moves, and no row appears.
CountsStay ==
    \A x \in File : row'[x].retries = row[x].retries /\ (Exists(x)' => Exists(x))

\* The statements on the table, seen through the retry count.
LEMMA CountSteps ==
    ASSUME row \in [File -> Row], NEW f \in File
    PROVE  /\ row' = row => CountsStay
           /\ \A s : row' = WithStatus(f, s) => CountsStay
           /\ row' = DoneRow(f) => CountsStay
           /\ row' = CountedRow(f) =>
                 /\ \A x \in File \ {f} : row'[x] = row[x]
                 /\ Exists(f) => row'[f].retries = row[f].retries + 1
                 /\ Exists(f)' => Exists(f)
           /\ row' = [row EXCEPT ![f].status = "pending"] =>
                 /\ \A x \in File \ {f} : row'[x] = row[x]
                 /\ row'[f].retries = row[f].retries
<1>1. row[f] \in Row
  OBVIOUS
<1>2. row' = row => CountsStay
  BY DEF CountsStay, Exists
<1>3. ASSUME NEW s, Exists(f), row' = [row EXCEPT ![f].status = s] PROVE CountsStay
  BY <1>1, <1>3 DEF CountsStay, Exists, Row
<1>4. ASSUME Exists(f), row' = [row EXCEPT ![f].status = "done", ![f].path = TRUE]
      PROVE  CountsStay
  BY <1>1, <1>4 DEF CountsStay, Exists, Row
<1>5. ASSUME Exists(f), row' = [row EXCEPT ![f].retries = @ + 1]
      PROVE  /\ \A x \in File \ {f} : row'[x] = row[x]
             /\ row'[f].retries = row[f].retries + 1
  BY <1>1, <1>5 DEF Row
<1>6. ASSUME row' = [row EXCEPT ![f].status = "pending"]
      PROVE  /\ \A x \in File \ {f} : row'[x] = row[x]
             /\ row'[f].retries = row[f].retries
  BY <1>1, <1>6 DEF Row
<1>7. row' = CountedRow(f) => (Exists(f)' => Exists(f))
  BY DEF CountedRow, Exists
<1>8. CASE Exists(f)
  BY <1>2, <1>3, <1>4, <1>5, <1>6, <1>7, <1>8 DEF WithStatus, DoneRow, CountedRow
<1>9. CASE ~Exists(f)
  BY <1>2, <1>6, <1>7, <1>9 DEF WithStatus, DoneRow, CountedRow
<1> QED BY <1>8, <1>9

\* Where the counts stay, only new jobs have to be looked at.
LEMMA ColumnStays ==
    ASSUME Custody, Column, CountsStay,
           \A f \in File : Fresh(f)' => Fresh(f),
           \A j \in Current' : j \in Current \/ (j.file \in File /\ Fresh(j.file) /\ j.retry = 0)
    PROVE  Column'
<1>1. \A f \in File : Fresh(f)' => row'[f].retries = 0
  BY DEF Column, CountsStay
<1>2. ASSUME NEW j \in Current' PROVE Tallied(j)'
  <2>1. j.file \in File
    <3>1. CASE j \in Current
      BY <3>1, CurrentMembers
    <3> QED BY <1>2, <3>1
  <2> QED BY <1>2, <2>1 DEF Column, CountsStay, Tallied, Exists
<1> QED BY <1>1, <1>2 DEF Column

-----------------------------------------------------------------------------
(* The steps of the service. *)

\* The requests but the upload's last step move no job.
LEMMA RequestKeepsColumn ==
    ASSUME "reply" \notin Fault, LifeInv, Column, NEW f \in File,
           \/ SaveUpload(f) \/ CreateRow(f) \/ DeleteReads(f)
           \/ DeleteObject(f) \/ DeleteRow(f)
    PROVE  Column'
<1>1. UNCHANGED <<queue, hold, run, pc, timers>>
  BY DEF SaveUpload, CreateRow, DeleteReads, DeleteObject, DeleteRow, procVars, poolVars
<1>2. Current' = Current
  BY <1>1 DEF Current, Waiting, Busy, Working
<1>3. \A x \in File : Fresh(x)' => Fresh(x)
  BY DEF SaveUpload, CreateRow, DeleteReads, DeleteObject, DeleteRow, UploadGoes, Fresh,
         LifeInv, Custody, CarrierTypes
<1>4. row \in [File -> Row] /\ Custody
  BY DEF LifeInv, StoreTypes
<1>5. CASE row' = [row EXCEPT ![f].status = "pending"] /\ CreateRow(f)
  <2>1. /\ \A x \in File \ {f} : row'[x] = row[x]
        /\ row'[f].retries = row[f].retries
    BY <1>4, <1>5, CountSteps
  <2>2. upload[f] # "accepted"
    BY <1>5 DEF CreateRow
  <2>3. \A j \in Current : j.file \in File /\ j.file # f
    BY <1>4, <2>2, CurrentMembers DEF Custody, Accepted
  <2>4. \A x \in File : Fresh(x)' => row'[x].retries = 0
    BY <1>3, <2>1 DEF Column
  <2>5. ASSUME NEW j \in Current' PROVE Tallied(j)'
    BY <1>2, <2>1, <2>3, <2>5 DEF Column, Tallied, Exists
  <2> QED BY <2>4, <2>5 DEF Column
<1>6. CASE row' = row \/ row' = WithStatus(f, "deleted")
  <2>1. CountsStay
    BY <1>4, <1>6, CountSteps
  <2> QED BY <1>2, <1>3, <1>4, <2>1, ColumnStays
<1> QED
  BY <1>5, <1>6 DEF SaveUpload, CreateRow, DeleteReads, DeleteObject, DeleteRow, Attempt, procVars

\* The pool hands jobs on as they are; an upload adds one that never ran.
LEMMA HandlingKeepsColumn ==
    ASSUME LifeInv, Column, Custody',
           \/ \E x \in File : EnqueueUpload(x)
           \/ \E j \in Job : TimerRequeues(j) \/ TimerFindsFull(j)
           \/ \E d \in Dispatcher : Receive(d) \/ Leave(d)
           \/ \E d \in Dispatcher, g \in Goroutine : Spawn(d, g)
           \/ \E g \in Goroutine : Finish(g)
           \/ Signalled \/ CancelContext \/ PoolWaited \/ Boot \/ UNCHANGED vars
           \/ ProcessEnds
    PROVE  Column'
<1>1. Custody /\ row \in [File -> Row]
  BY DEF LifeInv, StoreTypes
<1>2. CountsStay
  <2>1. row' = row
    BY DEF EnqueueUpload, TimerRequeues, TimerFindsFull, Receive, Leave, Spawn, Finish, Signalled,
           CancelContext, PoolWaited, Boot, ProcessEnds, vars, procVars, storeVars
  <2> QED BY <2>1 DEF CountsStay, Exists
<1>3. \A x \in File : Fresh(x)' => Fresh(x)
  BY <1>1 DEF EnqueueUpload, TimerRequeues, TimerFindsFull, Receive, Leave, Spawn, Finish,
         Signalled, CancelContext, PoolWaited, Boot, ProcessEnds, vars, reqVars, UploadGoes, Fresh,
         Custody, CarrierTypes
<1>4. SUFFICES \A j \in Current' :
                  j \in Current \/ (j.file \in File /\ Fresh(j.file) /\ j.retry = 0)
  BY <1>1, <1>2, <1>3, ColumnStays
<1>5. DOMAIN queue = Queued /\ DOMAIN queue' = Queued'
  BY <1>1 DEF Custody, CarrierTypes, Queued
<1>6. CASE \/ \E x \in File : EnqueueUpload(x) /\ Pool!Enqueue(FirstJob(x))
           \/ \E j \in Job : TimerRequeues(j)
  <2>1. PICK j \in Job : /\ queue' = Append(queue, j)
                         /\ j \in timers \/ (Fresh(j.file) /\ j.retry = 0)
    <3>1. \A x \in File : FirstJob(x) \in Job /\ FirstJob(x).file = x /\ FirstJob(x).retry = 0
      BY ProcessorAssumption DEF FirstJob, Job
    <3> QED BY <1>6, <3>1 DEF EnqueueUpload, TimerRequeues, Pool!Enqueue, Fresh
  <2>2. UNCHANGED <<hold, run, pc>> /\ timers' \subseteq timers
    BY <1>6 DEF EnqueueUpload, TimerRequeues, Pool!Enqueue, procVars
  <2>3. \A i \in Queued' : (i \in Queued /\ queue'[i] = queue[i]) \/ queue'[i] = j
    BY <1>1, <2>1, AppendGrows DEF Custody, CarrierTypes, GrowsBy
  <2>4. Busy' = Busy
    BY <2>2 DEF Busy, Working
  <2>5. j.file \in File
    BY <2>1 DEF Job
  <2> QED BY <1>5, <2>1, <2>2, <2>3, <2>4, <2>5 DEF Current, Waiting
<1>7. CASE \E d \in Dispatcher : Receive(d)
  <2>1. PICK d \in Dispatcher : /\ queue # <<>> /\ queue' = Tail(queue)
                                /\ hold' = [hold EXCEPT ![d] = Head(queue)]
                                /\ UNCHANGED <<run, pc, timers>>
    BY <1>7 DEF Receive, Pool!Receive, procVars
  <2>2. /\ 1 \in Queued /\ Head(queue) = queue[1]
        /\ \A i \in Queued' : i + 1 \in Queued /\ queue'[i] = queue[i + 1]
    BY <1>1, <2>1 DEF Queued, Custody, CarrierTypes
  <2>3. \A e \in Dispatcher : hold'[e] = hold[e] \/ hold'[e] = queue[1]
    BY <1>1, <2>1, <2>2 DEF Custody, CarrierTypes
  <2>4. Busy' = Busy
    BY <2>1 DEF Busy, Working
  <2> QED BY <1>5, <2>1, <2>2, <2>3, <2>4 DEF Current, Waiting
<1>8. CASE \E d \in Dispatcher, g \in Goroutine : Spawn(d, g)
  <2>1. PICK d \in Dispatcher, g \in Goroutine :
               /\ hold[d] # None
               /\ run' = [run EXCEPT ![g] = hold[d]]
               /\ hold' = [hold EXCEPT ![d] = None]
               /\ pc' = [pc EXCEPT ![g] = "begin"]
               /\ UNCHANGED <<queue, timers>>
    BY <1>8 DEF Spawn, Pool!Spawn, Pool!AtAcquire, Goto
  <2>2. \A h \in Busy' : \/ h \in Busy /\ run'[h] = run[h] /\ pc'[h] = pc[h]
                         \/ run'[h] = hold[d] /\ pc'[h] = "begin"
    BY <1>1, <2>1 DEF Busy, Working, Custody, CarrierTypes
  <2>3. \A e \in Dispatcher : hold'[e] # None => hold'[e] = hold[e]
    BY <1>1, <2>1 DEF Custody, CarrierTypes
  <2> QED BY <1>5, <2>1, <2>2, <2>3 DEF Current, Waiting
<1>9. CASE \/ \E x \in File : EnqueueUpload(x) /\ UNCHANGED poolVars
           \/ \E j \in Job : TimerFindsFull(j)
           \/ \E d \in Dispatcher : Leave(d)
           \/ \E g \in Goroutine : Finish(g)
           \/ Signalled \/ CancelContext \/ PoolWaited \/ Boot \/ UNCHANGED vars
  <2>1. /\ queue' = queue /\ timers' \subseteq timers
        /\ \A d \in Dispatcher : hold'[d] # None => hold'[d] = hold[d]
        /\ \A g \in Goroutine : run'[g] # None => run'[g] = run[g] /\ pc'[g] = pc[g]
    BY <1>1, <1>9 DEF Custody, CarrierTypes, EnqueueUpload, TimerFindsFull, Leave, Pool!Exit,
                Pool!Abandon, Finish, Pool!Finish, Signalled, CancelContext, PoolWaited, Boot,
                Pool!Close, Pool!Cancel, Goto, vars, poolVars, procVars, storeVars
  <2>2. \A g \in Busy' : g \in Busy /\ run'[g] = run[g] /\ pc'[g] = pc[g]
    BY <2>1 DEF Busy, Working
  <2> QED BY <2>1, <2>2 DEF Current, Waiting
<1>10. CASE ProcessEnds
  <2>1. DOMAIN queue' = {} /\ timers' = {} /\ Busy' = {}
        /\ \A d \in Dispatcher : hold'[d] = None
    BY <1>10 DEF ProcessEnds, Pool!Restart, Busy, Working, Dispatcher
  <2> QED BY <2>1 DEF Current, Waiting
<1> QED BY <1>6, <1>7, <1>8, <1>9, <1>10 DEF EnqueueUpload

\* A statement keeps its goroutine's job in step with the row; the one that
\* counts leaves the job one behind, and the retry catches up.
LEMMA WorkKeepsColumn ==
    ASSUME "db" \notin Fault, "reply" \notin Fault, LifeInv, Column, Custody',
           NEW g \in Busy, Work(g, run[g]), UNCHANGED <<poolVars, reqVars, stage>>
    PROVE  Column'
<1>1. /\ Custody /\ row \in [File -> Row]
      /\ g \in Goroutine /\ run[g] \in Job
      /\ pc \in [Goroutine -> Label]
  BY OnlyWorker DEF LifeInv, StoreTypes, Custody, CarrierTypes
<1>2. PICK f \in File : run[g].file = f
  BY <1>1, OnlyWorker
<1>3. UNCHANGED <<queue, hold, run, upload>>
  BY DEF poolVars, reqVars
<1>4. /\ \A h \in Goroutine \ {g} : pc'[h] = pc[h]
      /\ timers' \subseteq timers \cup {Retried(run[g])}
      /\ pc[g] # "after" => timers' = timers
  BY <1>1, WorkerMoves
<1>5. \A h \in Busy' : h \in Busy /\ run'[h] = run[h]
  BY <1>3, <1>4 DEF Busy, Working
<1>6. \A x \in File : Fresh(x)' => Fresh(x)
  BY <1>3 DEF Fresh
<1>7. CASE CountRetry(g, run[g])
  <2>1. /\ row' = CountedRow(f) /\ timers' = timers
        /\ pc[g] = "count" /\ pc'[g] = "after"
    BY <1>1, <1>2, <1>7 DEF CountRetry, Attempt, Goto
  <2>2. /\ \A x \in File \ {f} : row'[x] = row[x]
        /\ Exists(f) => row'[f].retries = row[f].retries + 1
        /\ Exists(f)' => Exists(f)
    BY <1>1, <2>1, CountSteps
  <2>3. /\ upload[f] = "accepted"
        /\ \A i \in Queued : queue[i].file # f
        /\ \A d \in Holding : hold[d].file # f
        /\ \A j \in timers : j.file # f
        /\ \A h \in Busy : run[h].file = f => h = g
    BY <1>1, <1>2, OnlyWorker
  <2>4. Tallied(run[g]) /\ run[g].retry \in Nat
    BY <1>1, <2>1, CurrentMembers DEF Column, Attempting, Job
  <2>5. /\ Retried(run[g]).file = f
        /\ Retried(run[g]).retry = run[g].retry + 1
    BY <1>1, <1>2 DEF Retried, Job
  <2>6. \A j \in Current' : j = Retried(run[g]) \/ (j \in Current /\ j.file # f)
    <3>1. DOMAIN queue' = Queued
      BY <1>1, <1>3 DEF Custody, CarrierTypes, Queued
    <3>2. \A h \in Busy : h = g \/ (run[h].file # f /\ Retried(run[h]).file # f /\ pc'[h] = pc[h])
      BY <1>1, <1>4, <2>3 DEF Retried, Custody, CarrierTypes, Busy, Working, Job
    <3>3. \A h \in Busy' : (h = g /\ pc'[h] = "after") \/ pc'[h] = pc[h]
      BY <1>5, <2>1, <3>2
    <3>4. {queue'[i] : i \in DOMAIN queue'} = {queue[i] : i \in Queued}
      BY <1>3, <3>1
    <3> QED
      BY <1>3, <1>5, <2>1, <2>3, <3>1, <3>2, <3>3 DEF Current, Waiting, Attempting, Holding
  <2>7. \A x \in File : Fresh(x)' => row'[x].retries = 0
    BY <1>6, <2>2, <2>3 DEF Column, Fresh
  <2>8. ASSUME NEW j \in Current' PROVE Tallied(j)'
    <3>1. CASE j = Retried(run[g])
      BY <1>2, <2>2, <2>4, <2>5, <3>1 DEF Tallied
    <3>2. CASE j \in Current /\ j.file # f
      BY <1>1, <2>2, <3>2, CurrentMembers DEF Column, Tallied, Exists
    <3> QED BY <2>6, <2>8, <3>1, <3>2
  <2> QED BY <2>7, <2>8 DEF Column
<1>8. CASE ~CountRetry(g, run[g])
  <2>1. CountsStay
    <3>1. \/ row' = row \/ row' = WithStatus(f, "processing") \/ row' = DoneRow(f)
          \/ row' = WithStatus(f, "error")
      BY <1>2, <1>8 DEF Work, Begin, ProcessFile, PutFile, RemoveTmp, UpdateDone, NotifyDone,
         SendMail, Bury, UpdateError, NotifyError, ScheduleRetry, Attempt, ErrorRow, storeVars
    <3> QED BY <1>1, <3>1, CountSteps
  <2>2. /\ pc'[g] \in Attempting => pc[g] \in Attempting
        /\ pc'[g] # "after"
    BY <1>1, <1>8 DEF Work, Begin, ProcessFile, PutFile, RemoveTmp, UpdateDone, NotifyDone,
       SendMail, Bury, UpdateError, NotifyError, ScheduleRetry, Goto, Fails, Attempting
  <2>3. timers' \subseteq Current
    BY <1>1, <1>4, CurrentMembers
  <2>4. \A h \in Busy' : /\ pc'[h] \in Attempting => pc[h] \in Attempting
                         /\ pc'[h] = "after" => pc[h] = "after"
    BY <1>4, <1>5, <2>2 DEF Busy
  <2>5. Current' \subseteq Current
    BY <1>3, <1>5, <2>3, <2>4 DEF Current, Waiting
  <2> QED BY <1>1, <1>6, <2>1, <2>5, ColumnStays
<1> QED BY <1>7, <1>8

\* The row's retry count and that of the job on its way agree between two
\* attempts, for every interleaving of requests, attempts and restarts, if the
\* database answers (processor.go:73, 86; job_queue.go:20).
THEOREM CountsAgree ==
    ASSUME "db" \notin Fault, "reply" \notin Fault PROVE Spec => []RetryColumnAgrees
<1>1. Init => Column
  <2> SUFFICES ASSUME Init PROVE Column
    OBVIOUS
  <2>1. \A f \in File : row[f].retries = 0
    BY DEF Init, ProcInit
  <2>2. Current = {}
    BY DEF Init, ProcInit, Pool!Init, Current, Waiting, Busy, Working, Dispatcher
  <2> QED BY <2>1, <2>2 DEF Column
<1>2. LifeInv /\ LifeInv' /\ Column /\ [Next]_vars => Column'
  <2> SUFFICES ASSUME LifeInv, LifeInv', Column, [Next]_vars PROVE Column'
    OBVIOUS
  <2>1. Custody'
    BY DEF LifeInv
  <2>2. ASSUME NEW g \in Goroutine, GoroutineWorks(g) PROVE Column'
    <3>1. /\ run[g] # None /\ Work(g, run[g])
          /\ UNCHANGED <<poolVars, reqVars, stage>>
      BY <2>2 DEF GoroutineWorks
    <3>2. g \in Busy
      BY <3>1 DEF Busy, Working, Work, Begin, ProcessFile, PutFile, RemoveTmp, UpdateDone,
                  NotifyDone, SendMail, Bury, UpdateError, NotifyError, CountRetry, ScheduleRetry
    <3> QED BY <2>1, <3>1, <3>2, WorkKeepsColumn
  <2>3. CASE ShutDown \/ Crash \/ \E j \in Job : TimerPanics(j)
    <3>1. ProcessEnds
      BY <2>3 DEF ShutDown, Crash, TimerPanics
    <3> QED BY <2>1, <3>1, HandlingKeepsColumn
  <2>4. ASSUME NEW f \in File,
               \/ SaveUpload(f) \/ CreateRow(f) \/ DeleteReads(f)
               \/ DeleteObject(f) \/ DeleteRow(f)
        PROVE  Column'
    BY <2>4, RequestKeepsColumn
  <2>5. CASE \/ \E x \in File : EnqueueUpload(x)
             \/ \E j \in Job : TimerRequeues(j) \/ TimerFindsFull(j)
             \/ \E d \in Dispatcher : Receive(d) \/ Leave(d)
             \/ \E d \in Dispatcher, g \in Goroutine : Spawn(d, g)
             \/ \E g \in Goroutine : Finish(g)
             \/ Signalled \/ CancelContext \/ PoolWaited \/ Boot \/ UNCHANGED vars
    BY <2>1, <2>5, HandlingKeepsColumn
  <2> QED BY <2>2, <2>3, <2>4, <2>5 DEF Next, TimerFires
<1>3. Column => RetryColumnAgrees
  BY DEF Column, Current, Tallied, RetryColumnAgrees
<1> QED BY <1>1, <1>2, <1>3, LifeHolds, PTL DEF Spec

-----------------------------------------------------------------------------
(* No unsettled file is forgotten. *)

\* The faults the code answers with a retry or a dead letter.
AnsweredFaults == {"store", "disk", "process"}

Carried(f) ==
    \/ upload[f] = "created"
    \/ \E i \in Queued : queue[i].file = f
    \/ \E d \in Holding : hold[d].file = f
    \/ \E g \in Busy : run[g].file = f
    \/ \E j \in timers : j.file = f

Unsettled(f) == row[f].status \in {"pending", "processing"}

Followed(f) == Unsettled(f) => Carried(f) \/ upload[f] = "busy" \/ dead[f] # <<>>

\* The carriers of f live on.
Remains(f) == Carried(f) => Carried(f)'

\* Nothing happens to f, or it is given up for good.
LEMMA RemainsFollowed ==
    ASSUME NEW f \in File, Followed(f),
           Unsettled(f)' => Unsettled(f),
           dead[f] # <<>> => dead'[f] # <<>>,
           upload[f] = "busy" => upload'[f] = "busy",
           Remains(f) \/ upload'[f] = "busy" \/ dead'[f] # <<>> \/ ~Unsettled(f)'
    PROVE  Followed(f)'
BY DEF Followed, Remains

\* A dead letter stays, and one more is one.
LEMMA BuriedStays ==
    ASSUME StoreTypes, "db" \notin Fault, NEW f \in File, NEW x \in File, NEW n, Buried(x, n)
    PROVE  /\ dead'[x] # <<>>
           /\ dead[f] # <<>> => dead'[f] # <<>>
<1>1. dead' = [dead EXCEPT ![x] = Append(@, n)] /\ dead \in [File -> Seq(1..MaxRetries)]
  BY DEF Buried, StoreTypes
<1>2. dead'[x] = Append(dead[x], n) /\ dead[x] \in Seq(1..MaxRetries)
  BY <1>1
<1>3. \A s \in Seq(1..MaxRetries) : Append(s, n) # <<>>
  OBVIOUS
<1> QED BY <1>1, <1>2, <1>3

LEMMA RequestKeepsFollowed ==
    ASSUME Fault \subseteq AnsweredFaults, LifeInv, NEW f \in File, Followed(f),
           NEW x \in File,
           \/ SaveUpload(x) \/ CreateRow(x) \/ DeleteReads(x)
           \/ DeleteObject(x) \/ DeleteRow(x)
    PROVE  Followed(f)'
<1>1. /\ UNCHANGED <<queue, hold, run, pc, timers, dead>>
      /\ row \in [File -> Row] /\ upload \in [File -> UploadState]
  BY DEF SaveUpload, CreateRow, DeleteReads, DeleteObject, DeleteRow, procVars, poolVars,
         LifeInv, StoreTypes, Custody, CarrierTypes
<1>2. upload[f] \in {"created", "busy"} => upload'[f] = upload[f]
  BY <1>1 DEF SaveUpload, CreateRow, DeleteReads, DeleteObject, DeleteRow, UploadGoes
<1>3. Remains(f)
  BY <1>1, <1>2 DEF Remains, Carried, Queued, Holding, Busy, Working
<1>4. CASE CreateRow(x) /\ x = f
  <2>1. upload'[f] = "created"
    BY <1>1, <1>4 DEF CreateRow, UploadGoes, AnsweredFaults
  <2> QED BY <2>1 DEF Followed, Carried
<1>5. CASE ~(CreateRow(x) /\ x = f)
  <2>1. \/ row' = row \/ row' = WithStatus(x, "deleted")
        \/ row' = [row EXCEPT ![x].status = "pending"] /\ x # f
    BY <1>5 DEF SaveUpload, CreateRow, DeleteReads, DeleteObject, DeleteRow, Attempt, procVars
  <2>2. Unsettled(f)' => Unsettled(f)
    <3>1. CASE x # f
      BY <1>1, <2>1, <3>1, RowSteps DEF RowStep, Unsettled
    <3>2. CASE x = f
      <4>1. \/ RowStep(f, row[f].status, row[f].path)
            \/ RowStep(f, IF Exists(f) THEN "deleted" ELSE row[f].status, row[f].path)
        BY <1>1, <2>1, <3>2, RowSteps
      <4> QED BY <4>1 DEF RowStep, Unsettled
    <3> QED BY <3>1, <3>2
  <2> QED BY <1>1, <1>2, <1>3, <2>2, RemainsFollowed
<1> QED BY <1>4, <1>5

LEMMA HandlingKeepsFollowed ==
    ASSUME Fault \subseteq AnsweredFaults, LifeInv, Serving, NEW f \in File, Followed(f),
           \/ \E x \in File : EnqueueUpload(x)
           \/ \E j \in Job : TimerRequeues(j) \/ TimerFindsFull(j)
           \/ \E d \in Dispatcher : Receive(d) \/ Leave(d)
           \/ \E d \in Dispatcher, g \in Goroutine : Spawn(d, g)
           \/ \E g \in Goroutine : Finish(g)
           \/ PoolWaited \/ Boot \/ UNCHANGED vars
    PROVE  Followed(f)'
<1>1. /\ row' = row
      /\ StoreTypes /\ Custody /\ queue \in Seq(Job)
      /\ hold \in [Dispatcher -> Job \cup {None}]
      /\ run \in [Goroutine -> Job \cup {None}]
      /\ upload \in [File -> UploadState]
      /\ pc \in [Goroutine -> Label]
  BY DEF EnqueueUpload, TimerRequeues, TimerFindsFull, Receive, Leave, Spawn, Finish,
         PoolWaited, Boot, vars, procVars, storeVars, LifeInv, Custody, CarrierTypes
<1>2. Unsettled(f)' => Unsettled(f)
  BY <1>1 DEF Unsettled
<1>3. CASE \/ \E x \in File : EnqueueUpload(x) /\ Pool!Enqueue(FirstJob(x))
           \/ \E j \in Job : TimerRequeues(j)
  <2>1. PICK j \in Job : /\ queue' = Append(queue, j)
                         /\ timers' = timers \/ timers' = timers \ {j}
                         /\ \A x \in File : upload'[x] = upload[x] \/ x = j.file
                         /\ upload[j.file] \in {"created", "accepted"}
    <3>1. \A x \in File : FirstJob(x) \in Job /\ FirstJob(x).file = x
      BY ProcessorAssumption DEF FirstJob, Job
    <3>2. CASE \E x \in File : EnqueueUpload(x) /\ Pool!Enqueue(FirstJob(x))
      BY <1>1, <3>1, <3>2 DEF EnqueueUpload, Pool!Enqueue, UploadGoes, procVars, poolVars
    <3>3. CASE \E j \in Job : TimerRequeues(j)
      BY <1>1, <3>3 DEF TimerRequeues, Pool!Enqueue, reqVars, Custody, Accepted
    <3> QED BY <1>3, <3>2, <3>3
  <2>2. UNCHANGED <<hold, run, pc, dead>>
    BY <1>3 DEF EnqueueUpload, TimerRequeues, Pool!Enqueue, procVars, storeVars
  <2>3. /\ \A i \in Queued : i \in Queued' /\ queue'[i] = queue[i]
        /\ Len(queue) + 1 \in Queued' /\ queue'[Len(queue) + 1] = j
    BY <1>1, <2>1 DEF Queued
  <2>4. Holding' = Holding /\ Busy' = Busy
    BY <2>2 DEF Holding, Busy, Working
  <2>5. Remains(f)
    BY <2>1, <2>2, <2>3, <2>4 DEF Remains, Carried
  <2>6. upload[f] = "busy" => upload'[f] = "busy"
    BY <2>1
  <2> QED BY <1>2, <2>2, <2>5, <2>6, RemainsFollowed
<1>4. ASSUME NEW x \in File, EnqueueUpload(x), UNCHANGED poolVars PROVE Followed(f)'
  <2>1. /\ UNCHANGED <<queue, hold, run, pc, timers, dead>>
        /\ upload[x] = "created" /\ upload' = [upload EXCEPT ![x] = "busy"]
    <3>1. UNCHANGED <<queue, hold, run, pc, timers, dead>> /\ upload[x] = "created"
      BY <1>4 DEF EnqueueUpload, procVars, poolVars
    <3>2. ~Pool!Enqueue(FirstJob(x))
      <4>1. queue \in Seq(Job) /\ queue' = queue
        BY <1>1, <3>1
      <4>2. Append(queue, FirstJob(x)) # queue
        <5>1. Len(Append(queue, FirstJob(x))) = Len(queue) + 1 /\ Len(queue) \in Nat
          BY <4>1
        <5> QED BY <5>1
      <4> QED BY <4>1, <4>2 DEF Pool!Enqueue
    <3> QED BY <1>4, <3>1, <3>2 DEF EnqueueUpload, UploadGoes, Serving
  <2>2. /\ upload[f] = "busy" => upload'[f] = "busy"
        /\ Remains(f) \/ upload'[f] = "busy"
    BY <1>1, <2>1 DEF Remains, Carried, Queued, Holding, Busy, Working
  <2> QED BY <1>2, <2>1, <2>2, RemainsFollowed
<1>5. ASSUME NEW d \in Dispatcher, Receive(d) PROVE Followed(f)'
  <2>1. /\ queue # <<>> /\ queue' = Tail(queue)
        /\ hold[d] = None
        /\ hold' = [hold EXCEPT ![d] = Head(queue)]
        /\ UNCHANGED <<run, pc, timers, upload, dead>>
    BY <1>5 DEF Receive, Pool!Receive, Pool!AtReceive, procVars, reqVars
  <2>2. /\ Head(queue) = queue[1] /\ queue[1] \in Job
        /\ \A i \in Queued : i = 1 \/ (i - 1 \in Queued' /\ queue'[i - 1] = queue[i])
    BY <1>1, <2>1 DEF Queued
  <2>3. /\ \A e \in Holding : e \in Holding' /\ hold'[e] = hold[e]
        /\ d \in Holding' /\ hold'[d] = queue[1]
    BY <1>1, <2>1, <2>2, ServiceAssumption DEF Holding
  <2>4. Busy' = Busy
    BY <2>1 DEF Busy, Working
  <2>5. Remains(f)
    <3>1. ASSUME NEW i \in Queued, queue[i].file = f PROVE Carried(f)'
      <4>1. CASE i = 1
        BY <2>3, <3>1, <4>1 DEF Carried
      <4>2. CASE i # 1
        <5>1. i - 1 \in Queued' /\ queue'[i - 1].file = f
          BY <2>2, <3>1, <4>2
        <5> QED BY <5>1 DEF Carried
      <4> QED BY <4>1, <4>2
    <3>2. ASSUME Carried(f), \A i \in Queued : queue[i].file # f PROVE Carried(f)'
      BY <2>1, <2>3, <2>4, <3>2 DEF Carried
    <3> QED BY <3>1, <3>2 DEF Remains
  <2> QED BY <1>2, <2>1, <2>5, RemainsFollowed
<1>6. ASSUME NEW d \in Dispatcher, NEW g \in Goroutine, Spawn(d, g) PROVE Followed(f)'
  <2>1. /\ hold[d] # None /\ run[g] = None
        /\ run' = [run EXCEPT ![g] = hold[d]]
        /\ hold' = [hold EXCEPT ![d] = None]
        /\ pc' = [pc EXCEPT ![g] = "begin"]
        /\ UNCHANGED <<queue, timers, upload, dead>>
    BY <1>6 DEF Spawn, Pool!Spawn, Pool!AtAcquire, Goto, reqVars, storeVars
  <2>2. /\ Queued' = Queued
        /\ \A e \in Holding : e = d \/ (e \in Holding' /\ hold'[e] = hold[e])
    BY <1>1, <2>1 DEF Queued, Holding
  <2>3. /\ g \in Busy' /\ run'[g] = hold[d]
        /\ \A h \in Busy : h \in Busy' /\ run'[h] = run[h]
    BY <1>1, <2>1 DEF Busy, Working
  <2>4. Remains(f)
    BY <2>1, <2>2, <2>3 DEF Remains, Carried
  <2> QED BY <1>2, <2>1, <2>4, RemainsFollowed
<1>7. ASSUME NEW j \in Job, TimerFindsFull(j) PROVE Followed(f)'
  <2>1. /\ UNCHANGED <<queue, hold, run, pc, upload>>
        /\ timers' = timers \ {j} /\ Buried(j.file, j.retry) /\ j.file \in File
    BY <1>7 DEF TimerFindsFull, poolVars, reqVars, Job
  <2>2. /\ dead'[j.file] # <<>>
        /\ dead[f] # <<>> => dead'[f] # <<>>
    BY <1>1, <2>1, BuriedStays DEF AnsweredFaults
  <2>3. Remains(f) \/ f = j.file
    BY <2>1 DEF Remains, Carried, Queued, Holding, Busy, Working
  <2> QED BY <1>2, <2>1, <2>2, <2>3, RemainsFollowed
<1>8. CASE \/ \E d \in Dispatcher : Leave(d)
           \/ \E g \in Goroutine : Finish(g)
           \/ PoolWaited \/ Boot \/ UNCHANGED vars
  <2>1. /\ UNCHANGED <<queue, timers, upload, dead>>
        /\ \A d \in Dispatcher : hold'[d] = hold[d]
        /\ \A g \in Goroutine : run[g] # None /\ pc[g] # "exit" =>
                                   run'[g] = run[g] /\ pc'[g] = pc[g]
    BY <1>1, <1>8 DEF Leave, Pool!Exit, Pool!Abandon, Serving, Finish, Pool!Finish, PoolWaited,
                Boot, Goto, vars, poolVars, procVars, storeVars, reqVars
  <2>2. /\ Queued' = Queued /\ Holding' = Holding
        /\ \A d \in Holding : hold'[d] = hold[d]
        /\ \A g \in Busy : g \in Busy' /\ run'[g] = run[g]
    BY <2>1 DEF Queued, Holding, Busy, Working
  <2>3. Remains(f)
    BY <2>1, <2>2 DEF Remains, Carried
  <2> QED BY <1>2, <2>1, <2>3, RemainsFollowed
<1> QED BY <1>3, <1>4, <1>5, <1>6, <1>7, <1>8 DEF EnqueueUpload

\* A goroutine lets go of its file when the file is settled, buried or on a timer.
LEMMA WorkKeepsFollowed ==
    ASSUME Fault \subseteq AnsweredFaults, LifeInv, NEW f \in File, Followed(f),
           NEW g \in Busy, Work(g, run[g]), UNCHANGED <<poolVars, reqVars, stage>>
    PROVE  Followed(f)'
<1>1. /\ StoreTypes /\ Custody /\ row \in [File -> Row] /\ Placed(f) /\ Honest(f)
      /\ g \in Goroutine /\ run[g] \in Job /\ run[g].file \in File
      /\ pc \in [Goroutine -> Label]
      /\ "db" \notin Fault /\ "reply" \notin Fault /\ "panic" \notin Fault
  BY OnlyWorker DEF LifeInv, Story, StoreTypes, Custody, CarrierTypes, AnsweredFaults
<1>2. UNCHANGED <<queue, hold, run, upload>>
  BY DEF poolVars, reqVars
<1>3. /\ \A h \in Goroutine \ {g} : pc'[h] = pc[h]
      /\ pc[g] # "exit"
  BY <1>1, WorkerMoves
<1>4. timers' = timers \/ timers' = timers \cup {Retried(run[g])}
  BY DEF Work, Begin, ProcessFile, PutFile, RemoveTmp, UpdateDone, NotifyDone, SendMail,
         Bury, UpdateError, NotifyError, CountRetry, ScheduleRetry
<1>5. PICK x \in File : run[g].file = x
  BY <1>1
<1>6. Unsettled(f)' => Unsettled(f)
  <2>1. CASE Begin(g, run[g])
    <3>1. row' = row \/ (row' = WithStatus(x, "processing") /\ Exists(x) /\ ~Settled(x))
      BY <1>5, <2>1 DEF Begin
    <3>2. CASE row' = WithStatus(x, "processing") /\ Exists(x) /\ ~Settled(x) /\ x = f
      BY <1>1, <3>2 DEF Exists, Settled, Unsettled, Row, Status
    <3>3. CASE row' = WithStatus(x, "processing") /\ x # f
      BY <1>1, <3>3, RowSteps DEF RowStep, Unsettled
    <3> QED BY <3>1, <3>2, <3>3 DEF Unsettled
  <2>2. CASE ~Begin(g, run[g])
    <3>1. \/ row' = row \/ row' = ErrorRow(x) \/ row' = DoneRow(x) \/ row' = CountedRow(x)
      BY <1>5, <2>2 DEF Work, ProcessFile, PutFile, RemoveTmp, UpdateDone, NotifyDone, SendMail,
         Bury, UpdateError, NotifyError, CountRetry, ScheduleRetry, Attempt, storeVars
    <3>2. \/ RowStep(x, row[x].status, row[x].path)
          \/ \E s \in {"done", "error"}, p \in BOOLEAN :
                RowStep(x, IF Exists(x) THEN s ELSE row[x].status, p)
      <4>1. row[x].path \in BOOLEAN
        BY <1>1 DEF Row
      <4>2. /\ row' = row \/ row' = CountedRow(x) => RowStep(x, row[x].status, row[x].path)
            /\ row' = ErrorRow(x)
                 => RowStep(x, IF Exists(x) THEN "error" ELSE row[x].status, row[x].path)
            /\ row' = DoneRow(x)
                 => RowStep(x, IF Exists(x) THEN "done" ELSE row[x].status,
                               IF Exists(x) THEN TRUE ELSE row[x].path)
        BY <1>1, RowSteps
      <4> QED BY <3>1, <4>1, <4>2
    <3>3. CASE x # f
      BY <3>2, <3>3 DEF RowStep, Unsettled
    <3>4. CASE x = f
      BY <3>2, <3>4 DEF RowStep, Unsettled
    <3> QED BY <3>3, <3>4
  <2> QED BY <2>1, <2>2
<1>7. dead[f] # <<>> => dead'[f] # <<>>
  <2>1. CASE Bury(g, run[g])
    <3>1. Buried(run[g].file, run[g].retry + 1)
      BY <2>1 DEF Bury
    <3> QED BY <1>1, <3>1, BuriedStays
  <2>2. CASE ~Bury(g, run[g])
    BY <2>2 DEF Work, Begin, ProcessFile, PutFile, RemoveTmp, UpdateDone, NotifyDone, SendMail,
       UpdateError, NotifyError, CountRetry, ScheduleRetry, storeVars
  <2> QED BY <2>1, <2>2
<1>8. upload[f] = "busy" => upload'[f] = "busy"
  BY <1>2
<1>9. CASE pc'[g] # "exit" \/ x # f
  <2>1. \A h \in Busy : h = g \/ (h \in Busy' /\ run'[h] = run[h])
    BY <1>2, <1>3 DEF Busy, Working
  <2>2. pc'[g] # "exit" => g \in Busy' /\ run'[g] = run[g]
    BY <1>2 DEF Busy, Working
  <2>3. Queued' = Queued /\ Holding' = Holding /\ timers \subseteq timers'
    BY <1>2, <1>4 DEF Queued, Holding
  <2>4. Remains(f)
    BY <1>2, <1>5, <1>9, <2>1, <2>2, <2>3 DEF Remains, Carried
  <2> QED BY <1>6, <1>7, <1>8, <2>4, RemainsFollowed
<1>10. CASE pc'[g] = "exit" /\ x = f
  <2>1. \/ Begin(g, run[g]) \/ SendMail(g, run[g]) \/ NotifyError(g, run[g])
        \/ ScheduleRetry(g, run[g])
    BY <1>1, <1>10 DEF Work, Begin, ProcessFile, PutFile, RemoveTmp, UpdateDone, NotifyDone,
       SendMail, Bury, UpdateError, NotifyError, CountRetry, ScheduleRetry, Goto, Fails
  <2>2. CASE ScheduleRetry(g, run[g])
    <3>1. Retried(run[g]).file = f /\ Retried(run[g]) \in timers'
      BY <1>1, <1>5, <1>10, <2>2 DEF ScheduleRetry, Retried, Job
    <3> QED BY <3>1 DEF Followed, Carried
  <2>3. CASE Begin(g, run[g])
    <3>1. Settled(f) /\ row' = row
      BY <1>1, <1>5, <1>10, <2>3 DEF Begin, Goto, Fails
    <3> QED BY <3>1 DEF Followed, Unsettled, Settled
  <2>4. CASE SendMail(g, run[g]) \/ NotifyError(g, run[g])
    <3>1. At(f, pc[g]) /\ row' = row
      BY <1>5, <1>10, <2>4 DEF At, SendMail, NotifyError
    <3>2. pc[g] \in {"mail", "nerr"}
      BY <2>4 DEF SendMail, NotifyError
    <3>3. Finished(f) \/ GivenUp(f)
      BY <1>1, <3>1, <3>2 DEF Placed, Honest
    <3> QED BY <3>1, <3>3 DEF Followed, Unsettled, Finished, GivenUp
  <2> QED BY <2>1, <2>2, <2>3, <2>4
<1> QED BY <1>9, <1>10

\* A file that is neither done nor in error is on its way, refused with 503, or
\* in the dead letters: with the failures the code answers, none is lost
\* (processor.go:73-93, deadletter.go:30-45, upload.go:139-144).
THEOREM FailureIsAnswered ==
    ASSUME Fault \subseteq AnsweredFaults PROVE Spec => []FailureIsRetriedOrKept
<1>1. /\ "reply" \notin Fault
      /\ Fault \subseteq LastingFaults
      /\ "crash" \notin Fault /\ "sigterm" \notin Fault
  BY DEF AnsweredFaults, LastingFaults
<1>2. Init => ObjectInv /\ \A f \in File : Followed(f)
  <2>1. Init => \A f \in File : row[f].status = "absent"
    BY DEF Init, ProcInit
  <2>2. Init => Serving
    BY DEF Init, Pool!Init, Serving
  <2> QED BY <2>1, <2>2 DEF ObjectInv, Downloadable, Followed, Unsettled
<1>3. LifeInv /\ ObjectInv /\ [Next]_vars => ObjectInv'
  BY <1>1, StepObject
<1>4. LifeInv /\ ObjectInv /\ (\A f \in File : Followed(f)) /\ [Next]_vars
        => (\A f \in File : Followed(f))'
  <2> SUFFICES ASSUME LifeInv, Serving, \A x \in File : Followed(x), [Next]_vars,
                      NEW f \in File
               PROVE  Followed(f)'
    BY DEF ObjectInv
  <2>1. ASSUME NEW g \in Goroutine, GoroutineWorks(g) PROVE Followed(f)'
    <3>1. /\ run[g] # None /\ Work(g, run[g])
          /\ UNCHANGED <<poolVars, reqVars, stage>>
      BY <2>1 DEF GoroutineWorks
    <3>2. g \in Busy
      BY <3>1 DEF Busy, Working, Work, Begin, ProcessFile, PutFile, RemoveTmp, UpdateDone,
                  NotifyDone, SendMail, Bury, UpdateError, NotifyError, CountRetry, ScheduleRetry
    <3> QED BY <3>1, <3>2, WorkKeepsFollowed
  <2>2. ASSUME NEW x \in File,
               \/ SaveUpload(x) \/ CreateRow(x) \/ DeleteReads(x)
               \/ DeleteObject(x) \/ DeleteRow(x)
        PROVE  Followed(f)'
    BY <2>2, RequestKeepsFollowed
  <2>3. CASE \/ \E x \in File : EnqueueUpload(x)
             \/ \E j \in Job : TimerRequeues(j) \/ TimerFindsFull(j)
             \/ \E d \in Dispatcher : Receive(d) \/ Leave(d)
             \/ \E d \in Dispatcher, g \in Goroutine : Spawn(d, g)
             \/ \E g \in Goroutine : Finish(g)
             \/ PoolWaited \/ Boot \/ UNCHANGED vars
    BY <2>3, HandlingKeepsFollowed
  <2>4. ~Signalled /\ ~CancelContext /\ ~ShutDown /\ ~Crash /\ \A j \in Job : ~TimerPanics(j)
    BY <1>1 DEF Serving, Signalled, CancelContext, ShutDown, Crash, TimerPanics
  <2> QED BY <2>1, <2>2, <2>3, <2>4 DEF Next, TimerFires
<1>5. LifeInv /\ (\A f \in File : Followed(f)) => FailureIsRetriedOrKept
  <2> SUFFICES ASSUME Custody, NEW f \in File, Followed(f), Unsettled(f)
               PROVE  Carriers(f) # {} \/ upload[f] = "busy" \/ dead[f] # <<>>
    BY DEF LifeInv, FailureIsRetriedOrKept, Unsettled
  <2>1. DOMAIN queue = Queued
    BY DEF Custody, CarrierTypes, Queued
  <2>2. Carried(f) => Carriers(f) # {}
    BY <2>1 DEF Carried, Carriers, Holding, Busy
  <2> QED BY <2>2 DEF Followed
<1> QED BY <1>1, <1>2, <1>3, <1>4, <1>5, LifeHolds, PTL DEF Spec
=============================================================================
