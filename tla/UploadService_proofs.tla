------------------------- MODULE UploadService_proofs -------------------------
(***************************************************************************)
(* Proofs about UploadService, for every set of files and goroutines, every *)
(* number of workers, queue size and maxRetries, and every set of faults.   *)
(***************************************************************************)
EXTENDS UploadService, TLAPS

-----------------------------------------------------------------------------
(* Custody: at most one carrier per file. SingleCarrier speaks of sets of   *)
(* carriers; the invariant below says the same pairwise, and adds that a    *)
(* file in the pipeline proper has an upload that was accepted, so that the *)
(* upload handler never enqueues a second job for it.                       *)

CarrierTypes ==
    /\ queue \in Seq(Job)
    /\ hold \in [Dispatcher -> Job \cup {None}]
    /\ run \in [Goroutine -> Job \cup {None}]
    /\ timers \subseteq Job
    /\ pc \in [Goroutine -> Label]
    /\ upload \in [File -> UploadState]

\* A goroutine that is about to retry has an attempt left, and a job that waits
\* on a timer has failed once.
RetryHasRoom ==
    /\ \A g \in Goroutine :
          pc[g] \in {"count", "after"} /\ run[g] # None => run[g].retry + 1 < MaxRetries
    /\ \A j \in timers : j.retry >= 1

Queued == 1..Len(queue)
Holding == {d \in Dispatcher : hold[d] # None}
Busy == {g \in Goroutine : Working(g)}

Accepted ==
    /\ \A i \in Queued : upload[queue[i].file] = "accepted"
    /\ \A d \in Holding : upload[hold[d].file] = "accepted"
    /\ \A g \in Busy : upload[run[g].file] = "accepted"
    /\ \A j \in timers : upload[j.file] = "accepted"

\* No two carriers of one kind.
Injective ==
    /\ \A i, k \in Queued : queue[i].file = queue[k].file => i = k
    /\ \A d, e \in Holding : hold[d].file = hold[e].file => d = e
    /\ \A g, h \in Busy : run[g].file = run[h].file => g = h
    /\ \A j, k \in timers : j.file = k.file => j = k

\* No two carriers of different kinds.
Disjoint ==
    /\ \A i \in Queued, d \in Holding : queue[i].file # hold[d].file
    /\ \A i \in Queued, g \in Busy : queue[i].file # run[g].file
    /\ \A i \in Queued, j \in timers : queue[i].file # j.file
    /\ \A d \in Holding, g \in Busy : hold[d].file # run[g].file
    /\ \A d \in Holding, j \in timers : hold[d].file # j.file
    /\ \A g \in Busy, j \in timers : run[g].file # j.file

Custody == CarrierTypes /\ RetryHasRoom /\ Accepted /\ Injective /\ Disjoint

\* The pairwise form implies the property.
LEMMA CustodyIsSingle == Custody => SingleCarrier
<1> SUFFICES ASSUME Custody, NEW f \in File,
                    NEW a \in Carriers(f), NEW b \in Carriers(f)
             PROVE  a = b
  BY DEF SingleCarrier
<1> DEFINE U(x) == x = <<"upload", f>> /\ upload[f] = "created"
           Q(x) == \E i \in Queued : x = <<"queue", i>> /\ queue[i].file = f
           H(x) == \E d \in Holding : x = <<"hold", d>> /\ hold[d].file = f
           R(x) == \E g \in Busy : x = <<"run", g>> /\ run[g].file = f
           T(x) == \E j \in timers : x = <<"timer", j>> /\ j.file = f
<1>1. ASSUME NEW x \in Carriers(f) PROVE U(x) \/ Q(x) \/ H(x) \/ R(x) \/ T(x)
  BY DEF Custody, CarrierTypes, Carriers, Queued, Holding, Busy
<1>2. (Q(a) => Q(b)) /\ (H(a) => H(b)) /\ (R(a) => R(b)) /\ (T(a) => T(b)) /\ (U(a) => U(b))
  BY <1>1 DEF Custody, Accepted, Disjoint
<1> QED
  BY <1>1, <1>2 DEF Custody, Injective

-----------------------------------------------------------------------------
(* Steps that move no job, or only drop some. *)

\* The queue and the timers may lose jobs, a dispatcher may let go of its job, a
\* goroutine may finish with it, and an accepted upload stays accepted.
Shrinks ==
    /\ CarrierTypes' /\ RetryHasRoom'
    /\ queue' = queue
    /\ \A d \in Dispatcher : hold'[d] # None => hold'[d] = hold[d]
    /\ \A g \in Goroutine : Working(g)' => Working(g) /\ run'[g] = run[g]
    /\ timers' \subseteq timers
    /\ \A f \in File : upload[f] = "accepted" => upload'[f] = "accepted"

LEMMA ShrinkPreserves == ASSUME Custody, Shrinks PROVE Custody'
<1>1. /\ Queued' = Queued
      /\ \A d \in Holding' : d \in Holding /\ hold'[d] = hold[d]
      /\ \A g \in Busy' : g \in Busy /\ run'[g] = run[g]
  BY DEF Shrinks, Queued, Holding, Busy
<1>2. /\ \A i \in Queued : queue[i].file \in File
      /\ \A d \in Holding : hold[d].file \in File
      /\ \A g \in Busy : run[g].file \in File
      /\ \A j \in timers : j.file \in File
  <2>1. \A j \in Job : j.file \in File
    BY DEF Job
  <2>2. \A i \in Queued : queue[i] \in Job
    BY DEF Custody, CarrierTypes, Queued
  <2> QED
    BY <2>1, <2>2 DEF Custody, CarrierTypes, Holding, Busy, Working
<1>3. Accepted'
  BY <1>1, <1>2 DEF Custody, Accepted, Shrinks
<1>4. Injective' /\ Disjoint'
  BY <1>1 DEF Custody, Injective, Disjoint, Shrinks
<1> QED BY <1>3, <1>4 DEF Custody, Shrinks

\* The statements of a goroutine that leave the timers alone.
LEMMA QuietWorkShrinks ==
    ASSUME Custody, NEW g \in Goroutine, run[g] # None,
           Work(g, run[g]), ~ScheduleRetry(g, run[g]),
           UNCHANGED <<poolVars, reqVars, stage>>
    PROVE  Shrinks
<1>1. timers' = timers
  BY DEF Work, Begin, ProcessFile, PutFile, RemoveTmp, UpdateDone, NotifyDone,
         SendMail, Bury, UpdateError, NotifyError, CountRetry
<1>2. pc[g] # "exit"
  BY DEF Work, Begin, ProcessFile, PutFile, RemoveTmp, UpdateDone, NotifyDone,
         SendMail, Bury, UpdateError, NotifyError, CountRetry
<1>3. PICK l \in Label : pc' = [pc EXCEPT ![g] = l]
                         /\ (l \in {"count", "after"} => run[g].retry + 1 < MaxRetries)
  <2>1. run[g].retry \in Nat /\ MaxRetries \in Nat
    BY ProcessorAssumption DEF Custody, CarrierTypes, Job
  <2> QED
    BY <2>1 DEF Work, Begin, ProcessFile, PutFile, RemoveTmp, UpdateDone, NotifyDone,
           SendMail, Bury, UpdateError, NotifyError, CountRetry, Goto, Fails, Label,
           Custody, RetryHasRoom
<1>4. CarrierTypes'
  BY <1>1, <1>3 DEF Custody, CarrierTypes, poolVars, reqVars
<1>5. RetryHasRoom'
  BY <1>1, <1>3 DEF Custody, CarrierTypes, RetryHasRoom, poolVars
<1>6. \A h \in Goroutine : Working(h)' => Working(h) /\ run'[h] = run[h]
  BY <1>2, <1>3 DEF Working, Custody, CarrierTypes, poolVars
<1> QED BY <1>1, <1>4, <1>5, <1>6 DEF Shrinks, poolVars, reqVars

\* Requests, dispatchers that leave, goroutines that return, timers that end in
\* the dead letters, and the life of the process.
LEMMA QuietStepShrinks ==
    ASSUME Custody,
           \/ \E f \in File : SaveUpload(f) \/ CreateRow(f) \/ DeleteReads(f)
                                \/ DeleteObject(f) \/ DeleteRow(f)
           \/ \E d \in Dispatcher : Leave(d)
           \/ \E g \in Goroutine : Finish(g)
           \/ \E j \in Job : TimerFindsFull(j)
           \/ Signalled \/ CancelContext \/ PoolWaited \/ Boot
           \/ UNCHANGED vars
    PROVE  Shrinks
<1>1. ASSUME NEW f \in File,
             SaveUpload(f) \/ CreateRow(f) \/ DeleteReads(f) \/ DeleteObject(f) \/ DeleteRow(f)
      PROVE  Shrinks
  <2>1. UNCHANGED <<poolVars, pc, timers>>
    BY <1>1 DEF SaveUpload, CreateRow, DeleteReads, DeleteObject, DeleteRow, procVars
  <2>2. upload' = upload \/ (upload[f] \in {"none", "saved"}
                             /\ \E s \in UploadState : upload' = [upload EXCEPT ![f] = s])
    BY <1>1 DEF SaveUpload, CreateRow, DeleteReads, DeleteObject, DeleteRow, UploadGoes, UploadState
  <2>3. upload' \in [File -> UploadState]
        /\ \A x \in File : upload[x] = "accepted" => upload'[x] = "accepted"
    BY <2>2 DEF Custody, CarrierTypes
  <2> QED
    BY <2>1, <2>3 DEF Shrinks, Custody, CarrierTypes, RetryHasRoom, Working, poolVars
<1>2. ASSUME NEW d \in Dispatcher, Leave(d) PROVE Shrinks
  <2>1. /\ UNCHANGED <<queue, run, timers, pc, upload>>
        /\ hold' = hold \/ hold' = [hold EXCEPT ![d] = None]
    BY <1>2 DEF Leave, Pool!Exit, Pool!Abandon, procVars, reqVars
  <2> QED
    BY <2>1 DEF Shrinks, Custody, CarrierTypes, RetryHasRoom, Working
<1>3. ASSUME NEW g \in Goroutine, Finish(g) PROVE Shrinks
  <2>1. /\ UNCHANGED <<queue, hold, timers, upload>>
        /\ run' = [run EXCEPT ![g] = None]
        /\ pc' = [pc EXCEPT ![g] = "idle"]
    BY <1>3 DEF Finish, Pool!Finish, Goto, reqVars
  <2> QED
    BY <2>1 DEF Shrinks, Custody, CarrierTypes, RetryHasRoom, Working, Label
<1>4. ASSUME NEW j \in Job, TimerFindsFull(j) PROVE Shrinks
  BY <1>4 DEF TimerFindsFull, poolVars, reqVars, Shrinks, Custody, CarrierTypes,
              RetryHasRoom, Working
<1>5. CASE Signalled \/ CancelContext \/ PoolWaited \/ Boot \/ UNCHANGED vars
  <2>1. UNCHANGED <<queue, hold, run, timers, pc, upload>>
    BY <1>5 DEF Signalled, CancelContext, PoolWaited, Boot, Pool!Close, Pool!Cancel,
                vars, procVars, poolVars, reqVars
  <2> QED
    BY <2>1 DEF Shrinks, Custody, CarrierTypes, RetryHasRoom, Working
<1> QED BY <1>1, <1>2, <1>3, <1>4, <1>5

-----------------------------------------------------------------------------
(* Steps that hand a job from one carrier to the next. *)

\* Appending a job keeps the places of the queue and adds one, the place n.
GrowsBy(j, n) ==
    /\ queue' \in Seq(Job)
    /\ \A i \in Queued' : (i \in Queued /\ queue'[i] = queue[i]) \/ (i = n /\ queue'[i] = j)

LEMMA AppendGrows ==
    ASSUME queue \in Seq(Job), NEW j \in Job, queue' = Append(queue, j)
    PROVE  GrowsBy(j, Len(queue) + 1)
<1>1. queue' \in Seq(Job) /\ Len(queue') = Len(queue) + 1 /\ Len(queue) \in Nat
  OBVIOUS
<1>2. ASSUME NEW i \in Queued'
      PROVE  (i \in Queued /\ queue'[i] = queue[i]) \/ (i = Len(queue) + 1 /\ queue'[i] = j)
  BY <1>1, <1>2 DEF Queued
<1> QED BY <1>1, <1>2 DEF GrowsBy

\* Appending a job of a file that nothing else carries.
LEMMA AppendPreserves ==
    ASSUME Custody, NEW j \in Job, NEW n, GrowsBy(j, n),
           UNCHANGED <<hold, run, pc>>,
           timers' = timers \ {j},
           upload' \in [File -> UploadState],
           upload'[j.file] = "accepted",
           \A f \in File \ {j.file} : upload'[f] = upload[f],
           \A i \in Queued : queue[i].file # j.file,
           \A d \in Holding : hold[d].file # j.file,
           \A g \in Busy : run[g].file # j.file,
           \A t \in timers : t.file = j.file => t = j
    PROVE  Custody'
<1>1. queue \in Seq(Job)
  BY DEF Custody, CarrierTypes
<1>2. queue' \in Seq(Job)
  BY DEF GrowsBy
<1>3. \A i \in Queued' : (i \in Queued /\ queue'[i] = queue[i]) \/ (i = n /\ queue'[i] = j)
  BY DEF GrowsBy
<1>4. Holding' = Holding /\ Busy' = Busy
  BY DEF Holding, Busy, Working
<1>5. CarrierTypes' /\ RetryHasRoom'
  BY <1>2 DEF Custody, CarrierTypes, RetryHasRoom
<1>6. /\ \A x \in Job : x.file \in File
      /\ \A i \in Queued : queue[i] \in Job
      /\ \A d \in Holding : hold[d] \in Job
      /\ \A g \in Busy : run[g] \in Job
      /\ timers \subseteq Job
  <2>1. \A i \in Queued : queue[i] \in Job
    BY <1>1 DEF Queued
  <2> QED
    BY <2>1 DEF Custody, CarrierTypes, Holding, Busy, Working, Job
<1>7. Accepted'
  <2>1. \A x \in Job : upload[x.file] = "accepted" => upload'[x.file] = "accepted"
    BY <1>6
  <2>2. \A i \in Queued' : upload'[queue'[i].file] = "accepted"
    BY <1>3, <1>6, <2>1 DEF Custody, Accepted
  <2>3. /\ \A d \in Holding' : upload'[hold'[d].file] = "accepted"
        /\ \A g \in Busy' : upload'[run'[g].file] = "accepted"
        /\ \A x \in timers' : upload'[x.file] = "accepted"
    BY <1>4, <1>6, <2>1 DEF Custody, Accepted
  <2> QED BY <2>2, <2>3 DEF Accepted
<1>8. Injective'
  <2>1. \A i, k \in Queued' : queue'[i].file = queue'[k].file => i = k
    BY <1>3 DEF Custody, Injective
  <2>2. /\ \A d, e \in Holding' : hold'[d].file = hold'[e].file => d = e
        /\ \A g, h \in Busy' : run'[g].file = run'[h].file => g = h
        /\ \A x, y \in timers' : x.file = y.file => x = y
    BY <1>4 DEF Custody, Injective
  <2> QED BY <2>1, <2>2 DEF Injective
<1>9. Disjoint'
  <2>1. /\ \A i \in Queued', d \in Holding' : queue'[i].file # hold'[d].file
        /\ \A i \in Queued', g \in Busy' : queue'[i].file # run'[g].file
    BY <1>3, <1>4 DEF Custody, Disjoint
  <2>2. \A i \in Queued', x \in timers' : queue'[i].file # x.file
    BY <1>3 DEF Custody, Disjoint
  <2>3. /\ \A d \in Holding', g \in Busy' : hold'[d].file # run'[g].file
        /\ \A d \in Holding', x \in timers' : hold'[d].file # x.file
        /\ \A g \in Busy', x \in timers' : run'[g].file # x.file
    BY <1>4 DEF Custody, Disjoint
  <2> QED BY <2>1, <2>2, <2>3 DEF Disjoint
<1> QED BY <1>5, <1>7, <1>8, <1>9 DEF Custody

LEMMA EnqueueUploadPreserves ==
    ASSUME Custody, NEW f \in File, EnqueueUpload(f) PROVE Custody'
<1>1. CASE Pool!Enqueue(FirstJob(f)) /\ UploadGoes(f, "accepted")
  <2>1. FirstJob(f) \in Job /\ FirstJob(f).file = f
    BY ProcessorAssumption DEF FirstJob, Job
  <2>2. upload[f] = "created"
    BY DEF EnqueueUpload
  <2>3. \A j \in timers : j.file # f
    BY <2>2 DEF Custody, Accepted
  <2>4. timers' = timers \ {FirstJob(f)}
    BY <2>1, <2>3 DEF EnqueueUpload, procVars
  <2>5. queue' = Append(queue, FirstJob(f)) /\ UNCHANGED <<hold, run, pc>>
    BY <1>1 DEF EnqueueUpload, Pool!Enqueue, procVars
  <2>8. GrowsBy(FirstJob(f), Len(queue) + 1)
    BY <2>1, <2>5, AppendGrows DEF Custody, CarrierTypes
  <2>6. /\ upload' \in [File -> UploadState]
        /\ upload'[f] = "accepted"
        /\ \A x \in File \ {f} : upload'[x] = upload[x]
    BY <1>1 DEF UploadGoes, UploadState, Custody, CarrierTypes
  <2>7. /\ \A i \in Queued : queue[i].file # f
        /\ \A d \in Holding : hold[d].file # f
        /\ \A g \in Busy : run[g].file # f
    BY <2>2 DEF Custody, Accepted
  <2> QED BY <2>1, <2>3, <2>4, <2>5, <2>6, <2>7, <2>8, AppendPreserves
<1>2. CASE UNCHANGED poolVars /\ (UploadGoes(f, "busy") \/ UploadGoes(f, "failed"))
  <2>1. upload[f] = "created" /\ UNCHANGED <<pc, timers>>
    BY DEF EnqueueUpload, procVars
  <2>2. upload' \in [File -> UploadState]
        /\ \A x \in File : upload[x] = "accepted" => upload'[x] = "accepted"
    BY <1>2, <2>1 DEF UploadGoes, UploadState, Custody, CarrierTypes
  <2>3. Shrinks
    BY <1>2, <2>1, <2>2 DEF Shrinks, Custody, CarrierTypes, RetryHasRoom, Working, poolVars
  <2> QED BY <2>3, ShrinkPreserves
<1> QED BY <1>1, <1>2 DEF EnqueueUpload

LEMMA TimerRequeuesPreserves ==
    ASSUME Custody, NEW j \in Job, TimerRequeues(j) PROVE Custody'
<1>1. /\ j \in timers /\ timers' = timers \ {j}
      /\ queue' = Append(queue, j)
      /\ UNCHANGED <<hold, run, pc, upload>>
  BY DEF TimerRequeues, Pool!Enqueue, reqVars
<1>2. upload[j.file] = "accepted"
  BY <1>1 DEF Custody, Accepted
<1>3. /\ \A i \in Queued : queue[i].file # j.file
      /\ \A d \in Holding : hold[d].file # j.file
      /\ \A g \in Busy : run[g].file # j.file
      /\ \A t \in timers : t.file = j.file => t = j
  BY <1>1 DEF Custody, Disjoint, Injective
<1>4. upload' \in [File -> UploadState]
  BY <1>1 DEF Custody, CarrierTypes
<1>5. GrowsBy(j, Len(queue) + 1)
  BY <1>1, AppendGrows DEF Custody, CarrierTypes
<1> QED BY <1>1, <1>2, <1>3, <1>4, <1>5, AppendPreserves

LEMMA ReceivePreserves ==
    ASSUME Custody, NEW d \in Dispatcher, Receive(d) PROVE Custody'
<1>1. /\ queue # <<>> /\ queue \in Seq(Job) /\ d \notin Holding
      /\ queue' = Tail(queue)
      /\ hold' = [hold EXCEPT ![d] = Head(queue)]
      /\ UNCHANGED <<run, pc, timers, upload>>
  BY DEF Receive, Pool!Receive, Pool!AtReceive, procVars, reqVars, Custody, CarrierTypes, Holding
<1>2. /\ Tail(queue) \in Seq(Job)
      /\ 1 \in Queued /\ Head(queue) = queue[1] /\ queue[1] \in Job
      /\ \A i \in Queued' : i + 1 \in Queued /\ i + 1 # 1 /\ queue'[i] = queue[i + 1]
      /\ Queued' \subseteq Nat
  BY <1>1 DEF Queued
<1>3. Busy' = Busy
  BY <1>1 DEF Busy, Working
<1>4. /\ \A e \in Holding' : e = d \/ e \in Holding
      /\ \A e \in Holding' : hold'[e] = IF e = d THEN queue[1] ELSE hold[e]
  BY <1>1, <1>2 DEF Holding, Custody, CarrierTypes
<1>5. CarrierTypes' /\ RetryHasRoom'
  BY <1>1, <1>2 DEF Custody, CarrierTypes, RetryHasRoom
<1>6. Accepted'
  <2>1. \A i \in Queued' : upload'[queue'[i].file] = "accepted"
    BY <1>1, <1>2 DEF Custody, Accepted
  <2>2. \A e \in Holding' : upload'[hold'[e].file] = "accepted"
    BY <1>1, <1>2, <1>4 DEF Custody, Accepted
  <2> QED BY <1>1, <1>3, <2>1, <2>2 DEF Custody, Accepted
<1>7. Injective'
  <2>1. \A i, k \in Queued' : queue'[i].file = queue'[k].file => i = k
    <3> SUFFICES ASSUME NEW i \in Queued', NEW k \in Queued',
                        queue'[i].file = queue'[k].file
                 PROVE  i = k
      OBVIOUS
    <3>1. i + 1 = k + 1
      BY <1>2 DEF Custody, Injective
    <3> QED BY <3>1, <1>2
  <2>2. \A e, c \in Holding' : hold'[e].file = hold'[c].file => e = c
    BY <1>2, <1>4 DEF Custody, Injective, Disjoint
  <2> QED BY <1>1, <1>3, <2>1, <2>2 DEF Custody, Injective
<1>8. Disjoint'
  <2>1. \A i \in Queued', e \in Holding' : queue'[i].file # hold'[e].file
    BY <1>2, <1>4 DEF Custody, Injective, Disjoint
  <2>2. /\ \A i \in Queued', g \in Busy' : queue'[i].file # run'[g].file
        /\ \A i \in Queued', j \in timers' : queue'[i].file # j.file
    <3> SUFFICES ASSUME NEW i \in Queued'
                 PROVE  /\ \A g \in Busy' : queue'[i].file # run'[g].file
                        /\ \A j \in timers' : queue'[i].file # j.file
      OBVIOUS
    <3>1. i + 1 \in Queued /\ queue'[i] = queue[i + 1]
      BY <1>2
    <3> QED BY <1>1, <1>3, <3>1 DEF Custody, Disjoint
  <2>3. /\ \A e \in Holding', g \in Busy' : hold'[e].file # run'[g].file
        /\ \A e \in Holding', j \in timers' : hold'[e].file # j.file
        /\ \A g \in Busy', j \in timers' : run'[g].file # j.file
    BY <1>1, <1>2, <1>3, <1>4 DEF Custody, Disjoint
  <2> QED BY <2>1, <2>2, <2>3 DEF Disjoint
<1> QED BY <1>5, <1>6, <1>7, <1>8 DEF Custody

LEMMA SpawnPreserves ==
    ASSUME Custody, NEW d \in Dispatcher, NEW g \in Goroutine, Spawn(d, g)
    PROVE  Custody'
<1>1. /\ d \in Holding /\ hold[d] \in Job /\ run[g] = None
      /\ run' = [run EXCEPT ![g] = hold[d]]
      /\ hold' = [hold EXCEPT ![d] = None]
      /\ pc' = [pc EXCEPT ![g] = "begin"]
      /\ UNCHANGED <<queue, timers, upload>>
  BY DEF Spawn, Pool!Spawn, Pool!AtAcquire, Goto, storeVars, reqVars, Holding,
         Custody, CarrierTypes
<1>2. Queued' = Queued /\ g \notin Busy
  BY <1>1 DEF Queued, Busy, Working
<1>3. \A e \in Holding' : e \in Holding /\ e # d /\ hold'[e] = hold[e]
  BY <1>1 DEF Holding, Custody, CarrierTypes
<1>4. \A h \in Busy' : \/ h = g /\ run'[h] = hold[d]
                       \/ h # g /\ h \in Busy /\ run'[h] = run[h]
  BY <1>1 DEF Busy, Working, Custody, CarrierTypes
<1>5. CarrierTypes' /\ RetryHasRoom'
  BY <1>1 DEF Custody, CarrierTypes, RetryHasRoom, Label
<1>6. Accepted'
  BY <1>1, <1>2, <1>3, <1>4 DEF Custody, Accepted
<1>7. Injective'
  BY <1>1, <1>2, <1>3, <1>4 DEF Custody, Injective, Disjoint
<1>8. Disjoint'
  BY <1>1, <1>2, <1>3, <1>4 DEF Custody, Injective, Disjoint
<1> QED BY <1>5, <1>6, <1>7, <1>8 DEF Custody

LEMMA ScheduleRetryPreserves ==
    ASSUME Custody, NEW g \in Goroutine, run[g] # None, ScheduleRetry(g, run[g]),
           UNCHANGED <<poolVars, reqVars, stage>>
    PROVE  Custody'
<1> DEFINE j == Retried(run[g])
<1>1. /\ run[g] \in Job /\ g \in Busy /\ pc[g] = "after"
      /\ timers' = timers \cup {j}
      /\ pc' = [pc EXCEPT ![g] = "exit"]
      /\ UNCHANGED <<queue, hold, run, upload>>
  BY DEF ScheduleRetry, Goto, Custody, CarrierTypes, Busy, Working, poolVars, reqVars
<1>2. j \in Job /\ j.file = run[g].file /\ j.retry >= 1
  BY <1>1, ProcessorAssumption DEF Custody, RetryHasRoom, Retried, Job
<1>3. Queued' = Queued /\ Holding' = Holding
  BY <1>1 DEF Queued, Holding
<1>4. \A h \in Busy' : h \in Busy /\ h # g
  BY <1>1 DEF Busy, Working, Custody, CarrierTypes
<1>5. CarrierTypes' /\ RetryHasRoom'
  BY <1>1, <1>2 DEF Custody, CarrierTypes, RetryHasRoom, Label
<1>6. Accepted'
  BY <1>1, <1>2, <1>3, <1>4 DEF Custody, Accepted
<1>7. Injective'
  BY <1>1, <1>2, <1>3, <1>4 DEF Custody, Injective, Disjoint
<1>8. Disjoint'
  BY <1>1, <1>2, <1>3, <1>4 DEF Custody, Injective, Disjoint
<1> QED BY <1>5, <1>6, <1>7, <1>8 DEF Custody

\* When the process ends every carrier is gone.
LEMMA EndPreserves == ASSUME Custody, ProcessEnds PROVE Custody'
<1>1. /\ queue' = <<>> /\ timers' = {}
      /\ hold' = [d \in Dispatcher |-> None]
      /\ run' = [g \in Goroutine |-> None]
      /\ pc' = [g \in Goroutine |-> "idle"]
  BY DEF ProcessEnds, Pool!Restart, Dispatcher
<1>2. Queued' = {} /\ Holding' = {} /\ Busy' = {}
  BY <1>1 DEF Queued, Holding, Busy, Working
<1>3. upload' \in [File -> UploadState]
  BY DEF ProcessEnds, Custody, CarrierTypes, UploadState
<1>4. queue' \in Seq(Job)
  BY <1>1
<1>5. CarrierTypes' /\ RetryHasRoom'
  BY <1>1, <1>3, <1>4 DEF CarrierTypes, RetryHasRoom, Label
<1>6. Accepted' /\ Injective' /\ Disjoint'
  BY <1>1, <1>2 DEF Accepted, Injective, Disjoint
<1> QED BY <1>5, <1>6 DEF Custody

-----------------------------------------------------------------------------
LEMMA InitCustody == Init => Custody
<1> SUFFICES ASSUME Init PROVE Custody OBVIOUS
<1>1. /\ queue = <<>> /\ timers = {}
      /\ hold = [d \in Dispatcher |-> None]
      /\ run = [g \in Goroutine |-> None]
      /\ pc = [g \in Goroutine |-> "idle"]
      /\ upload = [f \in File |-> "none"]
  BY DEF Init, ProcInit, Pool!Init, Dispatcher
<1>2. Queued = {} /\ Holding = {} /\ Busy = {}
  BY <1>1 DEF Queued, Holding, Busy, Working
<1>3. queue \in Seq(Job)
  BY <1>1
<1>4. CarrierTypes /\ RetryHasRoom
  BY <1>1, <1>3 DEF CarrierTypes, RetryHasRoom, Label, UploadState
<1>5. Accepted /\ Injective /\ Disjoint
  BY <1>1, <1>2 DEF Accepted, Injective, Disjoint
<1> QED BY <1>4, <1>5 DEF Custody

LEMMA StepCustody == Custody /\ [Next]_vars => Custody'
<1> SUFFICES ASSUME Custody, [Next]_vars PROVE Custody' OBVIOUS
<1>1. CASE \/ \E f \in File : SaveUpload(f) \/ CreateRow(f) \/ DeleteReads(f)
                                \/ DeleteObject(f) \/ DeleteRow(f)
           \/ \E d \in Dispatcher : Leave(d)
           \/ \E g \in Goroutine : Finish(g)
           \/ \E j \in Job : TimerFindsFull(j)
           \/ Signalled \/ CancelContext \/ PoolWaited \/ Boot
           \/ UNCHANGED vars
  <2>1. Shrinks
    BY <1>1, QuietStepShrinks
  <2> QED BY <2>1, ShrinkPreserves
<1>2. ASSUME NEW f \in File, EnqueueUpload(f) PROVE Custody'
  BY <1>2, EnqueueUploadPreserves
<1>3. ASSUME NEW d \in Dispatcher, Receive(d) PROVE Custody'
  BY <1>3, ReceivePreserves
<1>4. ASSUME NEW d \in Dispatcher, NEW g \in Goroutine, Spawn(d, g) PROVE Custody'
  BY <1>4, SpawnPreserves
<1>5. ASSUME NEW g \in Goroutine, GoroutineWorks(g) PROVE Custody'
  <2>1. /\ run[g] # None /\ Work(g, run[g])
        /\ UNCHANGED <<poolVars, reqVars, stage>>
    BY <1>5 DEF GoroutineWorks
  <2>2. CASE ScheduleRetry(g, run[g])
    BY <2>1, <2>2, ScheduleRetryPreserves
  <2>3. CASE ~ScheduleRetry(g, run[g])
    <3>1. Shrinks
      BY <2>1, <2>3, QuietWorkShrinks
    <3> QED BY <3>1, ShrinkPreserves
  <2> QED BY <2>2, <2>3
<1>6. ASSUME NEW j \in Job, TimerRequeues(j) PROVE Custody'
  BY <1>6, TimerRequeuesPreserves
<1>7. CASE ShutDown \/ Crash \/ \E j \in Job : TimerPanics(j)
  <2>1. ProcessEnds
    BY <1>7 DEF ShutDown, Crash, TimerPanics
  <2> QED BY <2>1, EndPreserves
<1> QED
  BY <1>1, <1>2, <1>3, <1>4, <1>5, <1>6, <1>7 DEF Next, TimerFires

\* No file is ever in two places of the pipeline: no two goroutines process it,
\* in any interleaving of uploads, retries, deletions, crashes and shutdowns
\* (processor.go:64-95, pool.go:53-84, upload.go:122-144).
THEOREM OneCarrierPerFile == Spec => []SingleCarrier
<1>1. Spec => []Custody
  BY InitCustody, StepCustody, PTL DEF Spec
<1> QED BY <1>1, CustodyIsSingle, PTL

-----------------------------------------------------------------------------
(* The pool inside the service behaves as WorkerPool says, so what is proved *)
(* of WorkerPool holds here.                                                 *)

PoolProofs == INSTANCE WorkerPool_proofs

LEMMA ServiceStartsPool == Init => PoolProofs!Init
BY DEF Init, Pool!Init, PoolProofs!Init, Pool!Dispatcher, PoolProofs!Dispatcher

\* Every step of the service is a step of the pool or leaves the pool alone.
LEMMA ServiceStepsPool ==
    ASSUME CarrierTypes, [Next]_vars PROVE [PoolProofs!Next]_(PoolProofs!poolVars)
<1> USE DEF PoolProofs!Next, PoolProofs!Step
<1>1. ASSUME NEW f \in File, EnqueueUpload(f)
      PROVE  [PoolProofs!Next]_(PoolProofs!poolVars)
  <2>1. FirstJob(f) \in Job
    BY ProcessorAssumption DEF FirstJob, Job
  <2>2. CASE Pool!Enqueue(FirstJob(f))
    BY <2>1, <2>2 DEF Pool!Enqueue, PoolProofs!Enqueue
  <2>3. CASE UNCHANGED poolVars
    BY <2>3 DEF poolVars, PoolProofs!poolVars
  <2> QED BY <1>1, <2>2, <2>3 DEF EnqueueUpload
<1>2. ASSUME NEW j \in Job, TimerRequeues(j)
      PROVE  [PoolProofs!Next]_(PoolProofs!poolVars)
  BY <1>2 DEF TimerRequeues, Pool!Enqueue, PoolProofs!Enqueue
<1>3. ASSUME NEW d \in Dispatcher, Receive(d) \/ Leave(d)
      PROVE  [PoolProofs!Next]_(PoolProofs!poolVars)
  BY <1>3 DEF Receive, Leave, Pool!Receive, Pool!AtReceive, Pool!Exit, Pool!Abandon,
              Pool!AtAcquire, PoolProofs!Receive, PoolProofs!AtReceive, PoolProofs!Exit,
              PoolProofs!Abandon, PoolProofs!AtAcquire,
              Dispatcher, Pool!Dispatcher, PoolProofs!Dispatcher
<1>4. ASSUME NEW d \in Dispatcher, NEW g \in Goroutine, Spawn(d, g)
      PROVE  [PoolProofs!Next]_(PoolProofs!poolVars)
  BY <1>4 DEF Spawn, Pool!Spawn, Pool!AtAcquire, PoolProofs!Spawn, PoolProofs!AtAcquire,
              Dispatcher, Pool!Dispatcher, PoolProofs!Dispatcher
<1>5. ASSUME NEW g \in Goroutine, Finish(g)
      PROVE  [PoolProofs!Next]_(PoolProofs!poolVars)
  BY <1>5 DEF Finish, Pool!Finish, PoolProofs!Finish
<1>6. CASE Signalled \/ CancelContext
  BY <1>6 DEF Signalled, CancelContext, Pool!Close, Pool!Cancel, PoolProofs!Close,
              PoolProofs!Cancel
<1>7. CASE ShutDown \/ Crash \/ \E j \in Job : TimerPanics(j)
  <2>1. Pool!Restart
    BY <1>7 DEF ShutDown, Crash, TimerPanics, ProcessEnds
  <2>2. PoolProofs!Restart
    BY <2>1 DEF Pool!Restart, PoolProofs!Restart, Pool!Dispatcher, PoolProofs!Dispatcher
  <2> QED BY <2>2
<1>8. CASE \/ \E f \in File : SaveUpload(f) \/ CreateRow(f) \/ DeleteReads(f)
                                \/ DeleteObject(f) \/ DeleteRow(f)
           \/ \E g \in Goroutine : GoroutineWorks(g)
           \/ \E j \in Job : TimerFindsFull(j)
           \/ PoolWaited \/ Boot \/ UNCHANGED vars
  BY <1>8 DEF SaveUpload, CreateRow, DeleteReads, DeleteObject, DeleteRow, GoroutineWorks,
              TimerFindsFull, PoolWaited, Boot, vars, poolVars, PoolProofs!poolVars
<1> QED
  BY <1>1, <1>2, <1>3, <1>4, <1>5, <1>6, <1>7, <1>8 DEF Next, TimerFires

\* The service drives its queue and its pool only as WorkerPool allows.
THEOREM ServiceImplementsPool == Spec => PoolProofs!Spec
<1>1. Spec => []Custody
  BY InitCustody, StepCustody, PTL DEF Spec
<1>2. Custody => CarrierTypes
  BY DEF Custody
<1> QED BY <1>1, <1>2, ServiceStartsPool, ServiceStepsPool, PTL DEF Spec, PoolProofs!Spec

\* At most WorkerCount files are processed at once, restarts and panics
\* included (pool.go:16-19, 65-82).
THEOREM ServiceConcurrencyBounded == Spec => []PoolProofs!SlotsAreActiveJobs
<1>1. PoolProofs!PoolAssumption
  BY ServiceAssumption DEF PoolProofs!PoolAssumption
<1> QED
  BY <1>1, ServiceImplementsPool, PoolProofs!ConcurrencyBounded, PTL

-----------------------------------------------------------------------------
(* Types. *)

\* The variables that neither the pool's invariant nor Custody types.
StoreTypes ==
    /\ row \in [File -> Row]
    /\ tmp \subseteq File
    /\ object \subseteq File
    /\ dead \in [File -> Seq(1..MaxRetries)]
    /\ events \in [File -> Seq({"done", "error"})]
    /\ mailed \subseteq File
    /\ delete \in [File -> DeleteState]
    /\ stage \in {"serving", "drained", "stopped"}

\* The operators that compute a new table return a table.
LEMMA RowTypes ==
    ASSUME row \in [File -> Row], NEW f \in File
    PROVE  /\ \A s \in Status : WithStatus(f, s) \in [File -> Row]
           /\ [row EXCEPT ![f].status = "pending"] \in [File -> Row]
           /\ DoneRow(f) \in [File -> Row]
           /\ ErrorRow(f) \in [File -> Row]
           /\ CountedRow(f) \in [File -> Row]
<1>1. \A s \in Status : [row[f] EXCEPT !.status = s] \in Row
  BY DEF Row
<1>2. \A s \in Status : [row EXCEPT ![f].status = s] \in [File -> Row]
  BY <1>1
<1>3. [row EXCEPT ![f].status = "done", ![f].path = TRUE] \in [File -> Row]
  BY DEF Row, Status
<1>4. [row EXCEPT ![f].retries = @ + 1] \in [File -> Row]
  BY DEF Row
<1> QED
  BY <1>2, <1>3, <1>4 DEF WithStatus, DoneRow, ErrorRow, CountedRow, Status

LEMMA BuriedTypes ==
    ASSUME dead \in [File -> Seq(1..MaxRetries)], NEW f \in File,
           NEW n \in 1..MaxRetries, Buried(f, n)
    PROVE  dead' \in [File -> Seq(1..MaxRetries)]
<1>1. Append(dead[f], n) \in Seq(1..MaxRetries)
  OBVIOUS
<1> QED BY <1>1 DEF Buried

LEMMA EventTypes ==
    ASSUME events \in [File -> Seq({"done", "error"})], NEW f \in File,
           NEW e \in {"done", "error"},
           events' = [events EXCEPT ![f] = Append(@, e)]
    PROVE  events' \in [File -> Seq({"done", "error"})]
<1>1. Append(events[f], e) \in Seq({"done", "error"})
  OBVIOUS
<1> QED BY <1>1

LEMMA StepTypes ==
    ASSUME StoreTypes, Custody, [Next]_vars PROVE StoreTypes'
<1>1. ASSUME NEW f \in File,
             \/ SaveUpload(f) \/ CreateRow(f) \/ EnqueueUpload(f)
             \/ DeleteReads(f) \/ DeleteObject(f) \/ DeleteRow(f)
      PROVE  StoreTypes'
  <2>1. row' \in [File -> Row]
    <3>1. \/ row' = row
          \/ row' = [row EXCEPT ![f].status = "pending"]
          \/ row' = WithStatus(f, "deleted")
      BY <1>1
      DEF SaveUpload, CreateRow, EnqueueUpload, DeleteReads, DeleteObject, DeleteRow,
          Attempt, procVars
    <3>2. row \in [File -> Row] /\ "deleted" \in Status
      BY DEF StoreTypes, Status
    <3>3. /\ [row EXCEPT ![f].status = "pending"] \in [File -> Row]
          /\ WithStatus(f, "deleted") \in [File -> Row]
      BY <3>2, RowTypes
    <3> QED BY <3>1, <3>2, <3>3
  <2>2. tmp' \subseteq File /\ object' \subseteq File
    BY <1>1
    DEF StoreTypes, SaveUpload, CreateRow, EnqueueUpload, DeleteReads, DeleteObject,
        DeleteRow, procVars
  <2>3. UNCHANGED <<dead, events, mailed, stage>>
    BY <1>1
    DEF SaveUpload, CreateRow, EnqueueUpload, DeleteReads, DeleteObject, DeleteRow, procVars
  <2>4. delete' \in [File -> DeleteState]
    BY <1>1
    DEF StoreTypes, SaveUpload, CreateRow, EnqueueUpload, DeleteReads, DeleteObject,
        DeleteRow, DeleteGoes, DeleteState
  <2> QED BY <2>1, <2>2, <2>3, <2>4 DEF StoreTypes
<1>2. ASSUME NEW g \in Goroutine, GoroutineWorks(g) PROVE StoreTypes'
  <2> DEFINE f == run[g].file
  <2>1. /\ Work(g, run[g]) /\ run[g] \in Job /\ f \in File
        /\ run[g].retry + 1 \in 1..MaxRetries
        /\ UNCHANGED <<delete, stage>>
    BY <1>2, ProcessorAssumption
    DEF GoroutineWorks, Custody, CarrierTypes, Job, reqVars
  <2>2. row' \in [File -> Row]
    <3>1. \/ row' = row
          \/ row' = WithStatus(f, "processing")
          \/ row' = DoneRow(f)
          \/ row' = ErrorRow(f)
          \/ row' = CountedRow(f)
      BY <2>1
      DEF Work, Begin, ProcessFile, PutFile, RemoveTmp, UpdateDone, NotifyDone,
          SendMail, Bury, UpdateError, NotifyError, CountRetry, ScheduleRetry, Attempt,
          storeVars
    <3>2. row \in [File -> Row] /\ "processing" \in Status
      BY DEF StoreTypes, Status
    <3>3. /\ WithStatus(f, "processing") \in [File -> Row]
          /\ DoneRow(f) \in [File -> Row]
          /\ ErrorRow(f) \in [File -> Row]
          /\ CountedRow(f) \in [File -> Row]
      BY <2>1, <3>2, RowTypes
    <3> QED BY <3>1, <3>2, <3>3
  <2>3. tmp' \subseteq File /\ object' \subseteq File /\ mailed' \subseteq File
    BY <2>1
    DEF StoreTypes, Work, Begin, ProcessFile, PutFile, RemoveTmp, UpdateDone, NotifyDone,
        SendMail, Bury, UpdateError, NotifyError, CountRetry, ScheduleRetry, storeVars
  <2>4. dead' = dead \/ Buried(f, run[g].retry + 1)
    BY <2>1
    DEF Work, Begin, ProcessFile, PutFile, RemoveTmp, UpdateDone, NotifyDone,
        SendMail, Bury, UpdateError, NotifyError, CountRetry, ScheduleRetry, storeVars
  <2>5. events' = events \/ \E e \in {"done", "error"} :
                               events' = [events EXCEPT ![f] = Append(@, e)]
    BY <2>1
    DEF Work, Begin, ProcessFile, PutFile, RemoveTmp, UpdateDone, NotifyDone,
        SendMail, Bury, UpdateError, NotifyError, CountRetry, ScheduleRetry, storeVars
  <2>6. dead' \in [File -> Seq(1..MaxRetries)]
    BY <2>1, <2>4, BuriedTypes DEF StoreTypes
  <2>7. events' \in [File -> Seq({"done", "error"})]
    BY <2>1, <2>5, EventTypes DEF StoreTypes
  <2> QED BY <2>1, <2>2, <2>3, <2>6, <2>7 DEF StoreTypes
<1>3. ASSUME NEW j \in Job, TimerFires(j) PROVE StoreTypes'
  <2>1. CASE TimerRequeues(j)
    BY <2>1 DEF TimerRequeues, storeVars, reqVars, StoreTypes
  <2>2. CASE TimerFindsFull(j)
    <3>1. j.file \in File
      BY DEF Job
    <3>2. j.retry \in 1..MaxRetries
      <4>1. j.retry \in 0..(MaxRetries - 1) /\ MaxRetries \in Nat
        BY ProcessorAssumption DEF Job
      <4>2. j.retry >= 1
        BY <2>2 DEF TimerFindsFull, Custody, RetryHasRoom
      <4> QED BY <4>1, <4>2
    <3>3. dead' \in [File -> Seq(1..MaxRetries)]
      BY <2>2, <3>1, <3>2, BuriedTypes DEF TimerFindsFull, StoreTypes
    <3> QED BY <2>2, <3>3 DEF TimerFindsFull, StoreTypes, reqVars
  <2>3. CASE TimerPanics(j)
    BY <2>3 DEF TimerPanics, ProcessEnds, storeVars, StoreTypes, DeleteState
  <2> QED BY <1>3, <2>1, <2>2, <2>3 DEF TimerFires
<1>4. CASE \/ \E d \in Dispatcher : Receive(d) \/ Leave(d)
           \/ \E d \in Dispatcher, g \in Goroutine : Spawn(d, g)
           \/ \E g \in Goroutine : Finish(g)
           \/ Signalled \/ CancelContext \/ PoolWaited \/ Boot \/ UNCHANGED vars
  BY <1>4 DEF Receive, Leave, Spawn, Finish, Signalled, CancelContext, PoolWaited, Boot,
              vars, procVars, storeVars, reqVars, StoreTypes
<1>5. CASE ShutDown \/ Crash
  BY <1>5 DEF ShutDown, Crash, ProcessEnds, storeVars, StoreTypes, DeleteState
<1> QED BY <1>1, <1>2, <1>3, <1>4, <1>5 DEF Next

LEMMA InitTypes == Init => StoreTypes
<1> SUFFICES ASSUME Init PROVE StoreTypes OBVIOUS
<1>1. row \in [File -> Row]
  BY DEF Init, ProcInit, Row, Status
<1>2. /\ dead = [f \in File |-> <<>>] /\ events = [f \in File |-> <<>>]
      /\ <<>> \in Seq(1..MaxRetries) /\ <<>> \in Seq({"done", "error"})
  BY DEF Init, ProcInit
<1>3. dead \in [File -> Seq(1..MaxRetries)] /\ events \in [File -> Seq({"done", "error"})]
  BY <1>2
<1> QED BY <1>1, <1>3 DEF Init, ProcInit, StoreTypes, DeleteState

\* Every variable of the service keeps its type; that sem stays within
\* 0..WorkerCount is what the pool's invariant gives.
THEOREM ServiceTypes == Spec => []TypeOK
<1>1. Spec => [](StoreTypes /\ Custody)
  <2>1. Init => StoreTypes /\ Custody
    BY InitTypes, InitCustody
  <2>2. StoreTypes /\ Custody /\ [Next]_vars => (StoreTypes /\ Custody)'
    BY StepTypes, StepCustody
  <2> QED BY <2>1, <2>2, PTL DEF Spec
<1>2. PoolProofs!PoolAssumption
  BY ServiceAssumption DEF PoolProofs!PoolAssumption
<1>3. Spec => []PoolProofs!PoolInv
  BY <1>2, ServiceImplementsPool, PoolProofs!PoolInvariant, PTL
<1>4. ASSUME StoreTypes, Custody, PoolProofs!PoolInv PROVE TypeOK
  <2>1. ProcTypeOK
    BY <1>4 DEF StoreTypes, Custody, CarrierTypes, ProcTypeOK
  <2>2. Pool!PoolTypeOK
    BY <1>4 DEF PoolProofs!PoolInv, PoolProofs!PoolTypeOK, Pool!PoolTypeOK,
                PoolProofs!Dispatcher, Pool!Dispatcher
  <2> QED BY <1>4, <2>1, <2>2 DEF TypeOK, StoreTypes, Custody, CarrierTypes
<1> QED BY <1>1, <1>3, <1>4, PTL
=============================================================================
