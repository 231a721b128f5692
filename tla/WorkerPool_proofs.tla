-------------------------- MODULE WorkerPool_proofs --------------------------
(***************************************************************************)
(* Proofs about WorkerPool, for every set of jobs and goroutines, every     *)
(* number of workers and every queue size.                                  *)
(***************************************************************************)
EXTENDS WorkerPool, FiniteSetTheorems, TLAPS

\* The types and the slot count are inductive together only: that Finish does
\* not take sem below zero needs a goroutine to be counted in it.
PoolInv ==
    /\ PoolTypeOK
    /\ SlotsAreActiveJobs
    /\ CloseDrains

\* Spawning a job on an idle goroutine makes the active set one larger.
LEMMA SpawnAddsOne ==
    ASSUME IsFiniteSet(Active), NEW g \in Goroutine, NEW j \in Job,
           run \in [Goroutine -> Job \cup {None}],
           run[g] = None, run' = [run EXCEPT ![g] = j]
    PROVE  /\ IsFiniteSet(Active')
           /\ Cardinality(Active') = Cardinality(Active) + 1
<1>1. Active' = Active \cup {g} /\ g \notin Active
  BY PoolAssumption DEF Active
<1> QED BY <1>1, FS_AddElement

\* A goroutine that ends makes the active set one smaller.
LEMMA FinishRemovesOne ==
    ASSUME IsFiniteSet(Active), NEW g \in Goroutine,
           run \in [Goroutine -> Job \cup {None}],
           run[g] # None, run' = [run EXCEPT ![g] = None]
    PROVE  /\ IsFiniteSet(Active')
           /\ Cardinality(Active') = Cardinality(Active) - 1
           /\ Cardinality(Active) \in Nat \ {0}
<1>1. Active' = Active \ {g} /\ g \in Active
  BY DEF Active
<1>2. Cardinality(Active) \in Nat /\ Cardinality(Active) # 0
  BY <1>1, FS_CardinalityType, FS_EmptySet
<1> QED BY <1>1, <1>2, FS_RemoveElement

\* A fresh process, at start or after a restart, satisfies the invariant.
LEMMA FreshPool == Init => PoolInv
<1> SUFFICES ASSUME Init PROVE PoolInv OBVIOUS
<1>1. Active = {}
  BY DEF Init, Active
<1>2. PoolTypeOK
  <2>1. sem \in 0..WorkerCount
    BY PoolAssumption DEF Init
  <2>2. queue \in Seq(Job)
    BY DEF Init
  <2>3. hold \in [Dispatcher -> Job \cup {None}]
    BY DEF Init
  <2>4. run \in [Goroutine -> Job \cup {None}]
    BY DEF Init
  <2>5. closed \in BOOLEAN /\ cancelled \in BOOLEAN /\ exited \subseteq Dispatcher
    BY DEF Init
  <2> QED BY <2>1, <2>2, <2>3, <2>4, <2>5 DEF PoolTypeOK
<1>3. SlotsAreActiveJobs
  BY <1>1, FS_EmptySet, PoolAssumption DEF Init, SlotsAreActiveJobs
<1>4. CloseDrains
  BY PoolAssumption DEF Init, CloseDrains
<1> QED BY <1>2, <1>3, <1>4 DEF PoolInv

\* The operations preserve the invariant; each is a lemma so that the module
\* that composes the pool can cite it for a joint step.
LEMMA EnqueuePreserves ==
    ASSUME PoolInv, NEW j \in Job, Enqueue(j) PROVE PoolInv'
<1>1. PoolTypeOK'
  BY PoolAssumption DEF PoolInv, PoolTypeOK, Enqueue
<1>2. SlotsAreActiveJobs' /\ CloseDrains'
  BY DEF PoolInv, SlotsAreActiveJobs, CloseDrains, Active, Enqueue
<1> QED BY <1>1, <1>2 DEF PoolInv

LEMMA ReceivePreserves ==
    ASSUME PoolInv, NEW d \in Dispatcher, Receive(d) PROVE PoolInv'
<1>1. Head(queue) \in Job /\ Tail(queue) \in Seq(Job)
  BY PoolAssumption DEF PoolInv, PoolTypeOK, Receive
<1>2. PoolTypeOK'
  BY <1>1 DEF PoolInv, PoolTypeOK, Receive
<1>3. SlotsAreActiveJobs' /\ CloseDrains'
  BY DEF PoolInv, SlotsAreActiveJobs, CloseDrains, Active, Receive
<1> QED BY <1>2, <1>3 DEF PoolInv

LEMMA SpawnPreserves ==
    ASSUME PoolInv, NEW d \in Dispatcher, NEW g \in Goroutine, Spawn(d, g)
    PROVE  PoolInv'
<1>1. hold[d] \in Job
  BY DEF PoolInv, PoolTypeOK, Spawn, AtAcquire
<1>2. PoolTypeOK'
  BY <1>1, PoolAssumption DEF PoolInv, PoolTypeOK, Spawn
<1>3. IsFiniteSet(Active') /\ Cardinality(Active') = Cardinality(Active) + 1
  BY <1>1, SpawnAddsOne DEF PoolInv, PoolTypeOK, SlotsAreActiveJobs, Spawn
<1>4. SlotsAreActiveJobs'
  BY <1>3, PoolAssumption DEF PoolInv, PoolTypeOK, SlotsAreActiveJobs, Spawn
<1>5. CloseDrains'
  BY DEF PoolInv, CloseDrains, Spawn
<1> QED BY <1>2, <1>4, <1>5 DEF PoolInv

LEMMA LeavePreserves ==
    ASSUME PoolInv, NEW d \in Dispatcher, Exit(d) \/ Abandon(d) PROVE PoolInv'
<1>1. PoolTypeOK'
  BY DEF PoolInv, PoolTypeOK, Exit, Abandon
<1>2. SlotsAreActiveJobs'
  BY DEF PoolInv, SlotsAreActiveJobs, Active, Exit, Abandon
<1>3. CloseDrains'
  BY DEF PoolInv, PoolTypeOK, CloseDrains, Exit, Abandon
<1> QED BY <1>1, <1>2, <1>3 DEF PoolInv

LEMMA FinishPreserves ==
    ASSUME PoolInv, NEW g \in Goroutine, Finish(g) PROVE PoolInv'
<1>1. /\ IsFiniteSet(Active')
      /\ Cardinality(Active') = Cardinality(Active) - 1
      /\ Cardinality(Active) \in Nat \ {0}
  BY FinishRemovesOne DEF PoolInv, PoolTypeOK, SlotsAreActiveJobs, Finish
<1>2. PoolTypeOK' /\ SlotsAreActiveJobs'
  BY <1>1, PoolAssumption DEF PoolInv, PoolTypeOK, SlotsAreActiveJobs, Finish
<1>3. CloseDrains'
  BY DEF PoolInv, CloseDrains, Finish
<1> QED BY <1>2, <1>3 DEF PoolInv

LEMMA SignalPreserves ==
    ASSUME PoolInv, Close \/ Cancel PROVE PoolInv'
<1>1. PoolTypeOK'
  BY DEF PoolInv, PoolTypeOK, Close, Cancel
<1>2. SlotsAreActiveJobs' /\ CloseDrains'
  BY DEF PoolInv, SlotsAreActiveJobs, CloseDrains, Active, Close, Cancel
<1> QED BY <1>1, <1>2 DEF PoolInv

LEMMA RestartPreserves ==
    ASSUME Restart PROVE PoolInv'
<1>1. Active' = {}
  BY DEF Restart, Active
<1>2. SlotsAreActiveJobs'
  BY <1>1, FS_EmptySet, PoolAssumption DEF Restart, SlotsAreActiveJobs
<1>3. PoolTypeOK'
  <2>1. sem' \in 0..WorkerCount
    BY PoolAssumption DEF Restart
  <2>2. queue' \in Seq(Job)
    BY DEF Restart
  <2>3. hold' \in [Dispatcher -> Job \cup {None}]
    BY DEF Restart
  <2>4. run' \in [Goroutine -> Job \cup {None}]
    BY DEF Restart
  <2>5. closed' \in BOOLEAN /\ cancelled' \in BOOLEAN /\ exited' \subseteq Dispatcher
    BY DEF Restart
  <2> QED BY <2>1, <2>2, <2>3, <2>4, <2>5 DEF PoolTypeOK
<1>4. CloseDrains'
  BY PoolAssumption DEF Restart, CloseDrains
<1> QED BY <1>2, <1>3, <1>4 DEF PoolInv

\* A step that leaves the pool's variables alone preserves the invariant.
LEMMA PoolStutters ==
    ASSUME PoolInv, UNCHANGED poolVars PROVE PoolInv'
BY DEF PoolInv, PoolTypeOK, SlotsAreActiveJobs, CloseDrains, Active, poolVars

\* PoolInv holds in every reachable state, restarts included.
THEOREM PoolInvariant == Spec => []PoolInv
<1>1. PoolInv /\ [Next]_poolVars => PoolInv'
  <2> SUFFICES ASSUME PoolInv, [Next]_poolVars PROVE PoolInv' OBVIOUS
  <2>1. ASSUME NEW j \in Job, Enqueue(j) PROVE PoolInv'
    BY <2>1, EnqueuePreserves
  <2>2. CASE Close \/ Cancel
    BY <2>2, SignalPreserves
  <2>3. ASSUME NEW d \in Dispatcher, Receive(d) PROVE PoolInv'
    BY <2>3, ReceivePreserves
  <2>4. ASSUME NEW d \in Dispatcher, NEW g \in Goroutine, Spawn(d, g) PROVE PoolInv'
    BY <2>4, SpawnPreserves
  <2>5. ASSUME NEW d \in Dispatcher, Exit(d) \/ Abandon(d) PROVE PoolInv'
    BY <2>5, LeavePreserves
  <2>6. ASSUME NEW g \in Goroutine, Finish(g) PROVE PoolInv'
    BY <2>6, FinishPreserves
  <2>7. CASE Restart
    BY <2>7, RestartPreserves
  <2>8. CASE UNCHANGED poolVars
    BY <2>8, PoolStutters
  <2> QED
    BY <2>1, <2>2, <2>3, <2>4, <2>5, <2>6, <2>7, <2>8 DEF Next, Step
<1> QED BY FreshPool, <1>1, PTL DEF Spec

\* Every variable of the pool keeps its type; above all sem never leaves
\* 0..WorkerCount (pool.go:28-35, 67-75).
THEOREM PoolTypes == Spec => []PoolTypeOK
BY PoolInvariant, PTL DEF PoolInv

\* The semaphore counts the processing goroutines, so at most WorkerCount jobs
\* execute at once (pool.go:16-19).
THEOREM ConcurrencyBounded == Spec => []SlotsAreActiveJobs
BY PoolInvariant, PTL DEF PoolInv

\* Closing the channel without cancelling the context loses no queued job
\* (pool.go:38, 60-62).
THEOREM ClosingDrains == Spec => []CloseDrains
BY PoolInvariant, PTL DEF PoolInv
=============================================================================
