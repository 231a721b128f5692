--------------------------- MODULE MCWorkerPool ---------------------------
(* Instance of WorkerPool for TLC: jobs and goroutines are model values. No *)
(* symmetry, since the run checks liveness.                                 *)
EXTENDS WorkerPool
=============================================================================
