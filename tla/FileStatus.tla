------------------------------ MODULE FileStatus ------------------------------
(***************************************************************************)
(* The life of a file as its owner sees it through GET /files/:id: the      *)
(* status column of its row (internal/domain/file.go). This is what the     *)
(* service promises; UploadService implements it.                           *)
(***************************************************************************)
CONSTANT File

VARIABLE status

Init == status = [f \in File |-> "absent"]

Moves(f, from, to) ==
    /\ status[f] \in from
    /\ status' = [status EXCEPT ![f] = to]

\* The upload is recorded.
Record(f) == Moves(f, {"absent"}, "pending")

\* A worker takes the file up; a retry finds it processing already.
TakeUp(f) == Moves(f, {"pending"}, "processing")

Complete(f) == Moves(f, {"processing"}, "done")

\* A file whose row no worker could lock is given up while still pending.
GiveUp(f) == Moves(f, {"pending", "processing"}, "error")

\* The owner may delete a file at any time; its id is never used again.
Delete(f) == Moves(f, {"pending", "processing", "done", "error"}, "deleted")

Next == \E f \in File :
            Record(f) \/ TakeUp(f) \/ Complete(f) \/ GiveUp(f) \/ Delete(f)

Spec == Init /\ [][Next]_status
=============================================================================
