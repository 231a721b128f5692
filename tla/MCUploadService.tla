-------------------------- MODULE MCUploadService --------------------------
(* Instances of UploadService for TLC: files and goroutines are model values. *)
EXTENDS UploadService, TLC

Symmetry == Permutations(File) \cup Permutations(Goroutine)
=============================================================================
