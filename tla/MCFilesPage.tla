---------------------------- MODULE MCFilesPage -----------------------------
(* FilesPage for TLC. *)
EXTENDS FilesPage, TLC

Symmetry == Permutations(Goroutine)
=============================================================================
