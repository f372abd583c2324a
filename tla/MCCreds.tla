------------------------------- MODULE MCCreds -------------------------------
(* Creds for TLC. *)
EXTENDS Creds, TLC

Symmetry == Permutations(Key) \cup Permutations(Login)
=============================================================================
