----------------------------- MODULE MCDownload -----------------------------
(* Download for TLC: two files that were uploaded with one name, so that     *)
(* their downloads meet at the decrypted file as well.                       *)
EXTENDS Download, TLC

OneName == [f \in File |-> CHOOSE n \in Name : TRUE]

Symmetry == Permutations(Download)
=============================================================================
