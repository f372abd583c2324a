------------------------------ MODULE MCSearch ------------------------------
(* Search for TLC: the first query finds two files, the second only the      *)
(* hidden one; the other file may be removed.                                *)
EXTENDS Search, TLC
MCMatches == "a" :> {1, 2} @@ "b" :> {2}
=============================================================================
