------------------------------- MODULE MCVault -------------------------------
(* Vault for TLC: a password that follows the first four rules, and one that  *)
(* has four equal characters in a row; two buckets, two uploads in two parts. *)
(* Creations, and uploads, are alike.                                         *)
EXTENDS Vault, TLC

MCClass == [a |-> "lower", B |-> "upper", s |-> "symbol", d |-> "digit"]
MCSpelling ==
    [good |-> <<"a","a","a","B","d","s","a","a","a","B","d","s">>,
     runs |-> <<"B","d","s","a","a","a","a","B","d","s","B","d">>]

Symmetry == Permutations(Creation) \cup Permutations(Upload)
=============================================================================
