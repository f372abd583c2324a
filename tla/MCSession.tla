----------------------------- MODULE MCSession -----------------------------
(* Session for TLC: two buckets, as model values, two logins that may        *)
(* overlap, and an upload that reads the secrets both write.  Buckets,       *)
(* sessions, logins and uploads are interchangeable.                         *)
EXTENDS Session, TLC

Symmetry == Permutations(Bucket) \cup Permutations(SessionId) \cup Permutations(Login)
            \cup Permutations(Job)
=============================================================================
