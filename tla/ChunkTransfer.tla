--------------------------- MODULE ChunkTransfer ---------------------------
(***************************************************************************)
(* What one upload promises, whatever the chunk size, the number of        *)
(* connections and the order in which they work: the bytes of the          *)
(* encrypted file reach the server piece by piece, no byte is sent twice,  *)
(* and the server records the file as complete only when it holds every    *)
(* byte.  An upload that does not get there is abandoned.                  *)
(***************************************************************************)
EXTENDS Integers

CONSTANT Size                   \* bytes of the encrypted file

VARIABLES delivered,            \* the bytes the server holds
          outcome               \* "open", "committed" or "abandoned"

vars == <<delivered, outcome>>

Byte == 0 .. Size - 1

Init == delivered = {} /\ outcome = "open"

\* A piece arrives: bytes the server does not hold yet.
Deliver(piece) ==
    /\ outcome = "open"
    /\ piece # {}
    /\ piece \cap delivered = {}
    /\ delivered' = delivered \cup piece
    /\ UNCHANGED outcome

\* The server files the upload away.
Commit ==
    /\ outcome = "open"
    /\ delivered = Byte
    /\ outcome' = "committed"
    /\ UNCHANGED delivered

Abandon ==
    /\ outcome = "open"
    /\ outcome' = "abandoned"
    /\ UNCHANGED delivered

Next == (\E piece \in SUBSET Byte : Deliver(piece)) \/ Commit \/ Abandon

Spec == Init /\ [][Next]_vars

=============================================================================
