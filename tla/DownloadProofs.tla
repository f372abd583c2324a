--------------------------- MODULE DownloadProofs ---------------------------
(***************************************************************************)
(* Proofs about Download, for any number of downloads, files and names,    *)
(* whichever files share a name, and any number of pieces.                 *)
(*                                                                         *)
(* Whoever holds an encrypted copy still has to remove it (PathInv), which *)
(* is why none is left.  Two downloads of one file that run at one time    *)
(* are both marked (SharedInv), and whose file a copy is of, is known      *)
(* (PathInv): so a download that is not marked has its copy to itself      *)
(* (OwnInv).  A mixture at a name has a download that still writes it, or  *)
(* did not succeed (MixtureInv).                                           *)
(***************************************************************************)
EXTENDS Download, TLAPS

\* The steps from the creation of the encrypted copy to its removal.
Working == {"copy", "meta", "check", "decrypt", "write", "verify"}
Holding == Working \cup {"cleanup"}
Late    == {"cleanup", "returned", "end"}

SharedInv ==
    \A d, e \in Download :
        d # e /\ Active(d) /\ Active(e) /\ file[d] = file[e] => shared[d]

PathInv ==
    /\ \A d \in Download : file[handle[d]] = file[d]
    /\ \A f \in File : encAt[f] # NoFile =>
        /\ file[encAt[f]] = f
        /\ \E d \in Download : file[d] = f /\ pc[d] \in Holding

OwnInv ==
    \A d \in Download : ~shared[d] =>
        /\ pc[d] \in Working => Path(d) = d /\ handle[d] = d
        /\ pc[d] = "decrypt" => WholeAtPath(d)

\* What NamedLeavesWholeFile asks of the downloads of a name, refused.
Unfinished(d) == pc[d] \in {"write", "verify"} \/ (pc[d] \in Late /\ ~named[d])

MixtureInv ==
    /\ \A d \in Download : pc[d] \notin Late => ~named[d]
    /\ \A n \in Name : rawAt[n] = Partial => \E d \in Download : Raw(d) = n /\ Unfinished(d)

IInv == TypeOK /\ SharedInv /\ PathInv /\ OwnInv /\ MixtureInv

-----------------------------------------------------------------------------
(* Steps and types. *)

LEMMA InitIInv == Init => IInv
<1> SUFFICES ASSUME Init PROVE IInv
    OBVIOUS
<1>1. TypeOK
  <2>1. 1 \in 1 .. Pieces + 1
      BY DownloadAssumption
  <2>2. next \in [Download -> 1 .. Pieces + 1] /\ encAt \in [File -> Download \cup {NoFile}]
      BY <2>1 DEF Init
  <2>3. rawAt \in [Name -> File \cup {NoFile, Partial}] /\ copied \in [Download -> SUBSET Piece]
      BY DEF Init
  <2>4. /\ err \in [Download -> BOOLEAN] /\ named \in [Download -> BOOLEAN]
        /\ shared \in [Download -> BOOLEAN] /\ crashed \in BOOLEAN
      BY DEF Init
  <2> QED
      BY <2>2, <2>3, <2>4 DEF Init, TypeOK
<1>2. SharedInv /\ PathInv /\ OwnInv /\ MixtureInv
    BY DEF Init, SharedInv, Active, PathInv, OwnInv, MixtureInv, Unfinished, Late, Working, NoFile,
           Partial
<1> QED
    BY <1>1, <1>2 DEF IInv

\* A step of one download moves it and no other.
LEMMA StepMoves ==
    ASSUME TypeOK, NEW d \in Download, NEW from, NEW to, Step(d, from, to)
    PROVE  /\ pc[d] = from /\ pc'[d] = to
           /\ \A e \in Download \ {d} : pc'[e] = pc[e]
    BY DEF Step, TypeOK

\* What ManageDownload leaves alone and how it goes on.
LEMMA Moves ==
    ASSUME TypeOK, NEW d \in Download, ManageDownload(d)
    PROVE  /\ file' = file /\ shared' = shared
           /\ Active(d)
           /\ \A e \in Download \ {d} : pc'[e] = pc[e] /\ named'[e] = named[e]
           /\ pc[d] \in Holding /\ pc'[d] \notin Holding => pc[d] = "cleanup" /\ Cleanup(d)
           /\ pc'[d] \in Working => pc[d] \in Working \/ CreateEnc(d)
           /\ pc[d] \in Late => pc'[d] \in Late /\ named' = named
           /\ pc'[d] \notin Late => named' = named
           /\ pc'[d] = "decrypt" => WholeAtPath(d) /\ pc[d] = "check"
<1> USE DEF Active, Working, Holding, Late
<1>1. CASE InitDownload(d) \/ DataFails(d) \/ CopyFails(d) \/ FetchMeta(d) \/ ProcessDownload(d)
    BY <1>1, StepMoves DEF InitDownload, DataFails, CopyFails, FetchMeta, ProcessDownload, Fail
<1>2. CASE CreateEnc(d) \/ Copy(d) \/ CopyErrorBody(d)
    BY <1>2, StepMoves DEF CreateEnc, Copy, CopyErrorBody, resultVars
<1>3. CASE Check(d)
    BY <1>3, StepMoves DEF Check, Fail
<1>4. CASE Decrypt(d) \/ WriteRaw(d)
    BY <1>4, StepMoves DEF Decrypt, WriteRaw, Fail
<1>5. CASE Verify(d)
    BY <1>5, StepMoves DEF Verify, Fail, TypeOK
<1>6. CASE Cleanup(d)
    BY <1>6, StepMoves DEF Cleanup
<1> QED
    BY <1>1, <1>2, <1>3, <1>4, <1>5, <1>6 DEF ManageDownload

LEMMA TypeStep ==
    ASSUME TypeOK, NEW d \in Download, Start(d) \/ ManageDownload(d)
    PROVE  TypeOK'
<1> USE DownloadAssumption DEF TypeOK, Step, Fail, diskVars, resultVars
<1>1. CASE Start(d)
    BY <1>1 DEF Start
<1>2. CASE InitDownload(d)
    BY <1>2 DEF InitDownload
<1>3. CASE DataFails(d) \/ CopyFails(d)
    BY <1>3 DEF DataFails, CopyFails
<1>4. CASE CreateEnc(d)
    BY <1>4 DEF CreateEnc, Path, EncPath
<1>5. CASE Copy(d)
  <2>1. CASE next[d] <= Pieces
    <3>1. next[d] \in Piece /\ next[d] + 1 \in 1 .. Pieces + 1
        BY <2>1 DEF Piece
    <3>2. next' \in [Download -> 1 .. Pieces + 1]
        BY <1>5, <2>1, <3>1 DEF Copy
    <3>3. copied' \in [Download -> SUBSET Piece]
        BY <1>5, <2>1, <3>1 DEF Copy
    <3> QED
        BY <1>5, <2>1, <3>2, <3>3 DEF Copy
  <2>2. CASE ~(next[d] <= Pieces)
      BY <1>5, <2>2 DEF Copy
  <2> QED
      BY <2>1, <2>2
<1>6. CASE CopyErrorBody(d)
    BY <1>6 DEF CopyErrorBody
<1>7. CASE FetchMeta(d) \/ Check(d)
    BY <1>7 DEF FetchMeta, Check
<1>8. CASE Decrypt(d)
    BY <1>8 DEF Decrypt, Raw
<1>9. CASE WriteRaw(d)
  <2>1. PICK c \in File \cup {Partial} : rawAt' \in {rawAt, [rawAt EXCEPT ![Raw(d)] = c]}
    <3>1. file[d] \in File
        OBVIOUS
    <3>2. CASE Step(d, "write", "verify")
      <4>1. PICK c \in IF rawAt[Raw(d)] \in {Partial, file[d]} THEN {file[d]} ELSE {file[d], Partial} :
              rawAt' = [rawAt EXCEPT ![Raw(d)] = c]
          BY <1>9, <3>2 DEF WriteRaw
      <4> QED
          BY <3>1, <4>1
    <3>3. CASE rawAt' \in {rawAt, [rawAt EXCEPT ![Raw(d)] = Partial]}
        BY <3>3
    <3> QED
        BY <1>9, <3>2, <3>3 DEF WriteRaw
  <2>2. rawAt' \in [Name -> File \cup {NoFile, Partial}]
      BY <2>1
  <2>3. pc' \in [Download -> {"off", "init", "data", "copy", "meta", "check", "decrypt", "write",
                             "verify", "cleanup", "returned", "end"}]
      BY <1>9 DEF WriteRaw
  <2>4. err' \in [Download -> BOOLEAN]
      BY <1>9 DEF WriteRaw
  <2> QED
      BY <1>9, <2>2, <2>3, <2>4 DEF WriteRaw
<1>10. CASE Verify(d)
    BY <1>10 DEF Verify
<1>11. CASE Cleanup(d)
    BY <1>11 DEF Cleanup, EncPath
<1>12. CASE ProcessDownload(d)
    BY <1>12 DEF ProcessDownload
<1> QED
    BY <1>1, <1>2, <1>3, <1>4, <1>5, <1>6, <1>7, <1>8, <1>9, <1>10, <1>11, <1>12
    DEF ManageDownload

-----------------------------------------------------------------------------
(* A download that starts. *)

LEMMA StartIInv ==
    ASSUME IInv, NEW d \in Download, Start(d)
    PROVE  IInv'
<1> USE DEF IInv
<1>1. TypeOK'
    BY TypeStep
<1>2. /\ pc[d] = "off" /\ pc'[d] = "init" /\ \A e \in Download \ {d} : pc'[e] = pc[e]
      /\ UNCHANGED <<file, next, handle, encAt, copied, rawAt, named>>
    BY StepMoves DEF Start, diskVars, resultVars
<1>3. /\ \A e \in Download : shared[e] => shared'[e]
      /\ \A e \in Download : Active(e) /\ file[e] = file[d] => shared'[e] /\ shared'[d]
    BY DEF Start, TypeOK
<1>4. SharedInv'
  <2> SUFFICES ASSUME NEW a \in Download, NEW b \in Download, a # b,
                      Active(a)', Active(b)', file[a] = file[b]
               PROVE  shared'[a]
      BY <1>2 DEF SharedInv
  <2>1. CASE a # d /\ b # d
      BY <1>2, <1>3, <2>1 DEF SharedInv, Active
  <2>2. CASE a = d \/ b = d
      BY <1>2, <1>3, <2>2 DEF Active
  <2> QED
      BY <2>1, <2>2
<1>5. PathInv'
    BY <1>2 DEF PathInv, Holding, Working
<1>6. OwnInv'
    BY <1>2, <1>3 DEF OwnInv, Working, Path, EncPath, WholeAtPath
<1>7. MixtureInv'
  <2>1. \A e \in Download : Unfinished(e) => Unfinished(e)'
      BY <1>2 DEF Unfinished, Late
  <2> QED
      BY <1>2, <2>1 DEF MixtureInv, Late, Raw
<1> QED
    BY <1>1, <1>4, <1>5, <1>6, <1>7

-----------------------------------------------------------------------------
(* A download that goes on: one lemma per part of the invariant. *)

LEMMA SharedStep ==
    ASSUME IInv, NEW d \in Download, ManageDownload(d)
    PROVE  SharedInv'
<1>1. /\ file' = file /\ shared' = shared /\ Active(d)
      /\ \A e \in Download \ {d} : pc'[e] = pc[e]
    BY Moves DEF IInv
<1> QED
    BY <1>1 DEF IInv, SharedInv, Active

\* Only its creation and its removal change what is at an encPath.
LEMMA EncUnchanged ==
    ASSUME NEW d \in Download, ManageDownload(d), ~CreateEnc(d), ~Cleanup(d)
    PROVE  encAt' = encAt /\ handle' = handle
    BY DEF ManageDownload, InitDownload, DataFails, Copy, CopyErrorBody, CopyFails, FetchMeta, Check,
           Decrypt, WriteRaw, Verify, ProcessDownload, diskVars

LEMMA PathStep ==
    ASSUME IInv, NEW d \in Download, ManageDownload(d)
    PROVE  PathInv'
<1> USE DEF IInv
<1>1. /\ file' = file /\ \A e \in Download \ {d} : pc'[e] = pc[e]
      /\ pc[d] \in Holding /\ pc'[d] \notin Holding => Cleanup(d)
      /\ file[d] \in File
    BY Moves DEF TypeOK
<1>2. CASE CreateEnc(d)
  <2>1. pc'[d] \in Holding
      BY <1>2, StepMoves DEF CreateEnc, Holding, Working
  <2>2. CASE Path(d) = NoFile
    <3>1. /\ encAt' = [encAt EXCEPT ![file[d]] = d] /\ handle' = [handle EXCEPT ![d] = d]
        BY <1>2, <2>2 DEF CreateEnc, EncPath
    <3> QED
        BY <1>1, <2>1, <3>1 DEF PathInv, TypeOK
  <2>3. CASE Path(d) # NoFile
    <3>1. encAt' = encAt /\ handle' = [handle EXCEPT ![d] = encAt[file[d]]]
        BY <1>2, <2>3 DEF CreateEnc, EncPath, Path
    <3>2. file[encAt[file[d]]] = file[d]
        BY <1>1, <2>3 DEF PathInv, Path, EncPath
    <3> QED
        BY <1>1, <2>1, <3>1, <3>2 DEF PathInv, TypeOK
  <2> QED
      BY <2>2, <2>3
<1>3. CASE Cleanup(d)
  <2>1. handle' = handle
      BY <1>3 DEF Cleanup
  <2>2. CASE encAt' = [encAt EXCEPT ![file[d]] = NoFile]
      BY <1>1, <2>1, <2>2 DEF PathInv, TypeOK
  <2>3. CASE encAt' = encAt /\ pc'[d] = "cleanup"
      BY <1>1, <2>1, <2>3 DEF PathInv, Holding
  <2> QED
      BY <1>3, <2>2, <2>3, StepMoves DEF Cleanup, EncPath
<1>4. CASE ~CreateEnc(d) /\ ~Cleanup(d)
  <2>1. encAt' = encAt /\ handle' = handle
      BY <1>4, EncUnchanged
  <2> QED
      BY <1>1, <1>4, <2>1 DEF PathInv
<1> QED
    BY <1>2, <1>3, <1>4

\* Whose copy a step writes to.
LEMMA CopiedOf ==
    ASSUME IInv, NEW d \in Download, ManageDownload(d), NEW e \in Download, copied'[e] # copied[e]
    PROVE  file[e] = file[d] /\ pc[d] \in {"data", "copy"}
<1> USE DEF IInv
<1>1. CASE CreateEnc(d)
  <2>1. e = d \/ (Path(d) # NoFile /\ e = Path(d))
      BY <1>1 DEF CreateEnc, TypeOK
  <2> QED
      BY <1>1, <2>1, StepMoves DEF CreateEnc, PathInv, Path, EncPath, TypeOK
<1>2. CASE Copy(d) \/ CopyErrorBody(d)
  <2>1. e = handle[d]
      BY <1>2 DEF Copy, CopyErrorBody, TypeOK
  <2> QED
      BY <1>2, <2>1, StepMoves DEF Copy, CopyErrorBody, PathInv
<1>3. CASE copied' = copied
    BY <1>3
<1> QED
    BY <1>1, <1>2, <1>3 DEF ManageDownload, InitDownload, DataFails, CopyFails, FetchMeta, Check,
        Decrypt, WriteRaw, Verify, Cleanup, ProcessDownload, diskVars

LEMMA OwnStep ==
    ASSUME IInv, NEW d \in Download, ManageDownload(d)
    PROVE  OwnInv'
<1> USE DEF IInv
<1>1. /\ file' = file /\ shared' = shared /\ Active(d)
      /\ \A e \in Download \ {d} : pc'[e] = pc[e]
      /\ pc'[d] \in Working => pc[d] \in Working \/ CreateEnc(d)
      /\ pc'[d] = "decrypt" => WholeAtPath(d) /\ pc[d] = "check"
    BY Moves
<1> SUFFICES ASSUME NEW e \in Download, ~shared[e]
             PROVE  /\ pc'[e] \in Working => Path(e)' = e /\ handle'[e] = e
                    /\ pc'[e] = "decrypt" => WholeAtPath(e)'
    BY <1>1 DEF OwnInv
<1>2. CASE e # d
  <2> SUFFICES ASSUME pc[e] \in Working
               PROVE  Path(e)' = Path(e) /\ handle'[e] = handle[e] /\ copied'[e] = copied[e]
      BY <1>1, <1>2 DEF OwnInv, WholeAtPath, Working
  <2>1. file[e] # file[d]
      BY <1>1, <1>2 DEF SharedInv, Active, Working
  <2>2. copied'[e] = copied[e]
      BY <2>1, CopiedOf
  <2>3. Path(e)' = Path(e) /\ handle'[e] = handle[e]
    <3>1. CASE CreateEnc(d) \/ Cleanup(d)
        BY <1>1, <1>2, <2>1, <3>1 DEF CreateEnc, Cleanup, Path, EncPath, TypeOK
    <3>2. CASE ~CreateEnc(d) /\ ~Cleanup(d)
        BY <1>1, <3>2, EncUnchanged DEF Path, EncPath
    <3> QED
        BY <3>1, <3>2
  <2> QED
      BY <2>2, <2>3
<1>3. CASE e = d /\ CreateEnc(d)
  <2>1. pc[d] = "data" /\ pc'[d] = "copy" /\ file[d] \in File
      BY <1>3, StepMoves DEF CreateEnc, TypeOK
  <2>2. Path(d) = NoFile
    <3> SUFFICES ASSUME Path(d) # NoFile PROVE FALSE
        OBVIOUS
    <3>1. PICK b \in Download : file[b] = file[d] /\ pc[b] \in Holding
        BY <2>1 DEF PathInv, Path, EncPath
    <3>2. b # d /\ Active(b)
        BY <2>1, <3>1 DEF Holding, Working, Active
    <3> QED
        BY <1>1, <1>3, <3>1, <3>2 DEF SharedInv
  <2>3. Path(d)' = d /\ handle'[d] = d
      BY <1>1, <1>3, <2>1, <2>2 DEF CreateEnc, Path, EncPath, TypeOK
  <2> QED
      BY <1>3, <2>1, <2>3
<1>4. CASE e = d /\ ~CreateEnc(d)
  <2> SUFFICES ASSUME pc'[d] \in Working
               PROVE  /\ Path(d)' = d /\ handle'[d] = d
                      /\ pc'[d] = "decrypt" => WholeAtPath(d)'
      BY <1>4 DEF Working
  <2>1. Path(d) = d /\ handle[d] = d
      BY <1>1, <1>4 DEF OwnInv
  <2>2. ~Cleanup(d)
      BY <1>1, <1>4, StepMoves DEF Cleanup, Working
  <2>3. Path(d)' = d /\ handle'[d] = d
      BY <1>1, <1>4, <2>1, <2>2, EncUnchanged DEF Path, EncPath
  <2>4. ASSUME pc'[d] = "decrypt" PROVE WholeAtPath(d)'
    <3>1. copied'[d] = copied[d]
        BY <1>1, <2>4, CopiedOf
    <3> QED
        BY <1>1, <2>1, <2>3, <2>4, <3>1 DEF WholeAtPath, Piece
  <2> QED
      BY <2>3, <2>4
<1> QED
    BY <1>2, <1>3, <1>4

\* Only decryption and its write change what is at a name.
LEMMA RawUnchanged ==
    ASSUME NEW d \in Download, ManageDownload(d), ~Decrypt(d), ~WriteRaw(d)
    PROVE  rawAt' = rawAt
    BY DEF ManageDownload, InitDownload, DataFails, CreateEnc, Copy, CopyErrorBody, CopyFails,
           FetchMeta, Check, Verify, Cleanup, ProcessDownload, diskVars

LEMMA MixtureStep ==
    ASSUME IInv, NEW d \in Download, ManageDownload(d)
    PROVE  MixtureInv'
<1> USE DEF IInv
<1>1. /\ file' = file
      /\ \A e \in Download \ {d} : pc'[e] = pc[e] /\ named'[e] = named[e]
      /\ pc[d] \in Late => pc'[d] \in Late /\ named' = named
      /\ pc'[d] \notin Late => named' = named
    BY Moves
<1>2. \A e \in Download : pc'[e] \notin Late => ~named'[e]
    BY <1>1 DEF MixtureInv
<1>3. \A e \in Download \ {d} : Raw(e)' = Raw(e) /\ (Unfinished(e) => Unfinished(e)')
    BY <1>1 DEF Raw, Unfinished
<1>4. Raw(d)' = Raw(d) /\ Raw(d) \in Name /\ file[d] \in File /\ file[d] # Partial
    BY <1>1, DownloadAssumption DEF Raw, TypeOK
<1> SUFFICES ASSUME NEW n \in Name, rawAt'[n] = Partial
             PROVE  \E e \in Download : Raw(e)' = n /\ Unfinished(e)'
    BY <1>2 DEF MixtureInv
<1>5. CASE Decrypt(d) \/ WriteRaw(d)
  <2>1. Unfinished(d)'
    <3>1. ~named[d] /\ named' = named
        BY <1>5, StepMoves DEF Decrypt, WriteRaw, Fail, MixtureInv, Late
    <3>2. pc'[d] \in {"write", "verify", "cleanup"}
        BY <1>5, StepMoves DEF Decrypt, WriteRaw, Fail
    <3> QED
        BY <3>1, <3>2 DEF Unfinished, Late
  <2>2. n # Raw(d) => rawAt'[n] = rawAt[n]
      BY <1>4, <1>5 DEF Decrypt, WriteRaw, TypeOK
  <2> QED
      BY <1>3, <1>4, <2>1, <2>2 DEF MixtureInv
<1>6. CASE ~Decrypt(d) /\ ~WriteRaw(d)
  <2>1. rawAt[n] = Partial
      BY <1>6, RawUnchanged
  <2>2. PICK e \in Download : Raw(e) = n /\ Unfinished(e)
      BY <2>1 DEF MixtureInv
  <2>3. CASE e # d
      BY <1>3, <2>2, <2>3
  <2>4. CASE e = d
    <3>1. CASE pc[d] \in Late
        BY <1>1, <1>4, <2>2, <2>4, <3>1 DEF Unfinished, Late
    <3>2. CASE pc[d] \notin Late
      <4>1. pc[d] \in {"write", "verify"}
          BY <2>2, <2>4, <3>2 DEF Unfinished
      <4>2. Verify(d)
          BY <1>6, <4>1, StepMoves DEF ManageDownload, InitDownload, DataFails, CreateEnc, Copy,
              CopyErrorBody, CopyFails, FetchMeta, Check, Cleanup, ProcessDownload, Fail
      <4>3. Fail(d, "verify") /\ named' = named
          BY <1>4, <2>1, <2>2, <2>4, <4>2 DEF Verify
      <4>4. pc'[d] = "cleanup" /\ ~named'[d]
          BY <3>2, <4>3, StepMoves DEF Fail, MixtureInv
      <4> QED
          BY <1>4, <2>2, <2>4, <4>4 DEF Unfinished, Late
    <3> QED
        BY <3>1, <3>2
  <2> QED
      BY <2>3, <2>4
<1> QED
    BY <1>5, <1>6

-----------------------------------------------------------------------------
(* The theorems. *)

LEMMA NextIInv == IInv /\ [Next]_vars => IInv'
<1> SUFFICES ASSUME IInv, [Next]_vars PROVE IInv'
    OBVIOUS
<1>1. ASSUME NEW d \in Download, Start(d) PROVE IInv'
    BY <1>1, StartIInv
<1>2. ASSUME NEW d \in Download, ManageDownload(d) PROVE IInv'
    BY <1>2, TypeStep, SharedStep, PathStep, OwnStep, MixtureStep DEF IInv
<1>3. CASE UNCHANGED vars
    BY <1>3 DEF vars, diskVars, resultVars, IInv, TypeOK, SharedInv, Active, PathInv, OwnInv, Path,
        EncPath, WholeAtPath, MixtureInv, Unfinished, Raw
<1> QED
    BY <1>1, <1>2, <1>3 DEF Next

\* The inductive invariant holds throughout.
THEOREM Inductive == Spec => []IInv
    BY InitIInv, NextIInv, PTL DEF Spec

\* Every state is well formed, whatever the downloads share (ManageDownload).
THEOREM DownloadTypeCorrect == Spec => []TypeOK
<1>1. IInv => TypeOK
    BY DEF IInv
<1> QED
    BY <1>1, Inductive, PTL

\* When every download has ended, however it ended, no encrypted copy is left
\* (the deferred os.Remove of ManageDownload).
THEOREM NoCopyLeft == Spec => []NoEncryptedCopyLeft
<1>1. IInv => NoEncryptedCopyLeft
    BY DEF IInv, PathInv, NoEncryptedCopyLeft, Active, Holding, Working
<1> QED
    BY <1>1, Inductive, PTL

\* A download that no other of its file overlaps works on the copy it made, and
\* decrypts what it checked (downloadData, checkDownloads, DecryptFile).
THEOREM OwnCopy == Spec => []FindsItsOwnCopy
<1>1. IInv => FindsItsOwnCopy
    BY DEF IInv, OwnInv, FindsItsOwnCopy, Working
<1> QED
    BY <1>1, Inductive, PTL

\* When all downloads of a name succeeded, the file there is one of them, whole
\* (os.WriteFile, and the HMAC that is compared afterwards).
THEOREM NoMixtureLeft == Spec => []NamedLeavesWholeFile
<1>1. IInv => NamedLeavesWholeFile
    BY DEF IInv, MixtureInv, NamedLeavesWholeFile, Unfinished, Late
<1> QED
    BY <1>1, Inductive, PTL
=============================================================================
