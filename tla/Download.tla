------------------------------ MODULE Download ------------------------------
(***************************************************************************)
(* Calls of Service.ManageDownload (stages/interaction/service.go), each   *)
(* in the goroutine of a processDownload, over the one working directory   *)
(* they share.  The encrypted file is kept at a path made of the file's    *)
(* id, the decrypted one at a path made of its name: two downloads of one  *)
(* file share the first, two files of one name share the second.           *)
(*                                                                         *)
(* The directory behaves as on Unix: os.Create truncates a file that is    *)
(* there, os.Remove takes away the path and leaves the open file to its    *)
(* writer.  A file of pieces is the set of pieces it holds: every writer   *)
(* of a path writes the same bytes at the same place.                      *)
(***************************************************************************)
EXTENDS Integers

CONSTANTS Download,     \* the goroutines
          File, Name,   \* files on the server, names in the directory
          NameOf,       \* the name each file was uploaded with
          Pieces        \* how many buffers the data takes

NoFile   == "none"      \* nothing at a path
Partial  == "partial"   \* bytes that are no file of the server's

ASSUME DownloadAssumption ==
    /\ NameOf \in [File -> Name]
    /\ Pieces \in Nat \ {0}
    /\ NoFile \notin Download /\ {NoFile, Partial} \cap File = {}

VARIABLES
    pc,         \* per download: its step
    file,       \* the file it downloads
    next,       \* the piece it copies next
    encAt,      \* per file: the download that created the file at encPath
    copied,     \* per download: the pieces in the encrypted file it created
    handle,     \* whose encrypted file it has open
    rawAt,      \* per name: what the directory holds
    err,        \* ManageDownload's named result: is an error set?
    named,      \* does it return the file's name?
    ui,         \* what processDownload told the user
    shared,     \* history: it ran at the same time as another of its file
    crashed

diskVars   == <<encAt, copied, rawAt>>
resultVars == <<err, named, ui>>
vars == <<pc, file, next, handle, diskVars, resultVars, shared, crashed>>

Piece == 1 .. Pieces

Init ==
    /\ pc = [d \in Download |-> "off"]
    /\ file \in [Download -> File]
    /\ next = [d \in Download |-> 1]
    /\ encAt = [f \in File |-> NoFile]
    /\ copied = [d \in Download |-> {}]
    /\ handle = [d \in Download |-> d]
    /\ rawAt = [n \in Name |-> NoFile]
    /\ err = [d \in Download |-> FALSE]
    /\ named = [d \in Download |-> FALSE]
    /\ ui = [d \in Download |-> "none"]
    /\ shared = [d \in Download |-> FALSE]
    /\ crashed = FALSE

Step(d, from, to) == pc[d] = from /\ pc' = [pc EXCEPT ![d] = to]

\* An early return: past the Init request every one runs the deferred removal.
Fail(d, from) == Step(d, from, "cleanup") /\ err' = [err EXCEPT ![d] = TRUE]

Active(d) == pc[d] \notin {"off", "end"}

\* The name d decrypts to.
Raw(d) == NameOf[file[d]]

\* Mutant of EncPath: the path is made of the file's name, not of its id.
EncPathOfName(d) == CHOOSE f \in File : NameOf[f] = Raw(d)

\* ".goXfer.<id>.enc", named by the file whose id it is made of.
EncPath(d) == file[d]

\* What is at d's encPath.
Path(d) == encAt[EncPath(d)]

-----------------------------------------------------------------------------
Start(d) ==
    /\ Step(d, "off", "init")
    /\ LET others == {e \in Download : Active(e) /\ file[e] = file[d]}
       IN  shared' = [e \in Download |->
                shared[e] \/ (others # {} /\ e \in others \cup {d})]
    /\ UNCHANGED <<file, next, handle, diskVars, resultVars, crashed>>

\* The only failure that the user is told of: the removal is not deferred yet.
InitDownload(d) ==
    /\ \/ Step(d, "init", "data") /\ UNCHANGED err
       \/ Step(d, "init", "returned") /\ err' = [err EXCEPT ![d] = TRUE]
    /\ UNCHANGED <<file, next, handle, diskVars, named, ui, shared, crashed>>

\* downloadData: no answer, or one that does not say how long it is.
DataFails(d) ==
    /\ Fail(d, "data")
    /\ UNCHANGED <<file, next, handle, diskVars, named, ui, shared, crashed>>

\* os.Create(encPath)
CreateEnc(d) ==
    /\ Step(d, "data", "copy")
    /\ IF Path(d) = NoFile
       THEN /\ encAt' = [encAt EXCEPT ![EncPath(d)] = d]
            /\ copied' = [copied EXCEPT ![d] = {}]
            /\ handle' = [handle EXCEPT ![d] = d]
       ELSE /\ copied' = [copied EXCEPT ![Path(d)] = {}]
            /\ handle' = [handle EXCEPT ![d] = Path(d)]
            /\ UNCHANGED encAt
    /\ UNCHANGED <<file, next, rawAt, resultVars, shared, crashed>>

\* Mutant of Copy: one buffer too many.
CopyOneMore(d) ==
    /\ IF next[d] <= Pieces + 1
       THEN /\ Step(d, "copy", "copy")
            /\ copied' = [copied EXCEPT ![handle[d]] = @ \cup {next[d]}]
            /\ next' = [next EXCEPT ![d] = @ + 1]
       ELSE Step(d, "copy", "meta") /\ UNCHANGED <<copied, next>>
    /\ UNCHANGED <<file, handle, encAt, rawAt, resultVars, shared, crashed>>

\* The body is read and written, buffer by buffer, up to its end.
Copy(d) ==
    /\ IF next[d] <= Pieces
       THEN /\ Step(d, "copy", "copy")
            /\ copied' = [copied EXCEPT ![handle[d]] = @ \cup {next[d]}]
            /\ next' = [next EXCEPT ![d] = @ + 1]
       ELSE Step(d, "copy", "meta") /\ UNCHANGED <<copied, next>>
    /\ UNCHANGED <<file, handle, encAt, rawAt, resultVars, shared, crashed>>

\* The status is not looked at: an error's short body overwrites the first piece.
CopyErrorBody(d) ==
    /\ next[d] = 1
    /\ Step(d, "copy", "meta")
    /\ copied' = [copied EXCEPT ![handle[d]] = @ \ {1}]
    /\ UNCHANGED <<file, next, handle, encAt, rawAt, resultVars, shared, crashed>>

CopyFails(d) ==
    /\ Fail(d, "copy")
    /\ UNCHANGED <<file, next, handle, diskVars, named, ui, shared, crashed>>

\* downloadMeta and downloadDigest.
FetchMeta(d) ==
    /\ \/ Step(d, "meta", "check") /\ UNCHANGED err
       \/ Fail(d, "meta")
    /\ UNCHANGED <<file, next, handle, diskVars, named, ui, shared, crashed>>

WholeAtPath(d) == Path(d) # NoFile /\ copied[Path(d)] = Piece

\* checkDownloads, getMetadata and the unwrapping of the file's key, which a
\* wrong password fails.
Check(d) ==
    /\ \/ WholeAtPath(d) /\ Step(d, "check", "decrypt") /\ UNCHANGED err
       \/ Fail(d, "check")
    /\ UNCHANGED <<file, next, handle, diskVars, named, ui, shared, crashed>>

\* DecryptFile reads and opens what is at encPath now; os.WriteFile truncates
\* what is at rawPath.
Decrypt(d) ==
    /\ \/ /\ WholeAtPath(d)
          /\ Step(d, "decrypt", "write")
          /\ rawAt' = [rawAt EXCEPT ![Raw(d)] = Partial]
          /\ UNCHANGED err
       \/ Fail(d, "decrypt") /\ UNCHANGED rawAt
    /\ UNCHANGED <<file, next, handle, encAt, copied, named, ui, shared, crashed>>

\* The write may fail half way.  Over another file's bytes, written since the
\* path was truncated, it leaves its own file if it is the longer one.
WriteRaw(d) ==
    /\ \/ /\ Step(d, "write", "verify")
          /\ rawAt' \in {[rawAt EXCEPT ![Raw(d)] = c] :
                c \in IF rawAt[Raw(d)] \in {Partial, file[d]} THEN {file[d]}
                      ELSE {file[d], Partial}}
          /\ UNCHANGED err
       \/ Fail(d, "write") /\ rawAt' \in {rawAt, [rawAt EXCEPT ![Raw(d)] = Partial]}
    /\ UNCHANGED <<file, next, handle, encAt, copied, named, ui, shared, crashed>>

\* Mutant of Verify: the HMACs are not compared.
VerifyNothing(d) ==
    /\ Step(d, "verify", "cleanup")
    /\ named' = [named EXCEPT ![d] = TRUE]
    /\ UNCHANGED <<err, file, next, handle, diskVars, ui, shared, crashed>>

\* The HMAC of what is at rawPath now.
Verify(d) ==
    /\ \/ /\ rawAt[Raw(d)] = file[d]
          /\ Step(d, "verify", "cleanup")
          /\ named' = [named EXCEPT ![d] = TRUE]
          /\ UNCHANGED err
       \/ Fail(d, "verify") /\ UNCHANGED named
    /\ UNCHANGED <<file, next, handle, diskVars, ui, shared, crashed>>

\* Mutant of Cleanup: only a download that went well removes its copy.
CleanupIfNamed(d) ==
    /\ Step(d, "cleanup", "returned")
    /\ encAt' = IF named[d] THEN [encAt EXCEPT ![EncPath(d)] = NoFile] ELSE encAt
    /\ UNCHANGED <<file, next, handle, copied, rawAt, resultVars, shared, crashed>>

\* The deferred function: err is the named result, so a removal that succeeds
\* sets it to nil; a removal that fails panics.
Cleanup(d) ==
    /\ \/ /\ Path(d) # NoFile
          /\ Step(d, "cleanup", "returned")
          /\ encAt' = [encAt EXCEPT ![EncPath(d)] = NoFile]
          /\ err' = [err EXCEPT ![d] = FALSE]
          /\ UNCHANGED crashed
       \/ /\ Path(d) = NoFile
          /\ Step(d, "cleanup", "cleanup")
          /\ crashed' = TRUE
          /\ UNCHANGED <<encAt, err>>
    /\ UNCHANGED <<file, next, handle, copied, rawAt, named, ui, shared>>

\* processDownload looks at the returned error.
ProcessDownload(d) ==
    /\ Step(d, "returned", "end")
    /\ ui' = [ui EXCEPT ![d] = IF err[d] THEN "failed" ELSE "downloaded"]
    /\ UNCHANGED <<file, next, handle, diskVars, err, named, shared, crashed>>

-----------------------------------------------------------------------------
ManageDownload(d) ==
    \/ InitDownload(d) \/ DataFails(d) \/ CreateEnc(d)
    \/ Copy(d) \/ CopyErrorBody(d) \/ CopyFails(d)
    \/ FetchMeta(d) \/ Check(d) \/ Decrypt(d) \/ WriteRaw(d) \/ Verify(d)
    \/ Cleanup(d) \/ ProcessDownload(d)

Ended == crashed \/ \A d \in Download : pc[d] = "end"

Next ==
    \/ ~crashed /\ \E d \in Download : Start(d) \/ ManageDownload(d)
    \/ Ended /\ UNCHANGED vars

Spec == Init /\ [][Next]_vars

-----------------------------------------------------------------------------
(* Properties. *)

\* The state is well formed.
TypeOK ==
    /\ pc \in [Download -> {"off", "init", "data", "copy", "meta", "check", "decrypt", "write",
                            "verify", "cleanup", "returned", "end"}]
    /\ file \in [Download -> File]
    /\ next \in [Download -> 1 .. Pieces + 1]
    /\ encAt \in [File -> Download \cup {NoFile}]
    /\ copied \in [Download -> SUBSET Piece]
    /\ handle \in [Download -> Download]
    /\ rawAt \in [Name -> File \cup {NoFile, Partial}]
    /\ err \in [Download -> BOOLEAN] /\ named \in [Download -> BOOLEAN]
    /\ ui \in [Download -> {"none", "failed", "downloaded"}]
    /\ shared \in [Download -> BOOLEAN] /\ crashed \in BOOLEAN

\* However many downloads share a path, fail, or find it gone: when the last
\* one has ended no encrypted copy is left in the directory.
NoEncryptedCopyLeft ==
    (\A d \in Download : ~Active(d)) => \A f \in File : encAt[f] = NoFile

\* A download that has its path to itself while it runs finds there what it
\* wrote, whatever became of earlier downloads of the file; and what it decrypts
\* is what its checksum was taken of: nobody truncates or removes it in between.
FindsItsOwnCopy ==
    \A d \in Download :
        /\ ~shared[d] /\ pc[d] \in {"copy", "meta", "check", "decrypt", "write", "verify"} =>
            Path(d) = d /\ handle[d] = d
        /\ ~shared[d] /\ pc[d] = "decrypt" => WholeAtPath(d)

\* Downloads of one name that all succeeded leave a whole file behind them,
\* never a mixture of two, in whatever order they truncate, write and verify.
NamedLeavesWholeFile ==
    \A n \in Name :
        (\A d \in Download : Raw(d) = n =>
            /\ pc[d] \notin {"write", "verify"}
            /\ pc[d] \in {"cleanup", "returned", "end"} => named[d])
        => rawAt[n] # Partial

=============================================================================
