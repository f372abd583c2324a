-------------------------------- MODULE Vault --------------------------------
(***************************************************************************)
(* A bucket from its creation to a file that comes out of it: Entry makes  *)
(* and enters buckets, and here one path is uploaded into the bucket that  *)
(* was entered, again and again and at the same time (processUpload starts *)
(* a goroutine each), while the file changes under it and the program is   *)
(* killed and started again.  The uploads of a path share one encrypted    *)
(* copy, named after the path (service.go:137).                            *)
(*                                                                         *)
(* The workers of an upload and the server's bookkeeping are in Upload,    *)
(* what becomes of the secrets under a logout in Session: here the parts   *)
(* go out in order, and a bucket is left when no upload runs.              *)
(***************************************************************************)
EXTENDS Entry, Sealing

CONSTANTS Upload,               \* uploads (a bound)
          FilePassword,         \* passwords typed for a file
          MaxVersion,           \* versions of the file (a bound)
          Parts                 \* parts of an upload

ASSUME VaultAssumption ==
    /\ NoFilePassword \notin FilePassword /\ 0 \notin Upload
    /\ MaxVersion \in Nat \ {0} /\ Parts \in Nat \ {0}

VARIABLES version,              \* of the raw file
          encPath,              \* the inode at the path of the encrypted copy, or None
          inode,                \* what each inode holds; they are named by their creator
          up,                   \* the uploads
          files                 \* server: what it has of each completed upload

diskVars  == <<version, encPath, inode>>
vaultVars == <<version, encPath, inode, up, files>>
vars      == <<entryVars, vaultVars>>

None    == 0
Nothing == <<"nothing">>
Raw(v)  == <<"raw", v>>
Partial == <<"partial">>        \* a ciphertext whose writing failed on the way

NotStarted == [pc |-> "off", pwd |-> NoFilePassword, into |-> NoKey, encrypted |-> 0,
               hashed |-> 0, meta |-> [EncMeta |-> Nothing], encFile |-> None,
               sent |-> <<>>, alone |-> TRUE]

Init ==
    /\ EntryInit
    /\ version = 1 /\ encPath = None /\ inode = [u \in Upload |-> Nothing]
    /\ up = [u \in Upload |-> NotStarted] /\ files = [u \in Upload |-> Nothing]

Running(u) == up[u].pc \notin {"off", "done"}
Stored(u)  == files[u] # Nothing
NoUpload   == \A u \in Upload : ~Running(u)

Over(u)           == IF Stored(u) THEN [up[u] EXCEPT !.pc = "done", !.sent = <<>>]
                     ELSE [NotStarted EXCEPT !.pc = "done"]
GiveUp(u)         == up' = [up EXCEPT ![u].pc = "cleanup"]

-----------------------------------------------------------------------------
(* Around the uploads. *)

\* "Yes" on the upload page, when the creations are over (a bound).  alone
\* (history) is whether no other upload of the path ran at the same time.
StartUpload(u, pwd) ==
    /\ focus = "bucket" /\ up[u].pc = "off" /\ \A c \in Creation : creation[c] = "done"
    /\ up' = [v \in Upload |->
                IF v = u THEN [NotStarted EXCEPT !.pc = "encrypt", !.pwd = pwd, !.into = bucket,
                                                 !.alone = NoUpload]
                ELSE [up[v] EXCEPT !.alone = @ /\ ~Running(v)]]
    /\ UNCHANGED <<entryVars, diskVars, files>>

\* The file changes; it matters when an upload runs.
ChangeFile ==
    /\ ~NoUpload /\ version < MaxVersion /\ version' = version + 1
    /\ UNCHANGED <<entryVars, encPath, inode, up, files>>

\* The program is gone and is started again: its files and the server stay.
Restart ==
    /\ focus' = "menu" /\ form' = NewForm /\ bucket' = NoKey /\ bucPass' = Zeros
    /\ creation' = [c \in Creation |-> IF Active(c) THEN "done" ELSE creation[c]]
    /\ typed' = [c \in Creation |-> NoPassword] /\ granted' = [c \in Creation |-> NoKey]
    /\ attached' = [c \in Creation |-> TRUE] /\ entering' = "off" /\ overlapped' = FALSE
    /\ UNCHANGED buckets
    /\ up' = [u \in Upload |-> IF Running(u) THEN Over(u) ELSE up[u]]

Killed == Restart /\ UNCHANGED <<diskVars, files>>

Leave == NoUpload /\ Logout /\ UNCHANGED vaultVars

-----------------------------------------------------------------------------
(* ManageUpload *)

\* os.WriteFile makes the file at the path, or truncates the one that is there.
WriteCopy(u, copy) ==
    LET i == IF encPath = None THEN u ELSE encPath
    IN  encPath' = i /\ inode' = [inode EXCEPT ![i] = copy]

\* EncryptFile: the file is read, and written over what is at the path; a write
\* that fails leaves a part of it there, also where another upload's copy was.
EncryptCopy(u) ==
    /\ up[u].pc = "encrypt"
    /\ \/ /\ up' = [up EXCEPT ![u].pc = "hash", ![u].encrypted = version]
          /\ WriteCopy(u, EncryptFile(u, Raw(version)))
       \/ GiveUp(u) /\ (WriteCopy(u, Partial) \/ UNCHANGED <<encPath, inode>>)
    /\ UNCHANGED <<entryVars, version, files>>

\* The rest of encryptFile: the file is read again, for its checksum.
HashFile(u) ==
    /\ up[u].pc = "hash"
    /\ \/ up' = [up EXCEPT ![u].pc = "open", ![u].hashed = version,
                           ![u].meta = EncMeta(bucPass, up[u].pwd, u, Raw(version))]
       \/ GiveUp(u)
    /\ UNCHANGED <<entryVars, diskVars, files>>

\* Mutant of OpenCopy: that there is no file is not noticed.
OpenCopyUnchecked(u) ==
    /\ up[u].pc = "open" /\ up' = [up EXCEPT ![u].pc = "send", ![u].encFile = encPath]
    /\ UNCHANGED <<entryVars, diskVars, files>>

\* The upload is announced and os.Open takes the file at the path.
OpenCopy(u) ==
    /\ up[u].pc = "open"
    /\ \/ encPath # None /\ up' = [up EXCEPT ![u].pc = "send", ![u].encFile = encPath]
       \/ GiveUp(u)
    /\ UNCHANGED <<entryVars, diskVars, files>>

\* A part is read from the open file, whatever it holds by now.
SendPart(u) ==
    /\ up[u].pc = "send" /\ Len(up[u].sent) < Parts
    /\ \/ up' = [up EXCEPT ![u].sent = Append(@, inode[up[u].encFile])]
       \/ GiveUp(u)
    /\ UNCHANGED <<entryVars, diskVars, files>>

\* Parts of one ciphertext are that ciphertext.
Joined(parts) ==
    IF \A i \in DOMAIN parts : parts[i] = parts[1] THEN parts[1] ELSE <<"mixed", parts>>

\* completeUpload: the checksum is of the file at the path; an answer may be
\* lost after the file is stored.
Complete(u) ==
    /\ up[u].pc = "send" /\ Len(up[u].sent) = Parts
    /\ GiveUp(u)
    /\ \/ /\ encPath # None
          /\ files' = [files EXCEPT ![u] =
                        <<"file", [data |-> Joined(up[u].sent), meta |-> up[u].meta,
                                   dataChecksum |-> GetSHA(inode[encPath]),
                                   metaChecksum |-> GetSHA(up[u].meta.EncMeta)]>>]
       \/ UNCHANGED files
    /\ UNCHANGED <<entryVars, diskVars>>

\* The deferred Remove; a panic when there is nothing to remove.
Cleanup(u) ==
    /\ up[u].pc = "cleanup"
    /\ \/ encPath # None /\ encPath' = None /\ up' = [up EXCEPT ![u] = Over(u)]
          /\ UNCHANGED entryVars
       \/ encPath = None /\ Restart /\ UNCHANGED encPath
    /\ UNCHANGED <<version, inode, files>>

ManageUpload(u) ==
    EncryptCopy(u) \/ HashFile(u) \/ OpenCopy(u) \/ SendPart(u) \/ Complete(u) \/ Cleanup(u)

Next ==
    \/ EntryNext /\ UNCHANGED vaultVars
    \/ Leave \/ ChangeFile \/ Killed
    \/ \E u \in Upload : ManageUpload(u)
    \/ \E u \in Upload, pwd \in FilePassword \cup {NoFilePassword} : StartUpload(u, pwd)

Spec == Init /\ [][Next]_vars

-----------------------------------------------------------------------------
(* Properties. *)

TypeOK ==
    /\ EntryTypeOK
    /\ version \in 1 .. MaxVersion /\ encPath \in {None} \cup Upload
    /\ DOMAIN inode = Upload /\ DOMAIN files = Upload
    /\ \A u \in Upload :
        /\ up[u].pc \in {"off", "encrypt", "hash", "open", "send", "cleanup", "done"}
        /\ up[u].pwd \in FilePassword \cup {NoFilePassword}
        /\ up[u].into \in {NoKey} \cup DOMAIN buckets
        /\ up[u].encrypted \in 0 .. MaxVersion /\ up[u].hashed \in 0 .. MaxVersion
        /\ up[u].pc = "send" => up[u].encFile \in Upload
        /\ Len(up[u].sent) <= Parts /\ up[u].alone \in BOOLEAN

\* The key that a login into bucket k gives.
KeyOf(k) == BucketKey(k, Typed(buckets[k].pwd))

\* An upload that completed, had the path to itself and read the same file both
\* times can be downloaded by whoever enters its bucket with the password it was
\* created with and gives the file password, and yields that file, also after
\* other uploads, logouts and restarts.  It speaks of uploads that ran within one
\* stay in the bucket: Leave waits for them, which Alt-L (files.go:65-68) does
\* not; what a logout makes of an upload under way is Session's subject.
CompletedOpens ==
    \A u \in Upload :
        Stored(u) /\ up[u].alone /\ up[u].encrypted = up[u].hashed =>
            Opened(files[u][2], KeyOf(up[u].into), up[u].pwd) = Raw(up[u].hashed)

\* What passes every check of a download was opened in the bucket it was
\* uploaded to and with its file password, and is one file that the upload read
\* both times: a copy that was shared, replaced on the way, or sealed from two
\* versions of the file never comes out as a good file.
OpensOnlyItsOwn ==
    \A u \in Upload, k \in DOMAIN buckets, pwd \in FilePassword \cup {NoFilePassword} :
        Stored(u) /\ Opened(files[u][2], KeyOf(k), pwd) # Fail =>
            /\ k = up[u].into
            /\ up[u].pwd # NoFilePassword => pwd = up[u].pwd
            /\ up[u].encrypted = up[u].hashed
            /\ Opened(files[u][2], KeyOf(k), pwd) = Raw(up[u].encrypted)
=============================================================================
