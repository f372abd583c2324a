------------------------------- MODULE Sealing -------------------------------
(***************************************************************************)
(* How a file is sealed for a bucket and opened again (encryptFile,        *)
(* checkDownloads, getMetadata and the unwrapping of ManageDownload in     *)
(* stages/interaction/service.go), in the terms of Cipher.  Download has   *)
(* the download step by step; here is only what it computes.               *)
(***************************************************************************)
EXTENDS Sequences, Cipher

CONSTANTS NoFilePassword        \* the field was left empty

FileKey(u)        == Random(u, "fileKey")
BKey(bucPass, u)  == GetKEKWithSalt(bucPass, Random(u, "bKeySalt"))
PKey(pwd, u)      == GetKEKWithSalt(Typed(pwd), Random(u, "pKeySalt"))

EncryptFile(u, raw) == Encrypt(FileKey(u), Random(u, "fileNonce"), raw)

-----------------------------------------------------------------------------
(* encryptFile: the keys and the metadata. *)

\* Mutant of WrappedKey: the file password wraps the file's key itself.
WrappedOnce(bucPass, pwd, u) ==
    IF pwd = NoFilePassword
    THEN Wrap(BKey(bucPass, u), Random(u, "bNonce"), FileKey(u))
    ELSE Wrap(PKey(pwd, u), Random(u, "pNonce"), FileKey(u))

\* The file's key, wrapped for the bucket and again for the file password.
WrappedKey(bucPass, pwd, u) ==
    LET wedKey == Wrap(BKey(bucPass, u), Random(u, "bNonce"), FileKey(u))
    IN  IF pwd = NoFilePassword THEN wedKey
        ELSE Wrap(PKey(pwd, u), Random(u, "pNonce"), wedKey)

MetaData(bucPass, pwd, u, raw) ==
    [RawDataChecksum |-> GetHMAC(BKey(bucPass, u), raw),
     HasFilePassword |-> pwd # NoFilePassword,
     FileCipher |-> [FileNonce |-> Random(u, "fileNonce"), BKeySalt |-> Random(u, "bKeySalt"),
                     PKeySalt |-> Random(u, "pKeySalt"), BWrappedKeyNonce |-> Random(u, "bNonce"),
                     WrappedKeyNonce |-> Random(u, "pNonce"),
                     WrappedKey |-> WrappedKey(bucPass, pwd, u)]]

\* The metadata with its checksum, under the bucket's key.
EncMeta(bucPass, pwd, u, raw) ==
    LET meta == MetaData(bucPass, pwd, u, raw)
    IN  [MetaNonce |-> Random(u, "metaNonce"),
         EncMeta |-> Encrypt(bucPass, Random(u, "metaNonce"),
                             <<"wrapper", GetHMAC(BKey(bucPass, u), meta), meta>>)]

-----------------------------------------------------------------------------
(* A file on the server: its data as received, its metadata, its digests. *)

CheckDownloads(f) ==
    f.dataChecksum = GetSHA(f.data) /\ f.metaChecksum = GetSHA(f.meta.EncMeta)

\* <<"meta", the metadata>>, or Fail.
GetMetadata(f, bucPass) ==
    LET wrapper == Decrypt(bucPass, f.meta.MetaNonce, f.meta.EncMeta)
        bKey    == GetKEKWithSalt(bucPass, wrapper[3].FileCipher.BKeySalt)
    IN  IF wrapper # Fail /\ wrapper[2] = GetHMAC(bKey, wrapper[3])
        THEN <<"meta", wrapper[3]>> ELSE Fail

\* The password unwraps only a key that has one, and only when it is given.
UnWrapped(meta, pwd) ==
    LET cipher == meta.FileCipher
    IN  IF meta.HasFilePassword /\ pwd # NoFilePassword
        THEN UnWrap(GetKEKWithSalt(Typed(pwd), cipher.PKeySalt), cipher.WrappedKeyNonce,
                    cipher.WrappedKey)
        ELSE cipher.WrappedKey

\* Mutant of Opened: the checksum of the raw file is not compared.
OpenedUnchecked(f, bucPass, pwd) ==
    LET got    == GetMetadata(f, bucPass)
        cipher == got[2].FileCipher
        wedKey == UnWrapped(got[2], pwd)
        fKey   == UnWrap(GetKEKWithSalt(bucPass, cipher.BKeySalt), cipher.BWrappedKeyNonce, wedKey)
    IN  IF ~CheckDownloads(f) \/ got = Fail \/ wedKey = Fail \/ fKey = Fail THEN Fail
        ELSE Decrypt(fKey, cipher.FileNonce, f.data)

\* What ManageDownload returns for a bucket's key and a file password: the raw
\* file, or Fail.
Opened(f, bucPass, pwd) ==
    LET got    == GetMetadata(f, bucPass)
        cipher == got[2].FileCipher
        wedKey == UnWrapped(got[2], pwd)
        bKey   == GetKEKWithSalt(bucPass, cipher.BKeySalt)
        fKey   == UnWrap(bKey, cipher.BWrappedKeyNonce, wedKey)
        raw    == Decrypt(fKey, cipher.FileNonce, f.data)
    IN  IF ~CheckDownloads(f) \/ got = Fail \/ wedKey = Fail \/ fKey = Fail \/ raw = Fail
           \/ GetHMAC(bKey, raw) # got[2].RawDataChecksum
        THEN Fail ELSE raw
=============================================================================
