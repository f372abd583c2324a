----------------------------- MODULE VaultProofs -----------------------------
(***************************************************************************)
(* Proofs about Vault, and with it about Entry, Sealing and Cipher: for    *)
(* any passwords, any number of creations and uploads, any number of parts *)
(* and of versions of the file.                                            *)
(*                                                                         *)
(* First the terms: what opens what.  Then the entry stage: the password   *)
(* and the wrapped key of a bucket are of one creation, and no two buckets *)
(* are of the same one (MadeInv).  Then the uploads: which file each       *)
(* encrypted copy and each part is of (CopiesInv, FilesInv), and that an   *)
(* upload which has the path to itself finds its own (AloneInv).           *)
(***************************************************************************)
EXTENDS Vault, WellFoundedInduction, TLAPS

-----------------------------------------------------------------------------
(* The inductive invariant: the entry stage. *)

Key        == {Random(c, "bucketKey") : c \in Creation}
Wrapped    == {NewBucket(c, Typed(p)) : c \in Creation, p \in Password}
Sound(pwd) == pwd \in Password /\ VerifyPassFormat(Spelling[pwd])

\* Bucket k is the one that creation c made.
Made(k, c) == buckets[k].cipher = NewBucket(c, Typed(buckets[k].pwd))

\* Goroutines of the stage that is shown.
AtForm(c) == Active(c) /\ attached[c]

BucketsOK ==
    /\ buckets \in Seq([pwd : Password, cipher : Wrapped])
    /\ \A k \in DOMAIN buckets : Sound(buckets[k].pwd)

\* A bucket is of one creation, and no other bucket is of it.
MadeInv ==
    \A k \in DOMAIN buckets : \E c \in Creation :
        /\ Made(k, c) /\ creation[c] \in {"show", "done"}
        /\ \A l \in DOMAIN buckets : Made(l, c) => l = k

\* What a creation has read stays the password of its bucket.
CreationInv ==
    \A c \in Creation :
        /\ creation[c] \in {"init", "final", "show"} => Sound(typed[c])
        /\ granted[c] # NoKey => /\ creation[c] = "show"
                                 /\ buckets[granted[c]].pwd = typed[c]
        /\ ~attached[c] => creation[c] \in {"init", "final", "show"}

\* One at a time uses the forms, and while it does the form holds what it read.
FormInv ==
    ~overlapped =>
        /\ \A c, d \in Creation : AtForm(c) /\ AtForm(d) => c = d
        /\ \A c \in Creation : AtForm(c) => entering = "off"
        /\ \A c \in Creation : AtForm(c) /\ creation[c] # "begin" =>
                focus = "none" /\ form.pwd = typed[c]

\* The key and the password on the page that shows a new bucket.
ShownInv ==
    focus = "created" /\ form.key # NoKey /\ ~overlapped => Accepted(form.key, form.pwd)

\* Inside a bucket the core has its key, and the entry stage is gone.
InsideInv ==
    focus = "bucket" =>
        /\ entering = "off" /\ \A c \in Creation : ~AtForm(c)
        /\ bucket \in DOMAIN buckets /\ bucPass = KeyOf(bucket)

EntryInv ==
    /\ EntryTypeOK /\ BucketsOK /\ bucPass \in Key \cup {Zeros}
    /\ MadeInv /\ CreationInv /\ FormInv /\ ShownInv /\ InsideInv

-----------------------------------------------------------------------------
(* The inductive invariant: the uploads. *)

AnyFilePassword == FilePassword \cup {NoFilePassword}
Version         == 1 .. MaxVersion

\* What a copy and a part may hold, and what the metadata may be.
Copy == {EncryptFile(u, Raw(v)) : u \in Upload, v \in Version} \cup {Partial}
Meta == {EncMeta(b, pwd, u, Raw(v)) :
            b \in Key, pwd \in AnyFilePassword, u \in Upload, v \in Version}
        \cup {[EncMeta |-> Nothing]}

UploadState ==
    [pc : {"off", "encrypt", "hash", "open", "send", "cleanup", "done"},
     pwd : AnyFilePassword, into : Nat, encrypted : 0 .. MaxVersion, hashed : 0 .. MaxVersion,
     meta : Meta, encFile : {None} \cup Upload, sent : Seq(Copy), alone : BOOLEAN]

DiskOK ==
    /\ version \in Version /\ encPath \in {None} \cup Upload
    /\ inode \in [Upload -> Copy \cup {Nothing}] /\ up \in [Upload -> UploadState]
    /\ DOMAIN files = Upload

\* The metadata that the upload made.
OwnMeta(u) == EncMeta(KeyOf(up[u].into), up[u].pwd, u, Raw(up[u].hashed))

\* Upload u has encrypted the file, and what became of it is still known.
Known(u) == up[u].pc \in {"hash", "open", "send", "cleanup"} \/ Stored(u)

\* Where an upload is, its state goes with it.
StepInv ==
    \A u \in Upload :
        /\ Running(u) => /\ focus = "bucket" /\ up[u].into = bucket
                         /\ \A c \in Creation : creation[c] = "done"
        /\ up[u].into \in {NoKey} \cup DOMAIN buckets
        /\ up[u].pc \in {"hash", "open", "send"} => up[u].encrypted \in Version
        /\ up[u].pc \in {"open", "send"} => /\ up[u].hashed \in Version
                                            /\ up[u].meta = OwnMeta(u)
        /\ up[u].pc = "send" => up[u].encFile # None /\ inode[up[u].encFile] # Nothing
        /\ Len(up[u].sent) <= Parts
        /\ up[u].pc # "send" /\ up[u].pc # "cleanup" => up[u].sent = <<>>
        /\ Stored(u) => up[u].pc \in {"cleanup", "done"}

\* What is of upload u is of the version that it read when it encrypted.
CopiesInv ==
    /\ encPath # None => inode[encPath] # Nothing
    /\ \A i \in Upload, u \in Upload, v \in Version :
        inode[i] = EncryptFile(u, Raw(v)) =>
            /\ up[u].pc \notin {"off", "encrypt"}
            /\ Known(u) => v = up[u].encrypted
    /\ \A u \in Upload, v \in Version : \A n \in DOMAIN up[u].sent :
        up[u].sent[n] = EncryptFile(u, Raw(v)) => v = up[u].encrypted

OwnCopy(u) == EncryptFile(u, Raw(up[u].encrypted))

\* An upload that has the path to itself finds at it what it put there.
AloneInv ==
    \A u \in Upload : up[u].alone /\ Running(u) =>
        /\ \A w \in Upload : Running(w) => w = u
        /\ up[u].pc \in {"hash", "open", "send"} =>
            encPath # None /\ inode[encPath] = OwnCopy(u)
        /\ up[u].pc = "send" =>
            /\ up[u].encFile = encPath
            /\ \A n \in DOMAIN up[u].sent : up[u].sent[n] = OwnCopy(u)

\* What the server has of an upload: the parts in one, the metadata and what
\* their digests were taken of.
File(u, parts, path) ==
    <<"file", [data |-> Joined(parts), meta |-> OwnMeta(u), dataChecksum |-> GetSHA(path),
               metaChecksum |-> GetSHA(OwnMeta(u).EncMeta)]>>

Filed(u, parts, path) ==
    /\ Len(parts) = Parts /\ files[u] = File(u, parts, path)
    /\ \A v \in Version : \A n \in DOMAIN parts :
        parts[n] = EncryptFile(u, Raw(v)) => v = up[u].encrypted
    /\ up[u].alone => path = OwnCopy(u) /\ \A n \in DOMAIN parts : parts[n] = OwnCopy(u)

FilesInv ==
    \A u \in Upload : Stored(u) =>
        /\ up[u].into \in DOMAIN buckets
        /\ up[u].hashed \in Version /\ up[u].encrypted \in Version
        /\ \E parts \in Seq(Copy), path \in Copy : Filed(u, parts, path)

IInv == EntryInv /\ DiskOK /\ StepInv /\ CopiesInv /\ AloneInv /\ FilesInv

-----------------------------------------------------------------------------
(* Terms: what is equal, and what opens what. *)

LEMMA TermsDiffer ==
    /\ \A a, b, c : Encrypt(a, b, c) # Fail /\ Encrypt(a, b, c) # Nothing
    /\ \A a, b : Random(a, b) # Fail /\ Random(a, b) # Zeros
    /\ \A v : Raw(v) # Fail
    /\ \A r : <<"file", r>> # Nothing
    /\ \A m : <<"meta", m>> # Fail
    /\ \A b, c : <<"wrapper", b, c>> # Fail
    /\ Zeros # Fail
    BY DEF Encrypt, Random, Raw, Fail, Nothing, Zeros

LEMMA TermsInjective ==
    /\ \A a, b, c, d : Random(a, b) = Random(c, d) => a = c /\ b = d
    /\ \A a, b, c, d : GetHMAC(a, b) = GetHMAC(c, d) => a = c /\ b = d
    /\ \A a, b, c, d : GetKEKWithSalt(a, b) = GetKEKWithSalt(c, d) => a = c /\ b = d
    /\ \A a, b : GetSHA(a) = GetSHA(b) => a = b
    /\ \A a, b : Typed(a) = Typed(b) => a = b
    /\ \A a, b : Raw(a) = Raw(b) => a = b
    /\ \A a, b, c, d, e, f : Encrypt(a, b, c) = Encrypt(d, e, f) => a = d /\ b = e /\ c = f
    BY DEF Random, GetHMAC, GetKEKWithSalt, GetSHA, Typed, Raw, Encrypt

\* A ciphertext opens with its key and its nonce, and with no others.
LEMMA DecryptEncrypted ==
    ASSUME NEW k, NEW n, NEW cek, NEW nonce, NEW raw
    PROVE  Decrypt(k, n, Encrypt(cek, nonce, raw)) = IF k = cek /\ n = nonce THEN raw ELSE Fail
    BY DEF Decrypt, Encrypt

LEMMA UnWrapWrapped ==
    ASSUME NEW k, NEW n, NEW kek, NEW nonce, NEW cek
    PROVE  UnWrap(k, n, Wrap(kek, nonce, cek)) = IF k = kek /\ n = nonce THEN cek ELSE Fail
    BY DecryptEncrypted DEF UnWrap, Wrap

-----------------------------------------------------------------------------
(* Sealing: what a download makes of a file that an upload sealed. *)

LEMMA MetaDataFields ==
    ASSUME NEW b, NEW pwd, NEW u, NEW raw
    PROVE  LET meta == MetaData(b, pwd, u, raw)
           IN  /\ meta.RawDataChecksum = GetHMAC(BKey(b, u), raw)
               /\ meta.HasFilePassword = (pwd # NoFilePassword)
               /\ meta.FileCipher.FileNonce = Random(u, "fileNonce")
               /\ meta.FileCipher.BKeySalt = Random(u, "bKeySalt")
               /\ meta.FileCipher.PKeySalt = Random(u, "pKeySalt")
               /\ meta.FileCipher.BWrappedKeyNonce = Random(u, "bNonce")
               /\ meta.FileCipher.WrappedKeyNonce = Random(u, "pNonce")
               /\ meta.FileCipher.WrappedKey = WrappedKey(b, pwd, u)
    BY DEF MetaData

\* The metadata opens with the key it was sealed with only.
LEMMA MetadataOpens ==
    ASSUME NEW f, NEW b, NEW k, NEW pwd, NEW u, NEW raw, f.meta = EncMeta(b, pwd, u, raw)
    PROVE  GetMetadata(f, k) = IF k = b THEN <<"meta", MetaData(b, pwd, u, raw)>> ELSE Fail
<1> DEFINE meta    == MetaData(b, pwd, u, raw)
           wrapper == <<"wrapper", GetHMAC(BKey(b, u), meta), meta>>
<1>1. Decrypt(k, f.meta.MetaNonce, f.meta.EncMeta) = IF k = b THEN wrapper ELSE Fail
    BY DecryptEncrypted DEF EncMeta
<1>2. CASE k # b
    BY <1>1, <1>2 DEF GetMetadata
<1>3. CASE k = b
  <2>1. wrapper # Fail
      BY TermsDiffer
  <2>2. wrapper[3] = meta /\ wrapper[2] = GetHMAC(BKey(b, u), meta)
      OBVIOUS
  <2>3. meta.FileCipher.BKeySalt = Random(u, "bKeySalt")
      BY MetaDataFields
  <2>4. BKey(b, u) = GetKEKWithSalt(k, wrapper[3].FileCipher.BKeySalt)
      BY <1>3, <2>2, <2>3 DEF BKey
  <2> HIDE DEF meta, wrapper
  <2>5. GetMetadata(f, k) = <<"meta", wrapper[3]>>
      BY <1>1, <1>3, <2>1, <2>2, <2>4 DEF GetMetadata
  <2> QED
      BY <1>3, <2>2, <2>5 DEF meta
<1> QED
    BY <1>2, <1>3

\* A wrapped key gives the file's key to the bucket it was wrapped for, and to
\* nobody without the file password if it has one.
LEMMA KeyUnwraps ==
    ASSUME NEW b, NEW pwd, NEW u, NEW raw, NEW given
    PROVE  LET meta == MetaData(b, pwd, u, raw)
               wed  == UnWrapped(meta, given)
               fKey == UnWrap(BKey(b, u), Random(u, "bNonce"), wed)
           IN  /\ pwd \in {NoFilePassword, given} => wed # Fail /\ fKey = FileKey(u)
               /\ pwd \notin {NoFilePassword, given} => wed = Fail \/ fKey = Fail
<1> DEFINE meta == MetaData(b, pwd, u, raw)
           wed  == UnWrapped(meta, given)
           fKey == UnWrap(BKey(b, u), Random(u, "bNonce"), wed)
           once == Wrap(BKey(b, u), Random(u, "bNonce"), FileKey(u))
           twice == Wrap(PKey(pwd, u), Random(u, "pNonce"), once)
<1> SUFFICES /\ pwd \in {NoFilePassword, given} => wed # Fail /\ fKey = FileKey(u)
             /\ pwd \notin {NoFilePassword, given} => wed = Fail \/ fKey = Fail
    OBVIOUS
<1>1. UnWrap(BKey(b, u), Random(u, "bNonce"), once) = FileKey(u) /\ once # Fail /\ twice # Fail
    BY UnWrapWrapped, TermsDiffer DEF Wrap
<1>2. /\ meta.HasFilePassword = (pwd # NoFilePassword)
      /\ meta.FileCipher.PKeySalt = Random(u, "pKeySalt")
      /\ meta.FileCipher.WrappedKeyNonce = Random(u, "pNonce")
      /\ meta.FileCipher.WrappedKey = IF pwd = NoFilePassword THEN once ELSE twice
    BY MetaDataFields DEF WrappedKey
<1> HIDE DEF meta, once, twice
<1>3. CASE pwd = NoFilePassword
  <2>1. wed = once
      BY <1>2, <1>3 DEF UnWrapped
  <2> QED
      BY <1>1, <1>3, <2>1
<1>4. CASE pwd # NoFilePassword /\ given = NoFilePassword
  <2>1. wed = twice
      BY <1>2, <1>4 DEF UnWrapped
  <2>2. BKey(b, u) # PKey(pwd, u)
    <3>1. Random(u, "bKeySalt") # Random(u, "pKeySalt")
        BY TermsInjective
    <3> QED
        BY <3>1, TermsInjective DEF BKey, PKey
  <2>3. fKey = Fail
      BY <2>1, <2>2, UnWrapWrapped DEF twice
  <2> QED
      BY <1>4, <2>3
<1>5. CASE pwd # NoFilePassword /\ given # NoFilePassword
  <2>1. wed = UnWrap(PKey(given, u), Random(u, "pNonce"), twice)
      BY <1>2, <1>5 DEF UnWrapped, PKey
  <2>2. wed = IF PKey(given, u) = PKey(pwd, u) THEN once ELSE Fail
      BY <2>1, UnWrapWrapped DEF twice
  <2>3. PKey(given, u) = PKey(pwd, u) <=> given = pwd
      BY TermsInjective DEF PKey
  <2> QED
      BY <1>1, <1>5, <2>2, <2>3
<1> QED
    BY <1>3, <1>4, <1>5

\* A file opens only in the bucket it was sealed for, with its file password,
\* and then its data is of the file whose checksum the metadata has.
LEMMA OpenedIsSealed ==
    ASSUME NEW f, NEW b, NEW k, NEW pwd, NEW given, NEW u, NEW v,
           f.meta = EncMeta(b, pwd, u, Raw(v)), Opened(f, k, given) # Fail
    PROVE  /\ k = b /\ (pwd # NoFilePassword => given = pwd)
           /\ Opened(f, k, given) = Raw(v)
           /\ Decrypt(FileKey(u), Random(u, "fileNonce"), f.data) = Raw(v)
<1> DEFINE meta == MetaData(b, pwd, u, Raw(v))
           wed  == UnWrapped(meta, given)
           fKey == UnWrap(BKey(b, u), Random(u, "bNonce"), wed)
           raw  == Decrypt(fKey, Random(u, "fileNonce"), f.data)
<1>1. k = b
  <2>1. GetMetadata(f, k) # Fail
      BY DEF Opened
  <2> QED
      BY <2>1, MetadataOpens
<1>2. GetMetadata(f, k) = <<"meta", meta>> /\ <<"meta", meta>>[2] = meta
    BY <1>1, MetadataOpens
<1>3. /\ GetKEKWithSalt(k, meta.FileCipher.BKeySalt) = BKey(b, u)
      /\ meta.FileCipher.BWrappedKeyNonce = Random(u, "bNonce")
      /\ meta.FileCipher.FileNonce = Random(u, "fileNonce")
      /\ meta.RawDataChecksum = GetHMAC(BKey(b, u), Raw(v))
    BY <1>1, MetaDataFields DEF BKey
<1> HIDE DEF meta
<1>4. /\ wed # Fail /\ fKey # Fail /\ raw # Fail
      /\ GetHMAC(BKey(b, u), raw) = GetHMAC(BKey(b, u), Raw(v))
      /\ Opened(f, k, given) = raw
    BY <1>2, <1>3 DEF Opened
<1>5. raw = Raw(v)
    BY <1>4, TermsInjective
<1>6. pwd \in {NoFilePassword, given} /\ fKey = FileKey(u)
    BY <1>4, KeyUnwraps DEF meta
<1> QED
    BY <1>1, <1>4, <1>5, <1>6

\* What was sealed and stored whole opens.
LEMMA SealedOpens ==
    ASSUME NEW f, NEW b, NEW pwd, NEW u, NEW v, CheckDownloads(f),
           f.meta = EncMeta(b, pwd, u, Raw(v)), f.data = EncryptFile(u, Raw(v))
    PROVE  Opened(f, b, pwd) = Raw(v)
<1> DEFINE meta == MetaData(b, pwd, u, Raw(v))
           wed  == UnWrapped(meta, pwd)
           fKey == UnWrap(BKey(b, u), Random(u, "bNonce"), wed)
           raw  == Decrypt(fKey, Random(u, "fileNonce"), f.data)
<1>1. GetMetadata(f, b) = <<"meta", meta>> /\ <<"meta", meta>>[2] = meta /\ <<"meta", meta>> # Fail
    BY MetadataOpens, TermsDiffer
<1>2. /\ GetKEKWithSalt(b, meta.FileCipher.BKeySalt) = BKey(b, u)
      /\ meta.FileCipher.BWrappedKeyNonce = Random(u, "bNonce")
      /\ meta.FileCipher.FileNonce = Random(u, "fileNonce")
      /\ meta.RawDataChecksum = GetHMAC(BKey(b, u), Raw(v))
    BY MetaDataFields DEF BKey
<1>3. wed # Fail /\ fKey = FileKey(u)
    BY KeyUnwraps
<1>4. fKey # Fail /\ raw = Raw(v) /\ raw # Fail
    BY <1>3, DecryptEncrypted, TermsDiffer DEF EncryptFile, FileKey
<1> HIDE DEF meta
<1> QED
    BY <1>1, <1>2, <1>3, <1>4 DEF Opened

-----------------------------------------------------------------------------
(* The format of passwords: RunCount is defined by recursion, and what it    *)
(* counts follows by a least counterexample.                                 *)

Less == {ss \in Nat \X Nat : ss[1] < ss[2]}

\* A set of numbers that has a member has a least one.
LEMMA LeastNat ==
    ASSUME NEW S, S \subseteq Nat, S # {}
    PROVE  \E x \in S : \A y \in S : x <= y
<1>1. IsWellFoundedOn(Less, Nat)
    BY NatLessThanWellFounded DEF OpToRel, Less
<1>2. PICK x \in S : \A y \in S : ~(<<y, x>> \in Less)
    BY <1>1, WFMin
<1>3. \A y \in S : ~(y < x)
    BY <1>2 DEF Less
<1> QED
    BY <1>3

\* What RunCount should be of the first n characters.
Runs(s, f, n) ==
    f = [i \in 1 .. n |-> IF i > 1 /\ s[i] = s[i - 1] THEN f[i - 1] + 1 ELSE 1]

LEMMA RunsExist ==
    ASSUME NEW s, NEW n \in Nat
    PROVE  \E f : Runs(s, f, n)
<1> DEFINE Bad == {m \in Nat : ~\E f : Runs(s, f, m)}
<1> SUFFICES ASSUME Bad # {} PROVE FALSE
    OBVIOUS
<1>1. PICK m \in Bad : \A k \in Bad : m <= k
    BY LeastNat
<1>2. m # 0
  <2>1. Runs(s, <<>>, 0)
      BY DEF Runs
  <2> QED
      BY <2>1
<1>3. m - 1 \in Nat /\ m - 1 \notin Bad
    BY <1>1, <1>2
<1>4. PICK f : Runs(s, f, m - 1)
    BY <1>3
<1> DEFINE g == [i \in 1 .. m |-> IF i < m THEN f[i]
                                  ELSE IF i > 1 /\ s[i] = s[i - 1] THEN f[i - 1] + 1 ELSE 1]
<1>5. ASSUME NEW i \in 1 .. m
      PROVE  g[i] = IF i > 1 /\ s[i] = s[i - 1] THEN g[i - 1] + 1 ELSE 1
    BY <1>4, <1>3 DEF Runs
<1>6. Runs(s, g, m)
    BY <1>5 DEF Runs
<1> QED
    BY <1>6

\* RunCount satisfies its own equation.
LEMMA RunCountDef ==
    ASSUME NEW s \in Seq(Char)
    PROVE  Runs(s, RunCount(s), Len(s))
<1>1. DOMAIN s = 1 .. Len(s) /\ Len(s) \in Nat
    OBVIOUS
<1>2. PICK f : Runs(s, f, Len(s))
    BY <1>1, RunsExist
<1>3. f = [i \in DOMAIN s |-> IF i > 1 /\ s[i] = s[i - 1] THEN f[i - 1] + 1 ELSE 1]
    BY <1>1, <1>2 DEF Runs
<1>4. RunCount(s) = [i \in DOMAIN s |->
                        IF i > 1 /\ s[i] = s[i - 1] THEN RunCount(s)[i - 1] + 1 ELSE 1]
    BY <1>3, Zenon DEF RunCount
<1> QED
    BY <1>1, <1>4 DEF Runs

LEMMA RunCountStep ==
    ASSUME NEW s \in Seq(Char), NEW i \in 1 .. Len(s)
    PROVE  RunCount(s)[i] = IF i > 1 /\ s[i] = s[i - 1] THEN RunCount(s)[i - 1] + 1 ELSE 1
<1> DEFINE f == RunCount(s)
<1>1. f = [j \in 1 .. Len(s) |-> IF j > 1 /\ s[j] = s[j - 1] THEN f[j - 1] + 1 ELSE 1]
    BY RunCountDef DEF Runs
<1> HIDE DEF f
<1>2. f[i] = IF i > 1 /\ s[i] = s[i - 1] THEN f[i - 1] + 1 ELSE 1
    BY <1>1
<1> QED
    BY <1>2 DEF f

LEMMA RunCountPositive ==
    ASSUME NEW s \in Seq(Char), NEW i \in 1 .. Len(s)
    PROVE  RunCount(s)[i] \in Nat /\ RunCount(s)[i] >= 1
<1> DEFINE Bad == {j \in 1 .. Len(s) : ~(RunCount(s)[j] \in Nat /\ RunCount(s)[j] >= 1)}
<1> SUFFICES ASSUME Bad # {} PROVE FALSE
    OBVIOUS
<1>1. Bad \subseteq Nat /\ Len(s) \in Nat
    OBVIOUS
<1>2. PICK m \in Bad : \A k \in Bad : m <= k
    BY <1>1, LeastNat
<1>3. RunCount(s)[m] = IF m > 1 /\ s[m] = s[m - 1] THEN RunCount(s)[m - 1] + 1 ELSE 1
    BY RunCountStep
<1>4. m > 1
    BY <1>1, <1>2, <1>3
<1>5. m - 1 \in 1 .. Len(s) /\ m - 1 \notin Bad
    BY <1>1, <1>2, <1>4
<1> QED
    BY <1>2, <1>3, <1>5

\* A run of four is where RunCount exceeds three.
LEMMA RunCountLimit ==
    ASSUME NEW s \in Seq(Char)
    PROVE  (\A i \in DOMAIN s : RunCount(s)[i] <= 3)
           <=> ~\E i \in 1 .. Len(s) - 3 : \A j \in 1 .. 3 : s[i + j] = s[i]
<1> DEFINE f == RunCount(s)
<1>1. DOMAIN s = 1 .. Len(s) /\ Len(s) \in Nat
    OBVIOUS
<1>2. \A i \in 1 .. Len(s) : f[i] \in Nat /\ f[i] >= 1
    BY RunCountPositive
<1>3. \A i \in 1 .. Len(s) : f[i] = IF i > 1 /\ s[i] = s[i - 1] THEN f[i - 1] + 1 ELSE 1
    BY RunCountStep
<1> HIDE DEF f
<1>4. ASSUME NEW i \in 1 .. Len(s) - 3, \A j \in 1 .. 3 : s[i + j] = s[i]
      PROVE  \E n \in DOMAIN s : ~(f[n] <= 3)
  <2>1. s[i + 1] = s[i] /\ s[i + 2] = s[i] /\ s[i + 3] = s[i]
      BY <1>4
  <2>2. f[i + 1] = f[i] + 1
    <3>1. i + 1 \in 1 .. Len(s) /\ i + 1 > 1 /\ (i + 1) - 1 = i
        BY <1>1
    <3> QED
        BY <1>3, <2>1, <3>1
  <2>3. f[i + 2] = f[i + 1] + 1
    <3>1. i + 2 \in 1 .. Len(s) /\ i + 2 > 1 /\ (i + 2) - 1 = i + 1
        BY <1>1
    <3> QED
        BY <1>3, <2>1, <3>1
  <2>4. f[i + 3] = f[i + 2] + 1
    <3>1. i + 3 \in 1 .. Len(s) /\ i + 3 > 1 /\ (i + 3) - 1 = i + 2
        BY <1>1
    <3> QED
        BY <1>3, <2>1, <3>1
  <2>5. f[i] \in Nat /\ f[i] >= 1 /\ i + 3 \in DOMAIN s
      BY <1>1, <1>2
  <2> QED
      BY <2>2, <2>3, <2>4, <2>5
<1>5. ASSUME \E n \in DOMAIN s : ~(f[n] <= 3)
      PROVE  \E i \in 1 .. Len(s) - 3 : \A j \in 1 .. 3 : s[i + j] = s[i]
  <2> DEFINE Long == {n \in 1 .. Len(s) : f[n] > 3}
  <2>1. Long # {} /\ Long \subseteq Nat
      BY <1>1, <1>2, <1>5
  <2>2. PICK m \in Long : \A k \in Long : m <= k
      BY <2>1, LeastNat
  <2>3. m > 1 /\ s[m] = s[m - 1] /\ f[m] = f[m - 1] + 1
      BY <1>3, <2>2
  <2>4. m - 1 \in 1 .. Len(s) /\ f[m - 1] = 3
    <3>1. m - 1 \in 1 .. Len(s) /\ m - 1 \notin Long
        BY <1>1, <2>2, <2>3
    <3> QED
        BY <1>2, <2>2, <2>3, <3>1
  <2>5. m - 1 > 1 /\ s[m - 1] = s[m - 2] /\ f[m - 2] = 2 /\ m - 2 \in 1 .. Len(s)
    <3>1. f[m - 1] = IF m - 1 > 1 /\ s[m - 1] = s[(m - 1) - 1] THEN f[(m - 1) - 1] + 1 ELSE 1
        BY <1>3, <2>4
    <3>2. m - 1 > 1 /\ s[m - 1] = s[m - 2] /\ f[m - 2] + 1 = 3
        BY <1>1, <2>4, <3>1
    <3>3. m - 2 \in 1 .. Len(s)
        BY <1>1, <2>4, <3>2
    <3> QED
        BY <1>2, <3>2, <3>3
  <2>6. m - 2 > 1 /\ s[m - 2] = s[m - 3] /\ m - 3 \in 1 .. Len(s)
    <3>1. f[m - 2] = IF m - 2 > 1 /\ s[m - 2] = s[(m - 2) - 1] THEN f[(m - 2) - 1] + 1 ELSE 1
        BY <1>3, <2>5
    <3> QED
        BY <1>1, <2>5, <3>1
  <2>7. m - 3 \in 1 .. Len(s) - 3
      BY <1>1, <2>2, <2>6
  <2>8. ASSUME NEW j \in 1 .. 3 PROVE s[(m - 3) + j] = s[m - 3]
    <3>1. j = 1 \/ j = 2 \/ j = 3
        OBVIOUS
    <3>2. (m - 3) + 1 = m - 2 /\ (m - 3) + 2 = m - 1 /\ (m - 3) + 3 = m
        BY <1>1, <2>2
    <3> QED
        BY <2>3, <2>5, <2>6, <3>1, <3>2
  <2> QED
      BY <2>7, <2>8
<1> QED
    BY <1>4, <1>5 DEF f

\* The check of a password (utils.go) accepts just those that follow the rules
\* 1 to 4 on the page (create.go:41-44), of any length and alphabet.
THEOREM FormatIsFirstFourRules ==
    ASSUME NEW s \in Seq(Char)
    PROVE  VerifyPassFormat(s) <=> FollowsFirstFourRules(s)
<1>1. Len(s) \in Nat
    OBVIOUS
<1>2. ASSUME NEW n \in Nat PROVE (12 <= n /\ n <= 64) <=> n \in 12 .. 64
    OBVIOUS
<1>3. (\A i \in DOMAIN s : Class[s[i]] \notin {"foreign", "control", "blank"})
      <=> ~Has(s, "foreign") /\ ~Has(s, "blank") /\ ~Has(s, "control")
    BY DEF Has
<1>4. (\A class \in {"upper", "lower", "digit", "symbol"} : Has(s, class))
      <=> Has(s, "upper") /\ Has(s, "lower") /\ Has(s, "digit") /\ Has(s, "symbol")
    OBVIOUS
<1> QED
    BY <1>1, <1>2, <1>3, <1>4, RunCountLimit DEF VerifyPassFormat, FollowsFirstFourRules

-----------------------------------------------------------------------------
(* The entry stage. *)

\* The password of a bucket unwraps its key, which is of its creation.
LEMMA MadeOpens ==
    ASSUME NEW k, NEW c, Made(k, c)
    PROVE  KeyOf(k) = Random(c, "bucketKey")
<1> DEFINE pwd == Typed(buckets[k].pwd)
<1>1. /\ NewBucket(c, pwd).KEKSalt = Random(c, "bucketSalt")
      /\ NewBucket(c, pwd).WEKNonce = Random(c, "bucketNonce")
      /\ NewBucket(c, pwd).WEK = Wrap(GetKEKWithSalt(pwd, Random(c, "bucketSalt")),
                                      Random(c, "bucketNonce"), Random(c, "bucketKey"))
    BY DEF NewBucket
<1> HIDE DEF pwd
<1>2. buckets[k].cipher = NewBucket(c, pwd) /\ KeyOf(k) = BucketKey(k, pwd)
    BY DEF Made, KeyOf, pwd
<1> QED
    BY <1>1, <1>2, UnWrapWrapped DEF BucketKey

LEMMA KeyOfIsKey ==
    ASSUME MadeInv, NEW k \in DOMAIN buckets
    PROVE  KeyOf(k) \in Key /\ KeyOf(k) # Fail
    BY MadeOpens, TermsDiffer DEF MadeInv, Key

\* Two buckets have two keys.
LEMMA KeysDiffer ==
    ASSUME MadeInv, NEW k \in DOMAIN buckets, NEW l \in DOMAIN buckets, KeyOf(k) = KeyOf(l)
    PROVE  k = l
<1>1. PICK c \in Creation : Made(k, c) /\ \A m \in DOMAIN buckets : Made(m, c) => m = k
    BY DEF MadeInv
<1>2. PICK d \in Creation : Made(l, d)
    BY DEF MadeInv
<1>3. c = d
    BY <1>1, <1>2, MadeOpens, TermsInjective
<1> QED
    BY <1>1, <1>2, <1>3

\* A creation is told by the bucket it made.
LEMMA NewBucketsDiffer ==
    ASSUME NEW c, NEW d, NEW p, NEW q, NewBucket(c, p) = NewBucket(d, q)
    PROVE  c = d
<1>1. NewBucket(c, p).KEKSalt = Random(c, "bucketSalt")
    BY DEF NewBucket
<1>2. NewBucket(d, q).KEKSalt = Random(d, "bucketSalt")
    BY DEF NewBucket
<1> QED
    BY <1>1, <1>2, TermsInjective

LEMMA InitEntry == Init => EntryInv
<1> SUFFICES ASSUME Init PROVE EntryInv
    OBVIOUS
<1> USE DEF Init, EntryInit, NewForm
<1>1. EntryTypeOK
  <2>1. buckets = <<>> /\ DOMAIN buckets = {} /\ bucPass # Fail
      BY TermsDiffer
  <2>2. form \in [pwd : AnyPassword, key : {NoKey} \cup DOMAIN buckets]
      BY DEF AnyPassword
  <2>3. typed \in [Creation -> AnyPassword] /\ granted \in [Creation -> {NoKey} \cup DOMAIN buckets]
      BY DEF AnyPassword
  <2> QED
      BY <2>1, <2>2, <2>3 DEF EntryTypeOK
<1>2. BucketsOK /\ bucPass \in Key \cup {Zeros} /\ MadeInv
    BY DEF BucketsOK, MadeInv
<1>3. CreationInv /\ FormInv /\ ShownInv /\ InsideInv
    BY DEF CreationInv, FormInv, ShownInv, InsideInv, AtForm, Active
<1> QED
    BY <1>1, <1>2, <1>3 DEF EntryInv

-----------------------------------------------------------------------------
(* Each step of the entry stage; first those that leave the buckets. *)

\* What holds of the buckets goes on to hold while they stay and no creation
\* that is over goes back.
LEMMA BucketsStay ==
    ASSUME EntryInv, UNCHANGED buckets,
           \A c \in Creation : creation[c] \in {"show", "done"} => creation'[c] \in {"show", "done"}
    PROVE  BucketsOK' /\ MadeInv' /\ \A k : KeyOf(k)' = KeyOf(k)
<1>1. BucketsOK' /\ \A k : KeyOf(k)' = KeyOf(k)
    BY DEF EntryInv, BucketsOK, Sound, KeyOf, BucketKey
<1>2. \A k, c : Made(k, c)' = Made(k, c)
    BY DEF Made
<1> QED
    BY <1>1, <1>2 DEF EntryInv, MadeInv

LEMMA KeysStep ==
    ASSUME EntryInv,
           \/ OpenCreatePage \/ LeaveForm \/ EnterBucket
           \/ \E p \in Password : TypePassword(p)
    PROVE  EntryInv'
<1> USE DEF EntryInv
<1>1. UNCHANGED <<creation, typed, granted, attached, buckets, bucket, bucPass>>
    BY DEF OpenCreatePage, LeaveForm, EnterBucket, TypePassword
<1>2. BucketsOK' /\ MadeInv' /\ \A k : KeyOf(k)' = KeyOf(k)
    BY <1>1, BucketsStay
<1>3. EntryTypeOK'
  <2>1. form' \in [pwd : AnyPassword, key : {NoKey} \cup DOMAIN buckets]
      BY DEF OpenCreatePage, LeaveForm, EnterBucket, TypePassword, EntryTypeOK, NewForm, AnyPassword
  <2>2. /\ focus' \in {"menu", "new", "created", "none", "bucket"}
        /\ entering' \in {"off", "begin", "login"} /\ overlapped' \in BOOLEAN
      BY DEF OpenCreatePage, LeaveForm, EnterBucket, TypePassword, Press, EntryTypeOK, Busy, Active
  <2> QED
      BY <1>1, <2>1, <2>2 DEF EntryTypeOK
<1>4. CreationInv'
    BY <1>1 DEF CreationInv, Sound
<1>5. FormInv'
    BY <1>1 DEF FormInv, AtForm, Active, Busy, OpenCreatePage, LeaveForm, EnterBucket, TypePassword,
        Press, EntryTypeOK
<1>6. ShownInv'
    BY <1>1 DEF ShownInv, Accepted, OpenCreatePage, LeaveForm, EnterBucket, TypePassword, Press,
        EntryTypeOK
<1>7. InsideInv'
    BY <1>1, <1>2 DEF InsideInv, AtForm, Active, OpenCreatePage, LeaveForm, EnterBucket,
        TypePassword, Press
<1> QED
    BY <1>1, <1>2, <1>3, <1>4, <1>5, <1>6, <1>7

LEMMA SaveStep ==
    ASSUME EntryInv, NEW c \in Creation, Save(c)
    PROVE  EntryInv'
<1> USE DEF EntryInv
<1>1. /\ focus = "new" /\ creation[c] = "off" /\ creation' = [creation EXCEPT ![c] = "begin"]
      /\ overlapped' = (overlapped \/ Busy)
      /\ UNCHANGED <<focus, form, typed, granted, attached, entering, buckets, bucket, bucPass>>
    BY DEF Save
<1>2. /\ creation'[c] = "begin" /\ \A d \in Creation \ {c} : creation'[d] = creation[d]
    BY <1>1 DEF EntryTypeOK
<1>3. BucketsOK' /\ MadeInv' /\ \A k : KeyOf(k)' = KeyOf(k)
    BY <1>1, <1>2, BucketsStay
<1>4. EntryTypeOK'
    BY <1>1 DEF EntryTypeOK, Busy, Active
<1>5. CreationInv'
    BY <1>1, <1>2 DEF CreationInv, Sound
<1>6. FormInv'
    BY <1>1, <1>2 DEF FormInv, AtForm, Active, Busy
<1>7. ShownInv'
    BY <1>1 DEF ShownInv
<1>8. InsideInv'
    BY <1>1 DEF InsideInv
<1> QED
    BY <1>1, <1>3, <1>4, <1>5, <1>6, <1>7, <1>8

LEMMA BeginStep ==
    ASSUME EntryInv, NEW c \in Creation, Begin(c)
    PROVE  EntryInv'
<1> USE DEF EntryInv
<1>1. /\ creation[c] = "begin"
      /\ UNCHANGED <<form, entering, buckets, bucket, bucPass, overlapped>>
      /\ attached[c] /\ attached' = attached /\ granted[c] = NoKey /\ granted' = granted
      /\ \A d \in Creation \ {c} : creation'[d] = creation[d] /\ typed'[d] = typed[d]
    BY DEF Begin, Ends, Goto, EntryTypeOK, CreationInv
<1>2. \/ /\ creation'[c] = "init" /\ typed'[c] = form.pwd /\ focus' = "none"
         /\ Sound(form.pwd)
      \/ creation'[c] = "done" /\ typed'[c] = NoPassword /\ focus' = "new"
    BY DEF Begin, Ends, Goto, EntryTypeOK, Sound, AnyPassword
<1>3. BucketsOK' /\ MadeInv' /\ \A k : KeyOf(k)' = KeyOf(k)
    BY <1>1, BucketsStay
<1>4. EntryTypeOK'
    BY <1>1 DEF Begin, Ends, Goto, EntryTypeOK, AnyPassword
<1>5. CreationInv'
    BY <1>1, <1>2 DEF CreationInv, Sound
<1>6. FormInv'
    BY <1>1, <1>2 DEF FormInv, AtForm, Active
<1>7. ShownInv' /\ InsideInv'
    BY <1>2 DEF ShownInv, InsideInv
<1> QED
    BY <1>1, <1>3, <1>4, <1>5, <1>6, <1>7

\* A creation that fails.
LEMMA CreateFailsStep ==
    ASSUME EntryInv, NEW c \in Creation, creation[c] \in {"init", "final", "show"}, CreateFails(c),
           UNCHANGED <<form, entering, buckets, bucket, bucPass, overlapped>>
    PROVE  EntryInv'
<1> USE DEF EntryInv
<1>1. /\ creation'[c] = "done" /\ typed'[c] = NoPassword /\ granted'[c] = NoKey /\ attached'[c]
      /\ \A d \in Creation \ {c} : /\ creation'[d] = creation[d] /\ typed'[d] = typed[d]
                                   /\ granted'[d] = granted[d] /\ attached'[d] = attached[d]
      /\ focus' = IF attached[c] THEN "menu" ELSE focus
    BY DEF CreateFails, Ends, Goto, SetFocus, EntryTypeOK
<1>2. BucketsOK' /\ MadeInv' /\ \A k : KeyOf(k)' = KeyOf(k)
    BY <1>1, BucketsStay
<1>3. EntryTypeOK'
    BY DEF CreateFails, Ends, Goto, SetFocus, EntryTypeOK, AnyPassword
<1>4. CreationInv'
    BY <1>1 DEF CreationInv, Sound
<1>5. FormInv'
    BY <1>1 DEF FormInv, AtForm, Active
<1>6. ShownInv' /\ InsideInv'
    BY <1>1, <1>2 DEF ShownInv, InsideInv, Accepted, AtForm, Active
<1> QED
    BY <1>2, <1>3, <1>4, <1>5, <1>6

LEMMA RegistrationInitStep ==
    ASSUME EntryInv, NEW c \in Creation, RegistrationInit(c)
    PROVE  EntryInv'
<1> USE DEF EntryInv
<1>1. CASE CreateFails(c)
    BY <1>1, CreateFailsStep DEF RegistrationInit
<1>2. CASE Goto(c, "final") /\ UNCHANGED <<focus, typed, granted, attached>>
  <2>1. /\ creation[c] = "init" /\ creation'[c] = "final"
        /\ \A d \in Creation \ {c} : creation'[d] = creation[d]
        /\ UNCHANGED <<focus, form, typed, granted, attached, entering, buckets, bucket, bucPass,
                       overlapped>>
      BY <1>2 DEF RegistrationInit, Goto, EntryTypeOK
  <2>2. BucketsOK' /\ MadeInv' /\ \A k : KeyOf(k)' = KeyOf(k)
      BY <2>1, BucketsStay
  <2>3. EntryTypeOK'
      BY <1>2, <2>1 DEF Goto, EntryTypeOK
  <2>4. CreationInv'
      BY <2>1 DEF CreationInv, Sound
  <2>5. FormInv'
      BY <2>1 DEF FormInv, AtForm, Active
  <2>6. ShownInv' /\ InsideInv'
      BY <2>1, <2>2 DEF ShownInv, InsideInv, Accepted, AtForm, Active
  <2> QED
      BY <2>1, <2>2, <2>3, <2>4, <2>5, <2>6
<1> QED
    BY <1>1, <1>2 DEF RegistrationInit

\* A bucket is added, and those that are there stay.
BucketAdded(c) == buckets' = Registered(c)

LEMMA AddedBucket ==
    ASSUME EntryInv, NEW c \in Creation, creation[c] = "final", BucketAdded(c),
           creation'[c] \in {"show", "done"},
           \A d \in Creation \ {c} : creation'[d] = creation[d]
    PROVE  /\ BucketsOK' /\ MadeInv'
           /\ DOMAIN buckets' = DOMAIN buckets \cup {Len(buckets) + 1}
           /\ \A k \in DOMAIN buckets : buckets'[k] = buckets[k] /\ KeyOf(k)' = KeyOf(k)
           /\ Len(buckets) + 1 \notin DOMAIN buckets /\ Len(buckets) + 1 # NoKey
           /\ buckets'[Len(buckets) + 1].pwd = typed[c]
<1> DEFINE new == [pwd |-> typed[c], cipher |-> NewBucket(c, Typed(typed[c]))]
           T   == [pwd : Password, cipher : Wrapped]
<1>0. PICK n \in Nat : n = Len(buckets) + 1
    BY DEF EntryInv, BucketsOK
<1>1. buckets \in Seq(T) /\ buckets' = Append(buckets, new) /\ Sound(typed[c])
    BY DEF EntryInv, BucketsOK, BucketAdded, Registered, CreationInv
<1>2. new \in T
    BY <1>1 DEF Sound, Wrapped
<1> HIDE DEF new, T
<1>3. /\ buckets' \in Seq(T) /\ buckets'[n] = new
      /\ DOMAIN buckets = 1 .. Len(buckets) /\ DOMAIN buckets' = 1 .. n /\ Len(buckets) \in Nat
      /\ DOMAIN buckets' = DOMAIN buckets \cup {n} /\ n \in DOMAIN buckets' \ DOMAIN buckets
      /\ \A k \in DOMAIN buckets : buckets'[k] = buckets[k]
    BY <1>0, <1>1, <1>2
<1>4. new.pwd = typed[c] /\ new.cipher = NewBucket(c, Typed(typed[c]))
    BY DEF new
<1>5. BucketsOK'
  <2>1. \A k \in DOMAIN buckets' : Sound(buckets'[k].pwd)
      BY <1>1, <1>3, <1>4 DEF EntryInv, BucketsOK, Sound
  <2> QED
      BY <1>3, <2>1 DEF BucketsOK, T, Sound
<1>6. \A k \in DOMAIN buckets : KeyOf(k)' = KeyOf(k)
    BY <1>3 DEF KeyOf, BucketKey
<1>7. Made(n, c)' /\ \A k \in DOMAIN buckets, d \in Creation : Made(k, d)' = Made(k, d)
    BY <1>3, <1>4 DEF Made
<1>8. ASSUME NEW k \in DOMAIN buckets PROVE ~Made(k, c)
  <2>1. PICK d \in Creation : Made(k, d) /\ creation[d] \in {"show", "done"}
      BY DEF EntryInv, MadeInv
  <2>2. d # c
      BY <2>1
  <2> QED
      BY <2>1, <2>2, NewBucketsDiffer DEF Made
<1>9. ASSUME NEW d \in Creation, Made(n, d)' PROVE d = c
    BY <1>3, <1>4, <1>9, NewBucketsDiffer DEF Made
<1>10. MadeInv'
  <2>1. ASSUME NEW k \in DOMAIN buckets
        PROVE  \E d \in Creation : /\ Made(k, d)' /\ creation'[d] \in {"show", "done"}
                                   /\ \A l \in DOMAIN buckets' : Made(l, d)' => l = k
    <3>1. PICK d \in Creation : /\ Made(k, d) /\ creation[d] \in {"show", "done"}
                                /\ \A l \in DOMAIN buckets : Made(l, d) => l = k
        BY DEF EntryInv, MadeInv
    <3>2. d # c
        BY <3>1
    <3>3. \A l \in DOMAIN buckets' : Made(l, d)' => l = k
        BY <1>3, <1>7, <1>9, <3>1, <3>2
    <3> QED
        BY <1>7, <3>1, <3>2, <3>3
  <2>2. \A l \in DOMAIN buckets' : Made(l, c)' => l = n
      BY <1>3, <1>7, <1>8
  <2> QED
      BY <1>3, <1>7, <2>1, <2>2 DEF MadeInv
<1> QED
    BY <1>0, <1>3, <1>4, <1>5, <1>6, <1>10 DEF NoKey

LEMMA RegistrationFinalStep ==
    ASSUME EntryInv, NEW c \in Creation, RegistrationFinal(c)
    PROVE  EntryInv'
<1> USE DEF EntryInv
<1>1. /\ creation[c] = "final" /\ granted[c] = NoKey /\ Sound(typed[c])
      /\ UNCHANGED <<form, entering, bucket, bucPass, overlapped>>
    BY DEF RegistrationFinal, CreationInv
<1>2. CASE CreateFails(c) /\ UNCHANGED buckets
    BY <1>1, <1>2, CreateFailsStep
<1>3. CASE Goto(c, "show") /\ UNCHANGED <<buckets, granted, focus, typed, attached>>
  <2>1. creation'[c] = "show" /\ \A d \in Creation \ {c} : creation'[d] = creation[d]
      BY <1>3 DEF Goto, EntryTypeOK
  <2>2. BucketsOK' /\ MadeInv' /\ \A k : KeyOf(k)' = KeyOf(k)
      BY <1>1, <1>3, <2>1, BucketsStay
  <2>3. EntryTypeOK'
      BY <1>1, <1>3 DEF Goto, EntryTypeOK
  <2>4. CreationInv'
      BY <1>1, <1>3, <2>1 DEF CreationInv, Sound
  <2>5. FormInv'
      BY <1>1, <1>3, <2>1 DEF FormInv, AtForm, Active
  <2>6. ShownInv' /\ InsideInv'
      BY <1>1, <1>3, <2>1, <2>2 DEF ShownInv, InsideInv, Accepted, AtForm, Active
  <2> QED
      BY <1>1, <1>3, <2>2, <2>3, <2>4, <2>5, <2>6
<1>4. CASE BucketAdded(c) /\ granted' = [granted EXCEPT ![c] = Len(buckets) + 1]
           /\ Goto(c, "show") /\ UNCHANGED <<focus, typed, attached>>
  <2>1. /\ creation'[c] = "show" /\ granted'[c] = Len(buckets) + 1
        /\ \A d \in Creation \ {c} : creation'[d] = creation[d] /\ granted'[d] = granted[d]
      BY <1>4 DEF Goto, EntryTypeOK
  <2>2. /\ BucketsOK' /\ MadeInv'
        /\ DOMAIN buckets' = DOMAIN buckets \cup {Len(buckets) + 1}
        /\ \A k \in DOMAIN buckets : buckets'[k] = buckets[k] /\ KeyOf(k)' = KeyOf(k)
        /\ buckets'[Len(buckets) + 1].pwd = typed[c]
      BY <1>1, <1>4, <2>1, AddedBucket
  <2>3. EntryTypeOK'
    <3>1. creation' \in [Creation -> {"off", "begin", "init", "final", "show", "done"}]
        BY <1>4 DEF Goto, EntryTypeOK
    <3>2. granted' \in [Creation -> {NoKey} \cup DOMAIN buckets']
        BY <1>4, <2>2 DEF EntryTypeOK
    <3>3. form' \in [pwd : AnyPassword, key : {NoKey} \cup DOMAIN buckets']
        BY <1>1, <2>2 DEF EntryTypeOK
    <3>4. \A k \in DOMAIN buckets' : buckets'[k].pwd \in AnyPassword
        BY <2>2 DEF BucketsOK, Sound, AnyPassword
    <3> QED
        BY <1>1, <1>4, <2>2, <3>1, <3>2, <3>3, <3>4 DEF EntryTypeOK
  <2>4. CreationInv'
      BY <1>1, <1>4, <2>1, <2>2 DEF CreationInv, Sound, EntryTypeOK
  <2>5. FormInv'
      BY <1>1, <1>4, <2>1 DEF FormInv, AtForm, Active
  <2>6. ShownInv' /\ InsideInv'
      BY <1>1, <1>4, <2>1, <2>2 DEF ShownInv, InsideInv, Accepted, AtForm, Active
  <2> QED
      BY <1>1, <2>2, <2>3, <2>4, <2>5, <2>6
<1>5. CASE BucketAdded(c) /\ CreateFails(c)
  <2>1. /\ creation'[c] = "done" /\ typed'[c] = NoPassword /\ granted'[c] = NoKey /\ attached'[c]
        /\ \A d \in Creation \ {c} : /\ creation'[d] = creation[d] /\ typed'[d] = typed[d]
                                     /\ granted'[d] = granted[d] /\ attached'[d] = attached[d]
        /\ focus' = IF attached[c] THEN "menu" ELSE focus
      BY <1>5 DEF CreateFails, Ends, Goto, SetFocus, EntryTypeOK
  <2>2. /\ BucketsOK' /\ MadeInv'
        /\ DOMAIN buckets' = DOMAIN buckets \cup {Len(buckets) + 1}
        /\ \A k \in DOMAIN buckets : buckets'[k] = buckets[k] /\ KeyOf(k)' = KeyOf(k)
      BY <1>1, <1>5, <2>1, AddedBucket
  <2>3. EntryTypeOK'
    <3>1. /\ creation' \in [Creation -> {"off", "begin", "init", "final", "show", "done"}]
          /\ typed' \in [Creation -> AnyPassword] /\ attached' \in [Creation -> BOOLEAN]
          /\ focus' \in {"menu", "new", "created", "none", "bucket"}
        BY <1>5 DEF CreateFails, Ends, Goto, SetFocus, EntryTypeOK, AnyPassword
    <3>2. granted' \in [Creation -> {NoKey} \cup DOMAIN buckets']
        BY <1>5, <2>2 DEF CreateFails, Ends, EntryTypeOK
    <3>3. form' \in [pwd : AnyPassword, key : {NoKey} \cup DOMAIN buckets']
        BY <1>1, <2>2 DEF EntryTypeOK
    <3>4. \A k \in DOMAIN buckets' : buckets'[k].pwd \in AnyPassword
        BY <2>2 DEF BucketsOK, Sound, AnyPassword
    <3> QED
        BY <1>1, <2>2, <3>1, <3>2, <3>3, <3>4 DEF EntryTypeOK
  <2>4. CreationInv'
      BY <1>1, <2>1, <2>2 DEF CreationInv, Sound, EntryTypeOK
  <2>5. FormInv'
      BY <1>1, <2>1 DEF FormInv, AtForm, Active
  <2>6. ShownInv' /\ InsideInv'
      BY <1>1, <2>1, <2>2 DEF ShownInv, InsideInv, Accepted, AtForm, Active
  <2> QED
      BY <1>1, <2>2, <2>3, <2>4, <2>5, <2>6
<1> QED
    BY <1>2, <1>3, <1>4, <1>5 DEF RegistrationFinal, BucketAdded

LEMMA ShowCreatedStep ==
    ASSUME EntryInv, NEW c \in Creation, ShowCreated(c)
    PROVE  EntryInv'
<1> USE DEF EntryInv
<1>1. /\ creation[c] = "show" /\ UNCHANGED <<entering, buckets, bucket, bucPass, overlapped>>
      /\ creation'[c] = "done" /\ typed'[c] = NoPassword /\ granted'[c] = NoKey /\ attached'[c]
      /\ \A d \in Creation \ {c} : /\ creation'[d] = creation[d] /\ typed'[d] = typed[d]
                                   /\ granted'[d] = granted[d] /\ attached'[d] = attached[d]
      /\ focus' = IF attached[c] THEN "created" ELSE focus
      /\ form'.pwd = form.pwd
      /\ form'.key = IF attached[c] THEN granted[c] ELSE form.key
    BY DEF ShowCreated, Ends, Goto, SetFocus, EntryTypeOK
<1>2. BucketsOK' /\ MadeInv' /\ \A k : KeyOf(k)' = KeyOf(k)
    BY <1>1, BucketsStay
<1>3. EntryTypeOK'
  <2>1. form' \in [pwd : AnyPassword, key : {NoKey} \cup DOMAIN buckets]
      BY DEF ShowCreated, EntryTypeOK
  <2> QED
      BY <1>1, <2>1 DEF ShowCreated, Ends, Goto, SetFocus, EntryTypeOK, AnyPassword
<1>4. CreationInv'
    BY <1>1 DEF CreationInv, Sound
<1>5. FormInv'
    BY <1>1 DEF FormInv, AtForm, Active
<1>6. ShownInv'
  <2>1. CASE attached[c]
    <3>1. ~overlapped => form.pwd = typed[c]
        BY <1>1, <2>1 DEF FormInv, AtForm, Active
    <3>2. granted[c] # NoKey => granted[c] \in DOMAIN buckets /\ buckets[granted[c]].pwd = typed[c]
        BY DEF CreationInv, EntryTypeOK
    <3> QED
        BY <1>1, <2>1, <3>1, <3>2 DEF ShownInv, Accepted, VerifyBucKeyFormat
  <2>2. CASE ~attached[c]
      BY <1>1, <2>2 DEF ShownInv, Accepted
  <2> QED
      BY <2>1, <2>2
<1>7. InsideInv'
    BY <1>1, <1>2 DEF InsideInv, AtForm, Active
<1> QED
    BY <1>1, <1>2, <1>3, <1>4, <1>5, <1>6, <1>7

\* A login goes through: the stage is left.
LEMMA EnterStep ==
    ASSUME EntryInv, NEW k, NEW pwd, Accepted(k, pwd), Enter(k, pwd)
    PROVE  EntryInv'
<1> USE DEF EntryInv
<1>1. /\ \A c \in Creation : creation[c] # "begin"
      /\ bucket' = k /\ focus' = "bucket" /\ entering' = "off" /\ form' = NewForm /\ overlapped' = FALSE
      /\ attached' = [c \in Creation |-> ~Active(c)]
      /\ UNCHANGED <<creation, typed, granted, buckets>>
    BY DEF Enter
<1>2. k \in DOMAIN buckets /\ bucPass' = KeyOf(k)
    BY DEF Accepted, Enter, KeyOf
<1>3. bucPass' \in Key /\ bucPass' # Fail
    BY <1>2, KeyOfIsKey
<1>4. BucketsOK' /\ MadeInv' /\ \A l : KeyOf(l)' = KeyOf(l)
    BY <1>1, BucketsStay
<1>5. EntryTypeOK'
  <2>1. form' \in [pwd : AnyPassword, key : {NoKey} \cup DOMAIN buckets]
      BY <1>1 DEF NewForm, AnyPassword
  <2>2. attached' \in [Creation -> BOOLEAN]
      BY <1>1 DEF Active
  <2> QED
      BY <1>1, <1>2, <1>3, <2>1, <2>2 DEF EntryTypeOK
<1>6. \A c \in Creation : ~AtForm(c)'
    BY <1>1 DEF AtForm, Active
<1>7. CreationInv'
    BY <1>1 DEF CreationInv, Sound, Active, EntryTypeOK
<1>8. FormInv' /\ ShownInv'
    BY <1>1, <1>6 DEF FormInv, ShownInv
<1>9. InsideInv'
    BY <1>1, <1>2, <1>4, <1>6 DEF InsideInv
<1> QED
    BY <1>3, <1>4, <1>5, <1>7, <1>8, <1>9

LEMMA EnterCreatedStep ==
    ASSUME EntryInv, EnterCreated
    PROVE  EntryInv'
<1> USE DEF EntryInv
<1>1. CASE entering = "login" /\ Accepted(form.key, form.pwd) /\ Enter(form.key, form.pwd)
    BY <1>1, EnterStep
<1>2. CASE ~(entering = "login" /\ Accepted(form.key, form.pwd) /\ Enter(form.key, form.pwd))
  <2>1. /\ entering # "off" /\ focus' \in {"none", "menu"} /\ entering' \in {"off", "login"}
        /\ UNCHANGED <<form, creation, typed, granted, attached, buckets, bucket, bucPass, overlapped>>
      BY <1>2 DEF EnterCreated, LoginFails
  <2>2. BucketsOK' /\ MadeInv' /\ \A k : KeyOf(k)' = KeyOf(k)
      BY <2>1, BucketsStay
  <2>3. EntryTypeOK'
      BY <2>1 DEF EntryTypeOK
  <2>4. CreationInv'
      BY <2>1 DEF CreationInv, Sound
  <2>5. FormInv' /\ ShownInv' /\ InsideInv'
      BY <2>1 DEF FormInv, ShownInv, InsideInv, AtForm, Active
  <2> QED
      BY <2>1, <2>2, <2>3, <2>4, <2>5
<1> QED
    BY <1>1, <1>2

LEMMA LogoutStep ==
    ASSUME EntryInv, Logout
    PROVE  EntryInv'
<1> USE DEF EntryInv
<1>1. /\ focus = "bucket" /\ focus' = "menu" /\ bucPass' = Zeros /\ bucket' = NoKey
      /\ UNCHANGED <<form, creation, typed, granted, attached, entering, buckets, overlapped>>
    BY DEF Logout
<1>2. BucketsOK' /\ MadeInv' /\ \A k : KeyOf(k)' = KeyOf(k)
    BY <1>1, BucketsStay
<1>3. EntryTypeOK'
    BY <1>1, TermsDiffer DEF EntryTypeOK
<1>4. CreationInv'
    BY <1>1 DEF CreationInv, Sound
<1>5. FormInv' /\ ShownInv' /\ InsideInv'
    BY <1>1 DEF FormInv, ShownInv, InsideInv, AtForm, Active
<1> QED
    BY <1>1, <1>2, <1>3, <1>4, <1>5

\* The program is killed and started again.
LEMMA RestartStep ==
    ASSUME EntryInv, Restart
    PROVE  EntryInv'
<1> USE DEF EntryInv
<1>1. /\ focus' = "menu" /\ form' = NewForm /\ bucket' = NoKey /\ bucPass' = Zeros
      /\ creation' = [c \in Creation |-> IF Active(c) THEN "done" ELSE creation[c]]
      /\ typed' = [c \in Creation |-> NoPassword] /\ granted' = [c \in Creation |-> NoKey]
      /\ attached' = [c \in Creation |-> TRUE] /\ entering' = "off" /\ overlapped' = FALSE
      /\ UNCHANGED buckets
    BY DEF Restart
<1>2. \A c \in Creation : creation'[c] \in {"off", "done"}
                          /\ (creation[c] \in {"show", "done"} => creation'[c] = "done")
    BY <1>1 DEF Active, EntryTypeOK
<1>3. BucketsOK' /\ MadeInv' /\ \A k : KeyOf(k)' = KeyOf(k)
    BY <1>1, <1>2, BucketsStay
<1>4. EntryTypeOK'
  <2>1. form' \in [pwd : AnyPassword, key : {NoKey} \cup DOMAIN buckets]
      BY <1>1 DEF NewForm, AnyPassword
  <2>2. creation' \in [Creation -> {"off", "begin", "init", "final", "show", "done"}]
      BY <1>1, <1>2
  <2>3. typed' \in [Creation -> AnyPassword]
      BY <1>1 DEF AnyPassword
  <2> QED
      BY <1>1, <2>1, <2>2, <2>3, TermsDiffer DEF EntryTypeOK
<1>5. CreationInv'
    BY <1>1, <1>2 DEF CreationInv
<1>6. FormInv' /\ ShownInv' /\ InsideInv'
    BY <1>1, <1>2 DEF FormInv, ShownInv, InsideInv, AtForm, Active
<1> QED
    BY <1>1, <1>3, <1>4, <1>5, <1>6

LEMMA EntrySteps == EntryInv /\ EntryNext => EntryInv'
<1> SUFFICES ASSUME EntryInv, EntryNext PROVE EntryInv'
    OBVIOUS
<1>1. CASE OpenCreatePage \/ LeaveForm \/ EnterBucket \/ \E p \in Password : TypePassword(p)
    BY <1>1, KeysStep
<1>2. ASSUME NEW c \in Creation, Create(c) PROVE EntryInv'
    BY <1>2, SaveStep, BeginStep, RegistrationInitStep, RegistrationFinalStep, ShowCreatedStep
    DEF Create
<1>3. ASSUME NEW k \in DOMAIN buckets, NEW p \in Password, OpenBucket(k, p) PROVE EntryInv'
    BY <1>3, EnterStep DEF OpenBucket
<1> QED
    BY <1>1, <1>2, <1>3, EnterCreatedStep DEF EntryNext

\* A bucket that exists stays as it is; and inside a bucket, with no creation
\* under way or to come, the entry stage does nothing.
LEMMA BucketsRemain ==
    ASSUME EntryInv, EntryNext, NEW k \in DOMAIN buckets
    PROVE  k \in DOMAIN buckets' /\ buckets'[k] = buckets[k] /\ KeyOf(k)' = KeyOf(k)
<1>1. CASE UNCHANGED buckets
    BY <1>1 DEF KeyOf, BucketKey
<1>2. CASE buckets' # buckets
  <2>1. PICK c \in Creation : buckets' = Registered(c)
      BY <1>2 DEF EntryNext, OpenCreatePage, LeaveForm, EnterBucket, EnterCreated, LoginFails, Enter,
          TypePassword, Create, Save, Begin, RegistrationInit, RegistrationFinal, ShowCreated,
          OpenBucket
  <2>2. buckets \in Seq([pwd : Password, cipher : Wrapped])
      BY DEF EntryInv, BucketsOK
  <2>3. k \in DOMAIN buckets' /\ buckets'[k] = buckets[k]
      BY <2>1, <2>2 DEF Registered
  <2> QED
      BY <2>3 DEF KeyOf, BucketKey
<1> QED
    BY <1>1, <1>2

LEMMA EntryStill ==
    ASSUME EntryInv, focus = "bucket", \A c \in Creation : creation[c] = "done"
    PROVE  ~EntryNext
<1>1. entering = "off"
    BY DEF EntryInv, InsideInv
<1> QED
    BY <1>1 DEF EntryNext, OpenCreatePage, LeaveForm, EnterBucket, EnterCreated, TypePassword, Press,
        Create, Save, Begin, RegistrationInit, RegistrationFinal, ShowCreated, OpenBucket
-----------------------------------------------------------------------------
(* The uploads. *)

LEMMA CopiesDiffer ==
    ASSUME NEW u, NEW v, NEW w, NEW x, EncryptFile(u, Raw(v)) = EncryptFile(w, Raw(x))
    PROVE  u = w /\ v = x
    BY TermsInjective DEF EncryptFile, FileKey

LEMMA PartialOpensNothing ==
    /\ Partial # Nothing /\ \A u, v : EncryptFile(u, Raw(v)) # Partial
    /\ \A cek, nonce : Decrypt(cek, nonce, Partial) = Fail
    BY DEF Partial, Nothing, EncryptFile, Encrypt, Decrypt

LEMMA CopiesAre ==
    /\ Nothing \notin Copy /\ Partial \in Copy
    /\ \A u \in Upload, v \in Version : EncryptFile(u, Raw(v)) \in Copy
    BY TermsDiffer, PartialOpensNothing DEF Copy, EncryptFile

LEMMA MetaAre ==
    /\ [EncMeta |-> Nothing] \in Meta
    /\ \A b \in Key, pwd \in AnyFilePassword, u \in Upload, v \in Version :
        EncMeta(b, pwd, u, Raw(v)) \in Meta
    BY DEF Meta

LEMMA NotStartedType ==
    /\ NotStarted \in UploadState
    /\ [NotStarted EXCEPT !.pc = "done"] \in UploadState
    /\ \A b \in BOOLEAN, pwd \in AnyFilePassword, k \in Nat :
        [NotStarted EXCEPT !.pc = "encrypt", !.pwd = pwd, !.into = k, !.alone = b] \in UploadState
<1>1. [EncMeta |-> Nothing] \in Meta
    BY MetaAre
<1>2. /\ NoFilePassword \in AnyFilePassword /\ NoKey \in Nat /\ 0 \in 0 .. MaxVersion
      /\ None \in {None} \cup Upload /\ <<>> \in Seq(Copy) /\ TRUE \in BOOLEAN
    BY VaultAssumption DEF AnyFilePassword, NoKey
<1> QED
    BY <1>1, <1>2 DEF NotStarted, UploadState

LEMMA EntrySame == ASSUME EntryInv, UNCHANGED entryVars PROVE EntryInv' /\ \A k : KeyOf(k)' = KeyOf(k)
<1> USE DEF entryVars
<1>1. \A k : KeyOf(k)' = KeyOf(k)
    BY DEF KeyOf, BucketKey
<1>2. \A k, c : Made(k, c)' = Made(k, c)
    BY DEF Made
<1>3. EntryTypeOK' /\ BucketsOK' /\ (bucPass \in Key \cup {Zeros})'
    BY DEF EntryInv, EntryTypeOK, BucketsOK, Sound
<1>4. MadeInv' /\ CreationInv' /\ FormInv'
    BY <1>2 DEF EntryInv, MadeInv, CreationInv, FormInv, AtForm, Active, Sound
<1>5. ShownInv' /\ InsideInv'
    BY <1>1 DEF EntryInv, ShownInv, InsideInv, Accepted, AtForm, Active
<1> QED
    BY <1>1, <1>3, <1>4, <1>5 DEF EntryInv

LEMMA InitUploads == Init => DiskOK /\ StepInv /\ CopiesInv /\ AloneInv /\ FilesInv
<1> SUFFICES ASSUME Init PROVE DiskOK /\ StepInv /\ CopiesInv /\ AloneInv /\ FilesInv
    OBVIOUS
<1>1. /\ version = 1 /\ encPath = None /\ inode = [u \in Upload |-> Nothing]
      /\ up = [u \in Upload |-> NotStarted] /\ files = [u \in Upload |-> Nothing]
      /\ \A u \in Upload : up[u].pc = "off" /\ up[u].sent = <<>> /\ up[u].into = NoKey
    BY DEF Init, NotStarted
<1>2. \A u \in Upload : ~Running(u) /\ ~Stored(u)
    BY <1>1 DEF Running, Stored
<1>3. DiskOK
  <2>1. version \in Version
      BY <1>1, VaultAssumption DEF Version
  <2>2. up \in [Upload -> UploadState] /\ inode \in [Upload -> Copy \cup {Nothing}]
      BY <1>1, NotStartedType
  <2> QED
      BY <1>1, <2>1, <2>2 DEF DiskOK
<1>4. StepInv
    BY <1>1, <1>2, VaultAssumption DEF StepInv
<1>5. CopiesInv
    BY <1>1, CopiesAre DEF CopiesInv
<1>6. AloneInv /\ FilesInv
    BY <1>2 DEF AloneInv, FilesInv
<1> QED
    BY <1>3, <1>4, <1>5, <1>6

\* What the server has of an upload goes on to be so while the upload keeps what
\* it remembers of it.
Remembers(u) ==
    /\ files'[u] = files[u] /\ up'[u].into = up[u].into /\ up'[u].pwd = up[u].pwd
    /\ up'[u].hashed = up[u].hashed /\ up'[u].encrypted = up[u].encrypted
    /\ up'[u].alone => up[u].alone

LEMMA FilesStay ==
    ASSUME FilesInv, \A u \in Upload : Stored(u)' => Stored(u) /\ Remembers(u),
           \A k \in DOMAIN buckets : k \in DOMAIN buckets' /\ KeyOf(k)' = KeyOf(k)
    PROVE  FilesInv'
<1>1. ASSUME NEW u \in Upload, Stored(u)'
      PROVE  /\ up'[u].into \in DOMAIN buckets'
             /\ up'[u].hashed \in Version /\ up'[u].encrypted \in Version
             /\ \E parts \in Seq(Copy), path \in Copy : Filed(u, parts, path)'
  <2>1. Stored(u) /\ Remembers(u)
      BY <1>1
  <2>2. OwnCopy(u)' = OwnCopy(u)
      BY <2>1 DEF Remembers, OwnCopy
  <2>3. PICK parts \in Seq(Copy), path \in Copy : Filed(u, parts, path)
      BY <2>1 DEF FilesInv
  <2>4. up[u].into \in DOMAIN buckets
      BY <2>1 DEF FilesInv
  <2>5. OwnMeta(u)' = OwnMeta(u)
      BY <2>1, <2>4 DEF Remembers, OwnMeta
  <2>6. File(u, parts, path)' = File(u, parts, path)
      BY <2>5 DEF File
  <2>7. Filed(u, parts, path)'
      BY <2>1, <2>2, <2>3, <2>6 DEF Filed, Remembers
  <2> QED
      BY <2>1, <2>7 DEF FilesInv, Remembers
<1> QED
    BY <1>1 DEF FilesInv

\* A step of one upload, which stores nothing, and which changes neither the
\* entry stage nor an inode.
UploadMoves(u) ==
    /\ UNCHANGED <<entryVars, inode, files>> /\ version' \in Version
    /\ up' \in [Upload -> UploadState] /\ \A w \in Upload \ {u} : up'[w] = up[w]
    /\ ~Stored(u)

LEMMA MovesFrame ==
    ASSUME IInv, NEW u \in Upload, UploadMoves(u)
    PROVE  /\ EntryInv' /\ FilesInv' /\ (\A k : KeyOf(k)' = KeyOf(k))
           /\ \A w \in Upload : Stored(w)' = Stored(w)
           /\ \A w \in Upload \ {u} : /\ Running(w)' = Running(w) /\ Known(w)' = Known(w)
                                      /\ OwnMeta(w)' = OwnMeta(w) /\ OwnCopy(w)' = OwnCopy(w)
<1>1. EntryInv' /\ \A k : KeyOf(k)' = KeyOf(k)
    BY EntrySame DEF IInv, UploadMoves
<1>2. \A w \in Upload : Stored(w)' = Stored(w)
    BY DEF UploadMoves, Stored
<1>3. \A w \in Upload \ {u} : /\ Running(w)' = Running(w) /\ Known(w)' = Known(w)
                             /\ OwnMeta(w)' = OwnMeta(w) /\ OwnCopy(w)' = OwnCopy(w)
    BY <1>1, <1>2 DEF UploadMoves, Running, Known, OwnMeta, OwnCopy
<1>4. \A w \in Upload : Stored(w)' => Stored(w) /\ Remembers(w)
    BY <1>2 DEF UploadMoves, Remembers
<1>5. \A k \in DOMAIN buckets : k \in DOMAIN buckets' /\ KeyOf(k)' = KeyOf(k)
    BY <1>1 DEF UploadMoves, entryVars
<1>6. FilesInv'
    BY <1>4, <1>5, FilesStay DEF IInv
<1> QED
    BY <1>1, <1>2, <1>3, <1>6

\* An upload that gives up keeps all but its place.
LEMMA GivesUp ==
    ASSUME IInv, NEW u \in Upload, GiveUp(u)
    PROVE  /\ up' \in [Upload -> UploadState] /\ \A w \in Upload \ {u} : up'[w] = up[w]
           /\ up'[u].pc = "cleanup" /\ up'[u].pwd = up[u].pwd /\ up'[u].into = up[u].into
           /\ up'[u].encrypted = up[u].encrypted /\ up'[u].hashed = up[u].hashed
           /\ up'[u].sent = up[u].sent /\ up'[u].alone = up[u].alone
<1>1. up \in [Upload -> UploadState] /\ up[u] \in UploadState
    BY DEF IInv, DiskOK
<1>2. up' = [up EXCEPT ![u] = [up[u] EXCEPT !.pc = "cleanup"]]
    BY DEF GiveUp
<1>3. [up[u] EXCEPT !.pc = "cleanup"] \in UploadState
    BY <1>1 DEF UploadState
<1>4. up' \in [Upload -> UploadState] /\ \A w \in Upload \ {u} : up'[w] = up[w]
    BY <1>1, <1>2, <1>3
<1> QED
    BY <1>1, <1>2, <1>4 DEF UploadState

LEMMA GiveUpStep ==
    ASSUME IInv, NEW u \in Upload, up[u].pc \in {"encrypt", "hash", "open", "send"}, GiveUp(u),
           UNCHANGED <<entryVars, diskVars, files>>
    PROVE  IInv'
<1>1. /\ up' \in [Upload -> UploadState] /\ \A w \in Upload \ {u} : up'[w] = up[w]
      /\ up'[u].pc = "cleanup" /\ up'[u].pwd = up[u].pwd /\ up'[u].into = up[u].into
      /\ up'[u].encrypted = up[u].encrypted /\ up'[u].hashed = up[u].hashed
      /\ up'[u].sent = up[u].sent /\ up'[u].alone = up[u].alone
    BY GivesUp
<1>2. ~Stored(u) /\ UploadMoves(u) /\ Running(u)
    BY <1>1 DEF IInv, StepInv, DiskOK, UploadMoves, diskVars, Running
<1>3. /\ EntryInv' /\ FilesInv' /\ (\A k : KeyOf(k)' = KeyOf(k))
      /\ \A w \in Upload : Stored(w)' = Stored(w)
      /\ \A w \in Upload \ {u} : /\ Running(w)' = Running(w) /\ Known(w)' = Known(w)
                                 /\ OwnMeta(w)' = OwnMeta(w) /\ OwnCopy(w)' = OwnCopy(w)
    BY <1>2, MovesFrame
<1>4. DiskOK'
    BY <1>1 DEF IInv, DiskOK, diskVars
<1>5. StepInv'
    BY <1>1, <1>2, <1>3 DEF IInv, StepInv, diskVars, entryVars, Running
<1>6. CopiesInv'
    BY <1>1, <1>2, <1>3 DEF IInv, CopiesInv, diskVars, Known
<1>7. AloneInv'
    BY <1>1, <1>2, <1>3 DEF IInv, AloneInv, diskVars, Running
<1> QED
    BY <1>3, <1>4, <1>5, <1>6, <1>7 DEF IInv

\* Any step within an upload writes its state only.
LEMMA UpWrite ==
    ASSUME IInv, NEW u \in Upload, NEW new \in UploadState, up' = [up EXCEPT ![u] = new]
    PROVE  /\ up' \in [Upload -> UploadState] /\ up'[u] = new
           /\ \A w \in Upload \ {u} : up'[w] = up[w]
    BY DEF IInv, DiskOK

\* A write that fails leaves a copy that is nobody's.
LEMMA PartialCopyStep ==
    ASSUME IInv, NEW u \in Upload, up[u].pc = "encrypt", GiveUp(u), WriteCopy(u, Partial),
           UNCHANGED <<entryVars, version, files>>
    PROVE  IInv'
<1>1. /\ up' \in [Upload -> UploadState] /\ \A w \in Upload \ {u} : up'[w] = up[w]
      /\ up'[u].pc = "cleanup" /\ up'[u].pwd = up[u].pwd /\ up'[u].into = up[u].into
      /\ up'[u].encrypted = up[u].encrypted /\ up'[u].hashed = up[u].hashed
      /\ up'[u].sent = up[u].sent /\ up'[u].alone = up[u].alone
    BY GivesUp
<1>2. /\ encPath' \in Upload /\ inode' \in [Upload -> Copy \cup {Nothing}]
      /\ inode'[encPath'] = Partial /\ \A i \in Upload : i # encPath' => inode'[i] = inode[i]
    BY CopiesAre DEF WriteCopy, IInv, DiskOK
<1>3. Running(u) /\ ~Stored(u)
    BY DEF IInv, StepInv, Running
<1>4. EntryInv' /\ \A k : KeyOf(k)' = KeyOf(k)
    BY EntrySame DEF IInv
<1>5. \A w \in Upload : Stored(w)' = Stored(w) /\ (Stored(w) => Remembers(w))
    BY <1>1, <1>3 DEF Stored, Remembers
<1>6. FilesInv'
    BY <1>4, <1>5, FilesStay DEF IInv, entryVars
<1>7. DiskOK'
    BY <1>1, <1>2 DEF IInv, DiskOK
<1>8. \A w \in Upload \ {u} : /\ Running(w)' = Running(w) /\ Known(w)' = Known(w)
                             /\ OwnMeta(w)' = OwnMeta(w) /\ OwnCopy(w)' = OwnCopy(w)
    BY <1>1, <1>4, <1>5 DEF Running, Known, OwnMeta, OwnCopy
<1>9. \A i \in Upload : inode[i] # Nothing => inode'[i] # Nothing
    BY <1>2, PartialOpensNothing
<1>10. StepInv'
  <2>1. ASSUME NEW w \in Upload \ {u}
        PROVE  (up'[w].encFile # None => up'[w].encFile \in Upload) /\ up'[w] = up[w]
      BY <1>1 DEF IInv, DiskOK, UploadState
  <2> QED
      BY <1>1, <1>3, <1>4, <1>5, <1>8, <1>9, <2>1 DEF IInv, StepInv, entryVars, Running
<1>11. CopiesInv'
  <2>1. encPath' # None => inode'[encPath'] # Nothing
      BY <1>2, PartialOpensNothing
  <2>2. ASSUME NEW i \in Upload, NEW w \in Upload, NEW v \in Version,
               inode'[i] = EncryptFile(w, Raw(v))
        PROVE  up'[w].pc \notin {"off", "encrypt"} /\ (Known(w)' => v = up'[w].encrypted)
    <3>1. inode[i] = EncryptFile(w, Raw(v))
        BY <1>2, <2>2, PartialOpensNothing
    <3>2. w # u
        BY <3>1 DEF IInv, CopiesInv
    <3> QED
        BY <1>1, <1>8, <3>1, <3>2 DEF IInv, CopiesInv
  <2>3. \A w \in Upload, v \in Version : \A n \in DOMAIN up'[w].sent :
          up'[w].sent[n] = EncryptFile(w, Raw(v)) => v = up'[w].encrypted
      BY <1>1 DEF IInv, CopiesInv
  <2> QED
      BY <2>1, <2>2, <2>3 DEF CopiesInv
<1>12. AloneInv'
    BY <1>1, <1>3, <1>8 DEF IInv, AloneInv, Running
<1> QED
    BY <1>4, <1>6, <1>7, <1>10, <1>11, <1>12 DEF IInv

LEMMA EncryptCopyStep ==
    ASSUME IInv, NEW u \in Upload, EncryptCopy(u)
    PROVE  IInv'
<1>1. CASE GiveUp(u) /\ UNCHANGED <<encPath, inode>>
    BY <1>1, GiveUpStep DEF EncryptCopy, diskVars
<1>2. CASE GiveUp(u) /\ WriteCopy(u, Partial)
    BY <1>2, PartialCopyStep DEF EncryptCopy
<1>3. CASE ~(GiveUp(u) /\ (WriteCopy(u, Partial) \/ UNCHANGED <<encPath, inode>>))
  <2> DEFINE new == [up[u] EXCEPT !.pc = "hash", !.encrypted = version]
             own == EncryptFile(u, Raw(version))
  <2>1. /\ up[u].pc = "encrypt" /\ up' = [up EXCEPT ![u] = new]
        /\ encPath' = (IF encPath = None THEN u ELSE encPath)
        /\ inode' = [inode EXCEPT ![encPath'] = own]
        /\ UNCHANGED <<entryVars, version, files>>
      BY <1>3 DEF EncryptCopy, WriteCopy
  <2>2. /\ up[u] \in UploadState /\ version \in Version /\ version \in 0 .. MaxVersion
        /\ encPath' \in Upload /\ own \in Copy /\ own # Nothing
      BY <2>1, CopiesAre, VaultAssumption DEF IInv, DiskOK, Version
  <2>3. new \in UploadState
      BY <2>2 DEF UploadState
  <2>4. /\ up' \in [Upload -> UploadState] /\ up'[u] = new
        /\ \A w \in Upload \ {u} : up'[w] = up[w]
      BY <2>1, <2>3, UpWrite
  <2>5. /\ up'[u].pc = "hash" /\ up'[u].encrypted = version /\ up'[u].into = up[u].into
        /\ up'[u].sent = up[u].sent /\ up'[u].alone = up[u].alone
      BY <2>2, <2>4 DEF UploadState
  <2>6. /\ inode' \in [Upload -> Copy \cup {Nothing}] /\ inode'[encPath'] = own
        /\ \A i \in Upload : i # encPath' => inode'[i] = inode[i]
      BY <2>1, <2>2 DEF IInv, DiskOK
  <2>7. Running(u) /\ ~Stored(u)
      BY <2>1 DEF IInv, StepInv, Running
  <2> HIDE DEF new
  <2>8. EntryInv' /\ \A k : KeyOf(k)' = KeyOf(k)
      BY <2>1, EntrySame DEF IInv
  <2>9. \A w \in Upload : Stored(w)' = Stored(w) /\ (Stored(w) => Remembers(w))
      BY <2>1, <2>4, <2>7 DEF Stored, Remembers
  <2>10. FilesInv'
      BY <2>1, <2>8, <2>9, FilesStay DEF IInv, entryVars
  <2>11. DiskOK'
      BY <2>1, <2>2, <2>4, <2>6 DEF IInv, DiskOK
  <2>12. \A w \in Upload \ {u} : /\ Running(w)' = Running(w) /\ Known(w)' = Known(w)
                               /\ OwnMeta(w)' = OwnMeta(w) /\ OwnCopy(w)' = OwnCopy(w)
      BY <2>4, <2>8, <2>9 DEF Running, Known, OwnMeta, OwnCopy
  <2>13. \A i \in Upload : inode[i] # Nothing => inode'[i] # Nothing
      BY <2>2, <2>6
  <2>14. StepInv'
    <3>1. ASSUME NEW w \in Upload \ {u}
          PROVE  /\ up'[w].encFile # None => up'[w].encFile \in Upload
                 /\ up'[w] = up[w]
        BY <2>4 DEF IInv, DiskOK, UploadState
    <3> QED
        BY <2>1, <2>2, <2>5, <2>7, <2>8, <2>9, <2>12, <2>13, <3>1 DEF IInv, StepInv, entryVars, Running
  <2>15. CopiesInv'
    <3>1. encPath' # None => inode'[encPath'] # Nothing
        BY <2>2, <2>6
    <3>2. ASSUME NEW i \in Upload, NEW w \in Upload, NEW v \in Version,
                 inode'[i] = EncryptFile(w, Raw(v))
          PROVE  up'[w].pc \notin {"off", "encrypt"} /\ (Known(w)' => v = up'[w].encrypted)
      <4>1. CASE i = encPath'
        <5>1. w = u /\ v = version
            <6>1. EncryptFile(u, Raw(version)) = EncryptFile(w, Raw(v))
                BY <2>6, <3>2, <4>1
            <6> QED
                BY <6>1, CopiesDiffer
        <5> QED
            BY <2>5, <5>1
      <4>2. CASE i # encPath'
        <5>1. inode[i] = EncryptFile(w, Raw(v))
            BY <2>6, <3>2, <4>2
        <5>2. w # u
            BY <2>1, <5>1 DEF IInv, CopiesInv
        <5> QED
            BY <2>4, <2>12, <5>1, <5>2 DEF IInv, CopiesInv
      <4> QED
          BY <4>1, <4>2
    <3>3. \A w \in Upload, v \in Version : \A n \in DOMAIN up'[w].sent :
            up'[w].sent[n] = EncryptFile(w, Raw(v)) => v = up'[w].encrypted
      <4>1. up'[u].sent = <<>>
          BY <2>1, <2>5 DEF IInv, StepInv
      <4> QED
          BY <2>4, <4>1 DEF IInv, CopiesInv
    <3> QED
        BY <3>1, <3>2, <3>3 DEF CopiesInv
  <2>16. AloneInv'
    <3>1. ASSUME NEW w \in Upload, up'[w].alone, Running(w)', w # u PROVE FALSE
        BY <2>4, <2>7, <2>12, <3>1 DEF IInv, AloneInv
    <3>2. inode'[encPath'] = OwnCopy(u)' /\ encPath' # None
        BY <2>2, <2>5, <2>6, VaultAssumption DEF OwnCopy, None
    <3>3. up'[u].alone => \A w \in Upload : Running(w)' => w = u
        BY <2>5, <2>7, <2>12 DEF IInv, AloneInv
    <3> QED
        BY <2>5, <3>1, <3>2, <3>3 DEF AloneInv
  <2> QED
      BY <2>8, <2>10, <2>11, <2>14, <2>15, <2>16 DEF IInv
<1> QED
    BY <1>1, <1>2, <1>3

LEMMA HashFileStep ==
    ASSUME IInv, NEW u \in Upload, HashFile(u)
    PROVE  IInv'
<1>1. CASE GiveUp(u)
    BY <1>1, GiveUpStep DEF HashFile
<1>2. CASE ~GiveUp(u)
  <2> DEFINE meta == EncMeta(bucPass, up[u].pwd, u, Raw(version))
             new  == [up[u] EXCEPT !.pc = "open", !.hashed = version, !.meta = meta]
  <2>0. /\ up[u].pc = "hash" /\ up' = [up EXCEPT ![u] = new]
        /\ UNCHANGED <<entryVars, diskVars, files>>
      BY <1>2 DEF HashFile
  <2>1. Running(u) /\ ~Stored(u) /\ up[u].into \in DOMAIN buckets /\ bucPass = KeyOf(up[u].into)
    <3>1. Running(u) /\ ~Stored(u) /\ focus = "bucket" /\ up[u].into = bucket
        BY <2>0 DEF IInv, StepInv, Running
    <3> QED
        BY <3>1 DEF IInv, EntryInv, InsideInv
  <2>a. /\ up[u] \in UploadState /\ version \in Version /\ version \in 0 .. MaxVersion
      BY VaultAssumption DEF IInv, DiskOK, Version
  <2>b. meta \in Meta
    <3>1. bucPass \in Key /\ up[u].pwd \in AnyFilePassword
        BY <2>1, <2>a, KeyOfIsKey DEF IInv, EntryInv, UploadState
    <3> QED
        BY <2>a, <3>1, MetaAre
  <2> HIDE DEF meta
  <2>c. new \in UploadState
      BY <2>a, <2>b DEF UploadState
  <2>d. /\ up' \in [Upload -> UploadState] /\ up'[u] = new
        /\ \A w \in Upload \ {u} : up'[w] = up[w]
      BY <2>0, <2>c, UpWrite
  <2>e. /\ up'[u].pc = "open" /\ up'[u].encrypted = up[u].encrypted /\ up'[u].into = up[u].into
        /\ up'[u].sent = up[u].sent /\ up'[u].alone = up[u].alone /\ up'[u].hashed = version
        /\ up'[u].pwd = up[u].pwd /\ up'[u].meta = meta
      BY <2>a, <2>d DEF UploadState
  <2> HIDE DEF new
  <2>2. UploadMoves(u)
      BY <2>0, <2>1, <2>a, <2>d DEF UploadMoves, diskVars
  <2>3. /\ EntryInv' /\ FilesInv' /\ (\A k : KeyOf(k)' = KeyOf(k))
        /\ \A w \in Upload : Stored(w)' = Stored(w)
        /\ \A w \in Upload \ {u} : /\ Running(w)' = Running(w) /\ Known(w)' = Known(w)
                                   /\ OwnMeta(w)' = OwnMeta(w) /\ OwnCopy(w)' = OwnCopy(w)
      BY <2>2, MovesFrame
  <2>4. DiskOK'
      BY <2>0, <2>d DEF IInv, DiskOK, diskVars
  <2>5. OwnMeta(u)' = meta
      BY <2>0, <2>1, <2>3, <2>e DEF OwnMeta, meta, diskVars
  <2>6. StepInv'
      BY <2>0, <2>1, <2>3, <2>5, <2>a, <2>d, <2>e DEF IInv, StepInv, diskVars, entryVars, Running
  <2>7. CopiesInv'
      BY <2>0, <2>3, <2>d, <2>e DEF IInv, CopiesInv, diskVars, Known
  <2>8. AloneInv'
      BY <2>0, <2>1, <2>3, <2>d, <2>e DEF IInv, AloneInv, diskVars, Running, OwnCopy
  <2> QED
      BY <2>3, <2>4, <2>6, <2>7, <2>8 DEF IInv
<1> QED
    BY <1>1, <1>2

LEMMA OpenCopyStep ==
    ASSUME IInv, NEW u \in Upload, OpenCopy(u)
    PROVE  IInv'
<1>1. CASE GiveUp(u)
    BY <1>1, GiveUpStep DEF OpenCopy
<1>2. CASE ~GiveUp(u)
  <2> DEFINE new == [up[u] EXCEPT !.pc = "send", !.encFile = encPath]
  <2>0. /\ up[u].pc = "open" /\ encPath # None /\ up' = [up EXCEPT ![u] = new]
        /\ UNCHANGED <<entryVars, diskVars, files>>
      BY <1>2 DEF OpenCopy
  <2>1. Running(u) /\ ~Stored(u) /\ up[u] \in UploadState /\ up[u].sent = <<>>
      BY <2>0 DEF IInv, DiskOK, StepInv, Running
  <2>a. new \in UploadState
      BY <2>1 DEF UploadState, IInv, DiskOK
  <2>b. /\ up' \in [Upload -> UploadState] /\ up'[u] = new
        /\ \A w \in Upload \ {u} : up'[w] = up[w]
      BY <2>0, <2>a, UpWrite
  <2>c. /\ up'[u].pc = "send" /\ up'[u].encrypted = up[u].encrypted /\ up'[u].into = up[u].into
        /\ up'[u].sent = up[u].sent /\ up'[u].alone = up[u].alone /\ up'[u].hashed = up[u].hashed
        /\ up'[u].pwd = up[u].pwd /\ up'[u].meta = up[u].meta /\ up'[u].encFile = encPath
      BY <2>1, <2>b DEF UploadState
  <2> HIDE DEF new
  <2>2. UploadMoves(u)
      BY <2>0, <2>1, <2>b DEF UploadMoves, diskVars, IInv, DiskOK
  <2>3. /\ EntryInv' /\ FilesInv' /\ (\A k : KeyOf(k)' = KeyOf(k))
        /\ \A w \in Upload : Stored(w)' = Stored(w)
        /\ \A w \in Upload \ {u} : /\ Running(w)' = Running(w) /\ Known(w)' = Known(w)
                                   /\ OwnMeta(w)' = OwnMeta(w) /\ OwnCopy(w)' = OwnCopy(w)
      BY <2>2, MovesFrame
  <2>4. DiskOK'
      BY <2>0, <2>b DEF IInv, DiskOK, diskVars
  <2>5. OwnMeta(u)' = OwnMeta(u) /\ OwnCopy(u)' = OwnCopy(u)
      BY <2>3, <2>c DEF OwnMeta, OwnCopy
  <2>6. StepInv'
      BY <2>0, <2>1, <2>3, <2>5, <2>b, <2>c
      DEF IInv, StepInv, CopiesInv, diskVars, entryVars, Running
  <2>7. CopiesInv'
      BY <2>0, <2>3, <2>b, <2>c DEF IInv, CopiesInv, diskVars, Known
  <2>8. AloneInv'
      BY <2>0, <2>1, <2>3, <2>5, <2>b, <2>c DEF IInv, AloneInv, diskVars, Running
  <2> QED
      BY <2>3, <2>4, <2>6, <2>7, <2>8 DEF IInv
<1> QED
    BY <1>1, <1>2

LEMMA SendPartStep ==
    ASSUME IInv, NEW u \in Upload, SendPart(u)
    PROVE  IInv'
<1>1. CASE GiveUp(u)
    BY <1>1, GiveUpStep DEF SendPart
<1>2. CASE ~GiveUp(u)
  <2> DEFINE part == inode[up[u].encFile]
             new  == [up[u] EXCEPT !.sent = Append(@, part)]
  <2>0. /\ up[u].pc = "send" /\ Len(up[u].sent) < Parts /\ up' = [up EXCEPT ![u] = new]
        /\ UNCHANGED <<entryVars, diskVars, files>>
      BY <1>2 DEF SendPart
  <2>1. Running(u) /\ ~Stored(u) /\ up[u] \in UploadState /\ up[u].sent \in Seq(Copy)
      BY <2>0 DEF IInv, DiskOK, StepInv, Running, UploadState
  <2>a. up[u].encFile \in Upload /\ part \in Copy
      BY <2>0, <2>1 DEF IInv, DiskOK, StepInv, UploadState
  <2> HIDE DEF part
  <2>b. new \in UploadState
    <3>1. Append(up[u].sent, part) \in Seq(Copy)
        BY <2>1, <2>a
    <3> QED
        BY <2>1, <3>1 DEF UploadState
  <2>c. /\ up' \in [Upload -> UploadState] /\ up'[u] = new
        /\ \A w \in Upload \ {u} : up'[w] = up[w]
      BY <2>0, <2>b, UpWrite
  <2>d. /\ up'[u].pc = "send" /\ up'[u].encrypted = up[u].encrypted /\ up'[u].into = up[u].into
        /\ up'[u].alone = up[u].alone /\ up'[u].hashed = up[u].hashed
        /\ up'[u].pwd = up[u].pwd /\ up'[u].meta = up[u].meta /\ up'[u].encFile = up[u].encFile
        /\ up'[u].sent = Append(up[u].sent, part)
      BY <2>0, <2>1, <2>c DEF UploadState
  <2>e. /\ Len(up'[u].sent) = Len(up[u].sent) + 1 /\ Len(up[u].sent) \in Nat
        /\ \A n \in DOMAIN up'[u].sent :
            up'[u].sent[n] = part \/ (n \in DOMAIN up[u].sent /\ up'[u].sent[n] = up[u].sent[n])
      BY <2>1, <2>a, <2>d
  <2> HIDE DEF new
  <2>2. UploadMoves(u)
      BY <2>0, <2>1, <2>c DEF UploadMoves, diskVars, IInv, DiskOK
  <2>3. /\ EntryInv' /\ FilesInv' /\ (\A k : KeyOf(k)' = KeyOf(k))
        /\ \A w \in Upload : Stored(w)' = Stored(w)
        /\ \A w \in Upload \ {u} : /\ Running(w)' = Running(w) /\ Known(w)' = Known(w)
                                   /\ OwnMeta(w)' = OwnMeta(w) /\ OwnCopy(w)' = OwnCopy(w)
      BY <2>2, MovesFrame
  <2>4. DiskOK'
      BY <2>0, <2>c DEF IInv, DiskOK, diskVars
  <2>5. OwnMeta(u)' = OwnMeta(u) /\ OwnCopy(u)' = OwnCopy(u)
      BY <2>3, <2>d DEF OwnMeta, OwnCopy
  <2>6. StepInv'
      BY <2>0, <2>1, <2>3, <2>5, <2>c, <2>d, <2>e, VaultAssumption
      DEF IInv, StepInv, diskVars, entryVars, Running
  <2>7. CopiesInv'
    <3>1. ASSUME NEW v \in Version, NEW n \in DOMAIN up'[u].sent,
                 up'[u].sent[n] = EncryptFile(u, Raw(v))
          PROVE  v = up'[u].encrypted
      <4>1. Known(u)
          BY <2>0 DEF Known
      <4> QED
          BY <2>a, <2>d, <2>e, <3>1, <4>1 DEF IInv, CopiesInv, part
    <3> QED
        BY <2>0, <2>3, <2>c, <2>d, <3>1 DEF IInv, CopiesInv, diskVars, Known
  <2>8. AloneInv'
    <3>1. up[u].alone => part = OwnCopy(u)
        BY <2>0, <2>1 DEF IInv, AloneInv, part
    <3> QED
        BY <2>0, <2>1, <2>3, <2>5, <2>c, <2>d, <2>e, <3>1 DEF IInv, AloneInv, diskVars, Running
  <2> QED
      BY <2>3, <2>4, <2>6, <2>7, <2>8 DEF IInv
<1> QED
    BY <1>1, <1>2

\* The server stores what was sent, under the metadata that the upload made.
LEMMA CompleteStep ==
    ASSUME IInv, NEW u \in Upload, Complete(u)
    PROVE  IInv'
<1>1. CASE UNCHANGED files
    BY <1>1, GiveUpStep DEF Complete
<1>2. CASE files' # files
  <2>1. /\ up[u].pc = "send" /\ Len(up[u].sent) = Parts /\ GiveUp(u) /\ encPath # None
        /\ UNCHANGED <<entryVars, diskVars>>
        /\ files' = [files EXCEPT ![u] =
                <<"file", [data |-> Joined(up[u].sent), meta |-> up[u].meta,
                           dataChecksum |-> GetSHA(inode[encPath]),
                           metaChecksum |-> GetSHA(up[u].meta.EncMeta)]>>]
      BY <1>2 DEF Complete
  <2>2. /\ up' \in [Upload -> UploadState] /\ \A w \in Upload \ {u} : up'[w] = up[w]
        /\ up'[u].pc = "cleanup" /\ up'[u].pwd = up[u].pwd /\ up'[u].into = up[u].into
        /\ up'[u].encrypted = up[u].encrypted /\ up'[u].hashed = up[u].hashed
        /\ up'[u].sent = up[u].sent /\ up'[u].alone = up[u].alone
      BY <2>1, GivesUp
  <2>3. /\ Running(u) /\ ~Stored(u) /\ up[u].meta = OwnMeta(u) /\ up[u].hashed \in Version
        /\ up[u].encrypted \in Version /\ up[u].sent \in Seq(Copy)
      BY <2>1 DEF IInv, StepInv, DiskOK, UploadState, Running
  <2>4. encPath \in Upload /\ inode[encPath] \in Copy
      BY <2>1 DEF IInv, DiskOK, CopiesInv
  <2>5. up[u].into \in DOMAIN buckets
      BY <2>3 DEF IInv, StepInv, EntryInv, InsideInv
  <2>6. EntryInv' /\ \A k : KeyOf(k)' = KeyOf(k)
      BY <2>1, EntrySame DEF IInv
  <2>7. OwnMeta(u)' = OwnMeta(u) /\ OwnCopy(u)' = OwnCopy(u)
      BY <2>2, <2>6 DEF OwnMeta, OwnCopy
  <2>8. /\ files'[u] = File(u, up[u].sent, inode[encPath])
        /\ \A w \in Upload \ {u} : files'[w] = files[w]
      BY <2>1, <2>3 DEF IInv, DiskOK, File
  <2>9. \A w \in Upload \ {u} : /\ Stored(w)' = Stored(w) /\ Running(w)' = Running(w)
                               /\ Known(w)' = Known(w) /\ OwnMeta(w)' = OwnMeta(w)
                               /\ OwnCopy(w)' = OwnCopy(w)
      BY <2>2, <2>6, <2>8 DEF Stored, Running, Known, OwnMeta, OwnCopy
  <2>10. DiskOK'
      BY <2>1, <2>2 DEF IInv, DiskOK, diskVars
  <2>11. StepInv'
      BY <2>1, <2>2, <2>3, <2>6, <2>9 DEF IInv, StepInv, diskVars, entryVars, Running
  <2>12. CopiesInv'
      BY <2>1, <2>2, <2>9 DEF IInv, CopiesInv, diskVars, Known
  <2>13. AloneInv'
      BY <2>1, <2>2, <2>3, <2>9 DEF IInv, AloneInv, diskVars, Running
  <2>14. FilesInv'
    <3>1. ASSUME NEW w \in Upload \ {u}, Stored(w)'
          PROVE  /\ up'[w].into \in DOMAIN buckets'
                 /\ up'[w].hashed \in Version /\ up'[w].encrypted \in Version
                 /\ \E parts \in Seq(Copy), path \in Copy : Filed(w, parts, path)'
      <4>1. Stored(w) /\ files'[w] = files[w] /\ up'[w] = up[w] /\ OwnCopy(w)' = OwnCopy(w)
          BY <2>2, <2>8, <2>9, <3>1
      <4>2. PICK parts \in Seq(Copy), path \in Copy : Filed(w, parts, path)
          BY <4>1 DEF IInv, FilesInv
      <4>3. File(w, parts, path)' = File(w, parts, path)
          BY <2>9 DEF File
      <4>4. Filed(w, parts, path)'
          BY <4>1, <4>2, <4>3 DEF Filed
      <4> QED
          BY <2>1, <4>1, <4>4 DEF IInv, FilesInv, entryVars
    <3>2. \E parts \in Seq(Copy), path \in Copy : Filed(u, parts, path)'
      <4>1. PICK parts \in Seq(Copy), path \in Copy : parts = up[u].sent /\ path = inode[encPath]
          BY <2>3, <2>4
      <4>2. File(u, parts, path)' = File(u, parts, path)
          BY <2>7 DEF File
      <4>3. \A v \in Version : \A n \in DOMAIN parts :
                parts[n] = EncryptFile(u, Raw(v)) => v = up[u].encrypted
          BY <4>1 DEF IInv, CopiesInv
      <4>4. up[u].alone => path = OwnCopy(u) /\ \A n \in DOMAIN parts : parts[n] = OwnCopy(u)
          BY <2>1, <2>3, <4>1 DEF IInv, AloneInv
      <4>5. Filed(u, parts, path)'
          BY <2>1, <2>2, <2>7, <2>8, <4>1, <4>2, <4>3, <4>4 DEF Filed
      <4> QED
          BY <4>5
    <3> QED
        BY <2>1, <2>2, <2>3, <2>5, <3>1, <3>2 DEF FilesInv, entryVars
  <2> QED
      BY <2>6, <2>10, <2>11, <2>12, <2>13, <2>14 DEF IInv
<1> QED
    BY <1>1, <1>2

\* An upload that is over remembers what was stored, and nothing else.
LEMMA OverIs ==
    ASSUME IInv, NEW u \in Upload
    PROVE  /\ Over(u) \in UploadState /\ Over(u).pc = "done" /\ Over(u).sent = <<>>
           /\ Over(u).into \in {NoKey, up[u].into}
           /\ Stored(u) => /\ Over(u).into = up[u].into /\ Over(u).pwd = up[u].pwd
                           /\ Over(u).hashed = up[u].hashed
                           /\ Over(u).encrypted = up[u].encrypted
                           /\ Over(u).alone = up[u].alone
<1>1. up[u] \in UploadState
    BY DEF IInv, DiskOK
<1>2. CASE Stored(u)
  <2>1. Over(u) = [up[u] EXCEPT !.pc = "done", !.sent = <<>>] /\ <<>> \in Seq(Copy)
      BY <1>2 DEF Over
  <2> QED
      BY <1>1, <2>1 DEF UploadState
<1>3. CASE ~Stored(u)
  <2>1. Over(u) = [NotStarted EXCEPT !.pc = "done"]
      BY <1>3 DEF Over
  <2> QED
      BY <1>3, <2>1, NotStartedType DEF NotStarted
<1> QED
    BY <1>2, <1>3

\* Uploads end, one or all that run, and no other starts or goes on.
Ended(u) == up'[u] = Over(u) \/ (up'[u] = up[u] /\ ~Running(u))

LEMMA EndedFrame ==
    ASSUME IInv, DOMAIN up' = Upload, \A u \in Upload : up'[u] = Over(u) \/ up'[u] = up[u],
           \A u \in Upload : Running(u)' => up'[u] = up[u],
           up' = [u \in Upload |-> up'[u]], encPath' \in {None, encPath},
           (\A w \in Upload : ~Running(w)') \/ UNCHANGED entryVars,
           (\A w \in Upload : Running(w)' /\ up'[w].alone => UNCHANGED encPath),
           EntryInv', UNCHANGED <<version, inode, files, buckets>>
    PROVE  IInv'
<1>1. \A k : KeyOf(k)' = KeyOf(k)
    BY DEF KeyOf, BucketKey
<1>2. \A w \in Upload : Stored(w)' = Stored(w)
    BY DEF Stored
<1>3. \A w \in Upload : up'[w] \in UploadState
    BY OverIs DEF IInv, DiskOK
<1>4. DiskOK'
    BY <1>3 DEF IInv, DiskOK
<1>5. \A w \in Upload : Stored(w)' => Stored(w) /\ Remembers(w)
    BY <1>2, OverIs DEF Remembers
<1>6. FilesInv'
    BY <1>1, <1>5, FilesStay DEF IInv
<1>7. \A w \in Upload : Running(w)' => OwnMeta(w)' = OwnMeta(w) /\ OwnCopy(w)' = OwnCopy(w) /\ Running(w)
    BY <1>1 DEF OwnMeta, OwnCopy, Running
<1>8. StepInv'
  <2>1. ASSUME NEW w \in Upload, up'[w] = Over(w)
        PROVE  /\ up'[w].pc = "done" /\ ~Running(w)' /\ up'[w].sent = <<>>
               /\ up'[w].into \in {NoKey} \cup DOMAIN buckets
      BY <2>1, OverIs DEF Running, IInv, StepInv
  <2>2. ASSUME NEW w \in Upload, up'[w] = up[w]
        PROVE  /\ Running(w)' = Running(w) /\ OwnMeta(w)' = OwnMeta(w)
      BY <1>1, <2>2 DEF Running, OwnMeta
  <2> QED
      BY <1>2, <2>1, <2>2, VaultAssumption DEF IInv, StepInv, entryVars
<1>9. CopiesInv'
  <2>1. ASSUME NEW w \in Upload, up'[w] = Over(w)
        PROVE  /\ up'[w].pc = "done" /\ up'[w].sent = <<>>
               /\ Known(w)' => Stored(w) /\ up'[w].encrypted = up[w].encrypted
      BY <1>2, <2>1, OverIs DEF Known
  <2>2. ASSUME NEW w \in Upload, up'[w] = up[w]
        PROVE  Known(w)' = Known(w)
      BY <1>2, <2>2 DEF Known
  <2> QED
      BY <2>1, <2>2 DEF IInv, CopiesInv, Known
<1>10. AloneInv'
    BY <1>7 DEF IInv, AloneInv
<1> QED
    BY <1>4, <1>6, <1>8, <1>9, <1>10 DEF IInv

LEMMA KilledStep ==
    ASSUME IInv, Restart, encPath' \in {None, encPath}, UNCHANGED <<version, inode, files>>
    PROVE  IInv'
<1>1. EntryInv' /\ UNCHANGED buckets
    BY RestartStep DEF IInv, Restart
<1>2. up' = [u \in Upload |-> IF Running(u) THEN Over(u) ELSE up[u]]
    BY DEF Restart
<1>3. \A u \in Upload : ~Running(u)'
    BY <1>2, OverIs DEF Running
<1> QED
    BY <1>1, <1>2, <1>3, EndedFrame

LEMMA CleanupStep ==
    ASSUME IInv, NEW u \in Upload, Cleanup(u)
    PROVE  IInv'
<1>1. CASE Restart
    BY <1>1, KilledStep DEF Cleanup
<1>2. CASE ~Restart
  <2>1. /\ up[u].pc = "cleanup" /\ encPath' = None /\ up' = [up EXCEPT ![u] = Over(u)]
        /\ UNCHANGED <<entryVars, version, inode, files>>
      BY <1>2 DEF Cleanup
  <2>2. /\ up' \in [Upload -> UploadState] /\ up'[u] = Over(u)
        /\ \A w \in Upload \ {u} : up'[w] = up[w]
      BY <2>1, OverIs, UpWrite
  <2>3. Running(u) /\ ~Running(u)' /\ \A w \in Upload \ {u} : Running(w)' = Running(w)
      BY <2>1, <2>2, OverIs DEF Running
  <2>4. \A w \in Upload : ~(Running(w)' /\ up'[w].alone)
      BY <2>2, <2>3 DEF IInv, AloneInv
  <2>5. EntryInv' /\ UNCHANGED buckets
      BY <2>1, EntrySame DEF IInv, entryVars
  <2> QED
      BY <2>1, <2>2, <2>3, <2>4, <2>5, EndedFrame
<1> QED
    BY <1>1, <1>2

LEMMA ChangeFileStep ==
    ASSUME IInv, ChangeFile
    PROVE  IInv'
<1>1. /\ version' = version + 1 /\ version < MaxVersion
      /\ UNCHANGED <<entryVars, encPath, inode, up, files>>
    BY DEF ChangeFile
<1>2. version' \in Version
    BY <1>1, VaultAssumption DEF IInv, DiskOK, Version
<1>3. EntryInv' /\ \A k : KeyOf(k)' = KeyOf(k)
    BY <1>1, EntrySame DEF IInv
<1>4. \A u \in Upload : /\ Stored(u)' = Stored(u) /\ Running(u)' = Running(u) /\ Known(u)' = Known(u)
                        /\ OwnMeta(u)' = OwnMeta(u) /\ OwnCopy(u)' = OwnCopy(u)
    BY <1>1, <1>3 DEF Stored, Running, Known, OwnMeta, OwnCopy
<1>5. FilesInv'
    BY <1>1, <1>3, <1>4, FilesStay DEF IInv, Remembers, entryVars
<1>6. DiskOK' /\ StepInv'
    BY <1>1, <1>2, <1>4 DEF IInv, DiskOK, StepInv, entryVars
<1>7. CopiesInv' /\ AloneInv'
    BY <1>1, <1>4 DEF IInv, CopiesInv, AloneInv
<1> QED
    BY <1>3, <1>5, <1>6, <1>7 DEF IInv

LEMMA StartUploadStep ==
    ASSUME IInv, NEW u \in Upload, NEW pwd \in AnyFilePassword, StartUpload(u, pwd)
    PROVE  IInv'
<1> DEFINE new == [NotStarted EXCEPT !.pc = "encrypt", !.pwd = pwd, !.into = bucket, !.alone = NoUpload]
<1>1. /\ focus = "bucket" /\ up[u].pc = "off" /\ \A c \in Creation : creation[c] = "done"
      /\ up' = [v \in Upload |-> IF v = u THEN new ELSE [up[v] EXCEPT !.alone = @ /\ ~Running(v)]]
      /\ UNCHANGED <<entryVars, diskVars, files>>
    BY DEF StartUpload
<1>2. bucket \in DOMAIN buckets /\ bucket \in Nat
    BY <1>1 DEF IInv, EntryInv, InsideInv, BucketsOK
<1>3. new \in UploadState
    BY <1>2, NotStartedType DEF NoUpload
<1>4. /\ new.pc = "encrypt" /\ new.sent = <<>> /\ new.into = bucket /\ new.alone = NoUpload
    BY DEF NotStarted
<1> HIDE DEF new
<1>5. up'[u] = new
    BY <1>1
<1>6. ASSUME NEW w \in Upload \ {u}
      PROVE  /\ up'[w] \in UploadState /\ up'[w].pc = up[w].pc /\ up'[w].pwd = up[w].pwd
             /\ up'[w].into = up[w].into /\ up'[w].encrypted = up[w].encrypted
             /\ up'[w].hashed = up[w].hashed /\ up'[w].meta = up[w].meta
             /\ up'[w].encFile = up[w].encFile /\ up'[w].sent = up[w].sent
             /\ up'[w].alone = (up[w].alone /\ ~Running(w))
  <2>1. up[w] \in UploadState /\ (up[w].alone /\ ~Running(w)) \in BOOLEAN
      BY DEF IInv, DiskOK
  <2>2. up'[w] = [up[w] EXCEPT !.alone = up[w].alone /\ ~Running(w)]
      BY <1>1
  <2> QED
      BY <2>1, <2>2 DEF UploadState
<1>7. ~Stored(u) /\ ~Running(u) /\ ~Known(u)
    BY <1>1 DEF IInv, StepInv, Running, Known
<1>8. EntryInv' /\ \A k : KeyOf(k)' = KeyOf(k)
    BY <1>1, EntrySame DEF IInv
<1>9. /\ \A w \in Upload : Stored(w)' = Stored(w)
      /\ \A w \in Upload \ {u} : /\ Running(w)' = Running(w) /\ Known(w)' = Known(w)
                                 /\ OwnMeta(w)' = OwnMeta(w) /\ OwnCopy(w)' = OwnCopy(w)
    BY <1>1, <1>6, <1>8 DEF Stored, Running, Known, OwnMeta, OwnCopy
<1>10. FilesInv'
  <2>1. \A w \in Upload : Stored(w)' => Stored(w) /\ Remembers(w)
      BY <1>1, <1>6, <1>7, <1>9 DEF Remembers
  <2> QED
      BY <1>1, <1>8, <2>1, FilesStay DEF IInv, entryVars
<1>11. DiskOK'
  <2>1. \A w \in Upload : up'[w] \in UploadState
      BY <1>3, <1>5, <1>6
  <2> QED
      BY <1>1, <2>1 DEF IInv, DiskOK, diskVars
<1>12. StepInv'
  <2>1. Len(<<>>) <= Parts
      BY VaultAssumption
  <2>2. UNCHANGED <<focus, bucket, buckets, creation, inode>>
      BY <1>1 DEF entryVars, diskVars
  <2> QED
      BY <1>1, <1>2, <1>4, <1>5, <1>6, <1>7, <1>9, <2>1, <2>2 DEF IInv, StepInv
<1>13. CopiesInv'
    BY <1>1, <1>4, <1>5, <1>6, <1>9 DEF IInv, CopiesInv, diskVars
<1>14. AloneInv'
    BY <1>1, <1>4, <1>5, <1>6, <1>9 DEF AloneInv, NoUpload
<1> QED
    BY <1>8, <1>10, <1>11, <1>12, <1>13, <1>14 DEF IInv

\* A step of the entry stage: no upload runs, and the buckets stay.
LEMMA OutsideStep ==
    ASSUME IInv, EntryInv', UNCHANGED vaultVars, NoUpload,
           \A k \in DOMAIN buckets : k \in DOMAIN buckets' /\ KeyOf(k)' = KeyOf(k)
    PROVE  IInv'
<1>1. /\ DiskOK' /\ \A u \in Upload : Stored(u)' = Stored(u) /\ ~Running(u) /\ ~Running(u)'
    BY DEF IInv, DiskOK, vaultVars, Stored, Running, NoUpload
<1>2. FilesInv'
    BY <1>1, FilesStay DEF IInv, Remembers, vaultVars
<1>3. \A u \in Upload : Known(u)' = Known(u) /\ up[u].pc \notin {"hash", "open", "send", "encrypt"}
    BY <1>1 DEF Known, vaultVars, Running
<1>4. StepInv'
    BY <1>1, <1>3 DEF IInv, StepInv, vaultVars
<1>5. CopiesInv' /\ AloneInv'
    BY <1>1, <1>3 DEF IInv, CopiesInv, AloneInv, vaultVars
<1> QED
    BY <1>1, <1>2, <1>4, <1>5 DEF IInv

LEMMA LeaveStep ==
    ASSUME IInv, Leave
    PROVE  IInv'
<1>1. EntryInv' /\ UNCHANGED buckets
    BY LogoutStep DEF IInv, Leave, Logout
<1>2. \A k : KeyOf(k)' = KeyOf(k)
    BY <1>1 DEF KeyOf, BucketKey
<1> QED
    BY <1>1, <1>2, OutsideStep DEF Leave

LEMMA EntryPartStep ==
    ASSUME IInv, EntryNext, UNCHANGED vaultVars
    PROVE  IInv'
<1>1. NoUpload
    BY EntryStill DEF IInv, StepInv, NoUpload
<1> QED
    BY <1>1, EntrySteps, BucketsRemain, OutsideStep DEF IInv

-----------------------------------------------------------------------------
(* Theorems. *)

LEMMA InitIInv == Init => IInv
    BY InitEntry, InitUploads DEF IInv

LEMMA NextIInv == IInv /\ [Next]_vars => IInv'
<1> SUFFICES ASSUME IInv, [Next]_vars PROVE IInv'
    OBVIOUS
<1>1. CASE EntryNext /\ UNCHANGED vaultVars
    BY <1>1, EntryPartStep
<1>2. CASE Leave
    BY <1>2, LeaveStep
<1>3. CASE ChangeFile
    BY <1>3, ChangeFileStep
<1>4. CASE Killed
    BY <1>4, KilledStep DEF Killed, diskVars
<1>5. ASSUME NEW u \in Upload, ManageUpload(u) PROVE IInv'
    BY <1>5, EncryptCopyStep, HashFileStep, OpenCopyStep, SendPartStep, CompleteStep, CleanupStep
    DEF ManageUpload
<1>6. ASSUME NEW u \in Upload, NEW pwd \in AnyFilePassword, StartUpload(u, pwd) PROVE IInv'
    BY <1>6, StartUploadStep
<1>7. CASE UNCHANGED vars
  <2>1. EntryInv' /\ (\A k : KeyOf(k)' = KeyOf(k)) /\ UNCHANGED <<vaultVars, buckets>>
      BY <1>7, EntrySame DEF IInv, vars, entryVars
  <2>2. \A u \in Upload : /\ Stored(u)' = Stored(u) /\ Running(u)' = Running(u)
                          /\ Known(u)' = Known(u) /\ OwnMeta(u)' = OwnMeta(u)
                          /\ OwnCopy(u)' = OwnCopy(u)
      BY <2>1 DEF Stored, Running, Known, OwnMeta, OwnCopy, vaultVars
  <2>3. FilesInv'
      BY <2>1, <2>2, FilesStay DEF IInv, Remembers, vaultVars
  <2>4. DiskOK' /\ StepInv'
      BY <1>7, <2>1, <2>2 DEF IInv, DiskOK, StepInv, vars, entryVars, vaultVars
  <2>5. CopiesInv' /\ AloneInv'
      BY <2>1, <2>2 DEF IInv, CopiesInv, AloneInv, vaultVars
  <2> QED
      BY <2>1, <2>3, <2>4, <2>5 DEF IInv
<1> QED
    BY <1>1, <1>2, <1>3, <1>4, <1>5, <1>6, <1>7 DEF Next, AnyFilePassword

LEMMA Inductive == Spec => []IInv
    BY InitIInv, NextIInv, PTL DEF Spec

\* The state of the entry stage, of the disk, of the uploads and of the server is
\* well formed.
THEOREM TypeCorrect == Spec => []TypeOK
<1>1. IInv => TypeOK
  <2> SUFFICES ASSUME IInv PROVE TypeOK
      OBVIOUS
  <2>1. EntryTypeOK /\ version \in 1 .. MaxVersion /\ encPath \in {None} \cup Upload
        /\ DOMAIN inode = Upload /\ DOMAIN files = Upload
      BY DEF IInv, EntryInv, DiskOK, Version
  <2>2. ASSUME NEW u \in Upload
        PROVE  /\ up[u].pc \in {"off", "encrypt", "hash", "open", "send", "cleanup", "done"}
               /\ up[u].pwd \in FilePassword \cup {NoFilePassword}
               /\ up[u].into \in {NoKey} \cup DOMAIN buckets
               /\ up[u].encrypted \in 0 .. MaxVersion /\ up[u].hashed \in 0 .. MaxVersion
               /\ up[u].pc = "send" => up[u].encFile \in Upload
               /\ Len(up[u].sent) <= Parts /\ up[u].alone \in BOOLEAN
    <3>1. up[u] \in UploadState
        BY DEF IInv, DiskOK
    <3> QED
        BY <3>1 DEF UploadState, AnyFilePassword, IInv, StepInv
  <2> QED
      BY <2>1, <2>2 DEF TypeOK
<1> QED
    BY <1>1, Inductive, PTL

\* Whatever was typed, pressed or refused on the way: every bucket has a password
\* that follows the rules 1 to 4 on the page.
THEOREM FirstFourRulesFollowed == Spec => []PasswordsFollowFirstFourRules
<1>1. IInv => PasswordsFollowFirstFourRules
  <2> SUFFICES ASSUME IInv, NEW k \in DOMAIN buckets
               PROVE  FollowsFirstFourRules(Spelling[buckets[k].pwd])
      BY DEF PasswordsFollowFirstFourRules
  <2>1. Sound(buckets[k].pwd)
      BY DEF IInv, EntryInv, BucketsOK
  <2>2. Spelling[buckets[k].pwd] \in Seq(Char)
      BY <2>1, EntryAssumption DEF Sound
  <2> QED
      BY <2>1, <2>2, FormatIsFirstFourRules DEF Sound
<1> QED
    BY <1>1, Inductive, PTL

\* The password of a bucket unwraps its key, and the key that the page shows goes
\* with the password in the form, however creations, logins, refusals and
\* restarts interleave.
THEOREM CreatedOpen == Spec => []CreatedOpens
<1>1. IInv => CreatedOpens
  <2> SUFFICES ASSUME IInv PROVE CreatedOpens
      OBVIOUS
  <2>1. \A k \in DOMAIN buckets : BucketKey(k, Typed(buckets[k].pwd)) # Fail
      BY KeyOfIsKey DEF IInv, EntryInv, KeyOf
  <2> QED
      BY <2>1 DEF IInv, EntryInv, ShownInv, CreatedOpens
<1> QED
    BY <1>1, Inductive, PTL

\* Parts that are not all of one ciphertext decrypt to nothing.
LEMMA MixedFails ==
    ASSUME NEW parts, NEW k, NEW n, Decrypt(k, n, Joined(parts)) # Fail
    PROVE  Joined(parts) = parts[1] /\ \A i \in DOMAIN parts : parts[i] = parts[1]
    BY DEF Joined, Decrypt

\* What the server has of an upload, as a download reads it.
LEMMA FiledIs ==
    ASSUME NEW u, NEW parts, NEW path, files[u] = File(u, parts, path)
    PROVE  /\ files[u][2].data = Joined(parts)
           /\ files[u][2].meta = OwnMeta(u)
           /\ files[u][2].dataChecksum = GetSHA(path)
           /\ files[u][2].metaChecksum = GetSHA(OwnMeta(u).EncMeta)
    BY DEF File

\* An upload that completed, had the path to itself and read one file both times
\* yields that file to whoever enters its bucket and gives its password, with
\* any number of other uploads, buckets, logouts and restarts after it.
THEOREM CompletedOpen == Spec => []CompletedOpens
<1>1. IInv => CompletedOpens
  <2> SUFFICES ASSUME IInv, NEW u \in Upload, Stored(u), up[u].alone,
                      up[u].encrypted = up[u].hashed
               PROVE  Opened(files[u][2], KeyOf(up[u].into), up[u].pwd) = Raw(up[u].hashed)
      BY DEF CompletedOpens
  <2>1. PICK parts \in Seq(Copy), path \in Copy : Filed(u, parts, path)
      BY DEF IInv, FilesInv
  <2>2. /\ Len(parts) = Parts /\ files[u] = File(u, parts, path) /\ path = OwnCopy(u)
        /\ \A n \in DOMAIN parts : parts[n] = OwnCopy(u)
      BY <2>1 DEF Filed
  <2>3. 1 \in DOMAIN parts
      BY <2>2, VaultAssumption
  <2>4. Joined(parts) = OwnCopy(u)
      BY <2>2, <2>3 DEF Joined
  <2>5. CheckDownloads(files[u][2])
      BY <2>2, <2>4, FiledIs DEF CheckDownloads
  <2> QED
      BY <2>2, <2>4, <2>5, FiledIs, SealedOpens DEF OwnMeta, OwnCopy
<1> QED
    BY <1>1, Inductive, PTL

\* What passes every check of a download was opened in the bucket and with the
\* password it was uploaded with, and is one file, the one the upload read both
\* times, whatever shared or replaced its encrypted copy on the way.
THEOREM OpensOwn == Spec => []OpensOnlyItsOwn
<1>1. IInv => OpensOnlyItsOwn
  <2> SUFFICES ASSUME IInv, NEW u \in Upload, NEW k \in DOMAIN buckets,
                      NEW pwd \in FilePassword \cup {NoFilePassword},
                      Stored(u), Opened(files[u][2], KeyOf(k), pwd) # Fail
               PROVE  /\ k = up[u].into
                      /\ up[u].pwd # NoFilePassword => pwd = up[u].pwd
                      /\ up[u].encrypted = up[u].hashed
                      /\ Opened(files[u][2], KeyOf(k), pwd) = Raw(up[u].encrypted)
      BY DEF OpensOnlyItsOwn
  <2>1. PICK parts \in Seq(Copy), path \in Copy : Filed(u, parts, path)
      BY DEF IInv, FilesInv
  <2>2. /\ files[u][2].data = Joined(parts) /\ files[u][2].meta = OwnMeta(u)
        /\ Len(parts) = Parts /\ up[u].into \in DOMAIN buckets
      BY <2>1, FiledIs DEF Filed, IInv, FilesInv
  <2>3. /\ KeyOf(k) = KeyOf(up[u].into) /\ (up[u].pwd # NoFilePassword => pwd = up[u].pwd)
        /\ Opened(files[u][2], KeyOf(k), pwd) = Raw(up[u].hashed)
        /\ Decrypt(FileKey(u), Random(u, "fileNonce"), Joined(parts)) = Raw(up[u].hashed)
      BY <2>2, OpenedIsSealed DEF OwnMeta
  <2>4. k = up[u].into
      BY <2>2, <2>3, KeysDiffer DEF IInv, EntryInv
  <2>5. Joined(parts) = parts[1]
      BY <2>3, MixedFails, TermsDiffer
  <2>6. 1 \in DOMAIN parts /\ parts[1] \in Copy
      BY <2>2, VaultAssumption
  <2>7. PICK w \in Upload, v \in Version : parts[1] = EncryptFile(w, Raw(v))
      BY <2>3, <2>5, <2>6, PartialOpensNothing, TermsDiffer DEF Copy
  <2>8. FileKey(w) = FileKey(u) /\ Raw(v) = Raw(up[u].hashed)
      BY <2>3, <2>5, <2>7, DecryptEncrypted, TermsDiffer DEF EncryptFile
  <2>9. w = u /\ v = up[u].hashed
      BY <2>8, TermsInjective DEF FileKey
  <2>10. v = up[u].encrypted
      BY <2>1, <2>6, <2>7, <2>9 DEF Filed
  <2> QED
      BY <2>3, <2>4, <2>9, <2>10
<1> QED
    BY <1>1, Inductive, PTL
=============================================================================
