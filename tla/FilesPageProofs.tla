--------------------------- MODULE FilesPageProofs ---------------------------
(***************************************************************************)
(* Proofs about FilesPage, for any number of files and of goroutines.      *)
(*                                                                         *)
(* As long as no refresh started while another was running, there is one   *)
(* refresh at a time (OneRefresh), and from its first step to its last the *)
(* table is empty (RowsInv): s.files is written only then, so the rows are *)
(* the list whenever there are rows.  An index that a dialog or a          *)
(* goroutine remembers stands for the file its row showed for the same     *)
(* reason (MeantInv).  A list received is of files nobody deleted, unless  *)
(* another refresh follows (CleanInv).  Whoever shows the page starts a    *)
(* refresh, which sets the title in the end (TitleInv).                    *)
(***************************************************************************)
EXTENDS FilesPage, FiniteSetTheorems, SequenceTheorems, TLAPS

\* What the entries of s.files may be by now.
Made == 1 .. created

\* Nobody deletes or lists a file that does not exist yet.
KnownInv ==
    /\ stored \subseteq Made /\ gone \subseteq Made /\ stored \cap gone = {}
    /\ \A i \in DOMAIN files : files[i] \in Made \cup {Blank}
    /\ \A g \in Goroutine :
        /\ Len(got[g]) <= MaxFiles
        /\ \A i \in DOMAIN got[g] : got[g][i] \in Made
        /\ pc[g] = "deleting" => order[g].sent \in Made \cup {Blank}

\* An index that is still needed is one of a row.
IndexInv ==
    /\ dialog.kind = "none" <=> dialog = NoOrder
    /\ dialog.kind # "none" => dialog.idx \in File
    /\ \A g \in Goroutine : pc[g] \in {"name", "request"} => order[g].idx \in File

OneRefresh ==
    overlapped \/ \A g, h \in Goroutine : Refreshing(g) /\ Refreshing(h) => g = h

\* The table is cleared before s.files is written, and filled afterwards.
RowsInv ==
    overlapped \/
    \A g \in Goroutine :
        pc[g] \in {"fetch", "clear", "set", "sort", "fill"} => table = EmptyTable

\* The entry at the index is the one the row showed.
Stands(o) == o.row = Nothing \/ (InRange(o.idx) /\ files[o.idx] = o.row /\ o.asked = o.row)

MeantInv ==
    overlapped \/
    /\ dialog.kind # "none" => Stands(dialog)
    /\ \A g \in Goroutine : pc[g] \in {"name", "request"} => Stands(order[g])

CleanInv ==
    overlapped \/
    /\ \A g \in Goroutine : pc[g] \in {"clear", "set"} => \A i \in DOMAIN got[g] : got[g][i] \notin gone
    /\ ~listError /\ (\A g \in Goroutine : pc[g] \notin {"loading", "fetch", "clear", "set"})
        => \A i \in DOMAIN files : files[i] \notin gone

TitleInv == page = "upload" \/ title = "Files" \/ \E g \in Goroutine : Refreshing(g)

IInv ==
    /\ TypeOK /\ KnownInv /\ IndexInv
    /\ OneRefresh /\ RowsInv /\ RowsAreTheList /\ MeantInv /\ UndisturbedIsMeant
    /\ CleanInv /\ TitleInv

-----------------------------------------------------------------------------
(* The operators. *)

LEMMA FileFacts ==
    /\ \A i \in File : i \in Nat /\ 1 <= i /\ i <= MaxFiles /\ i \in 0 .. MaxFiles
    /\ \A i \in Nat : 1 <= i /\ i <= MaxFiles => i \in File
    BY FilesPageAssumption DEF File

LEMMA IsSequence ==
    ASSUME NEW S, NEW n \in Nat, NEW f \in [1 .. n -> S]
    PROVE  f \in Seq(S) /\ Len(f) = n
<1>1. f \in Seq(S)
    BY SeqDef
<1> QED
    BY <1>1

\* A sorted list is a rearrangement of the list.
LEMMA SortedFacts ==
    ASSUME NEW S, NEW list \in Seq(S), NEW t \in Sorted(list)
    PROVE  /\ t \in Seq(S) /\ Len(t) = Len(list)
           /\ \A i \in DOMAIN t : \E j \in DOMAIN list : t[i] = list[j]
<1>1. PICK p \in Bijection(DOMAIN list, DOMAIN list) : t = [i \in DOMAIN list |-> list[p[i]]]
    BY DEF Sorted
<1>2. list \in [1 .. Len(list) -> S] /\ Len(list) \in Nat /\ DOMAIN list = 1 .. Len(list)
    BY LenProperties
<1>3. p \in [1 .. Len(list) -> 1 .. Len(list)]
    BY <1>1, <1>2 DEF Bijection, Injection
<1>4. t \in [1 .. Len(list) -> S] /\ t \in Seq(S) /\ Len(t) = Len(list)
    BY <1>1, <1>2, <1>3, SeqDef
<1> QED
    BY <1>1, <1>2, <1>3, <1>4

\* A mixture of the list's entries and blanks has as many entries.
LEMMA TornFacts ==
    ASSUME TypeOK, NEW t \in Torn
    PROVE  /\ t \in Seq(Entry) /\ Len(t) = Len(files)
           /\ \A i \in DOMAIN t : t[i] = Blank \/ \E j \in DOMAIN files : t[i] = files[j]
<1>1. files \in [1 .. Len(files) -> Entry] /\ Len(files) \in Nat /\ DOMAIN files = 1 .. Len(files)
    BY LenProperties DEF TypeOK
<1>2. t \in [1 .. Len(files) -> Entry] /\ t \in Seq(Entry) /\ Len(t) = Len(files)
    BY <1>1, SeqDef DEF Torn, Entry
<1> QED
    BY <1>1, <1>2 DEF Torn

\* A listing is of stored files, and no longer than there are any.
LEMMA ListingFacts ==
    ASSUME TypeOK, NEW s \in Listings
    PROVE  s \in Seq(stored) /\ s \in Seq(File) /\ Len(s) <= MaxFiles
<1>1. IsFiniteSet(File) /\ Cardinality(File) = MaxFiles
    BY FilesPageAssumption, FS_Interval, SMT DEF File
<1>2. IsFiniteSet(stored) /\ Cardinality(stored) \in Nat /\ Cardinality(stored) <= MaxFiles
    BY <1>1, FS_Subset, FS_CardinalityType DEF TypeOK
<1>3. s \in [1 .. Cardinality(stored) -> stored]
    BY DEF Listings, Injection
<1>4. s \in Seq(stored) /\ Len(s) = Cardinality(stored)
    BY <1>2, <1>3, SeqDef
<1>5. stored \subseteq File
    BY DEF TypeOK
<1> QED
    BY <1>2, <1>4, <1>5, SeqMonotonic

LEMMA CreatedFacts ==
    ASSUME TypeOK
    PROVE  /\ created \in Nat /\ created <= MaxFiles
           /\ Made \subseteq File
           /\ created < MaxFiles => created + 1 \in 0 .. MaxFiles /\ created + 1 \in File
<1>1. created \in 0 .. MaxFiles
    BY DEF TypeOK
<1>2. MaxFiles \in Nat
    BY FilesPageAssumption
<1> QED
    BY <1>1, <1>2 DEF Made, File

\* A place in a list.
LEMMA PlaceFacts ==
    ASSUME NEW S, NEW list \in Seq(S), NEW i \in File, i <= Len(list)
    PROVE  i \in 1 .. Len(list) /\ i \in DOMAIN list /\ list[i] \in S
<1>1. Len(list) \in Nat /\ DOMAIN list = 1 .. Len(list)
    BY LenProperties
<1>2. i \in Nat /\ 1 <= i
    BY FileFacts
<1>3. i \in 1 .. Len(list)
    BY <1>1, <1>2
<1> QED
    BY <1>1, <1>3, ElementOfSeq

\* A write to s.files changes no dialog or order but for the row it showed.
LEMMA WriteFacts ==
    ASSUME TypeOK, NEW list \in Seq(Entry), Len(list) <= MaxFiles, WriteFiles(list)
    PROVE  /\ files' \in Seq(Entry) /\ Len(files') <= MaxFiles
           /\ dialog' \in OrderType /\ order' \in [Goroutine -> OrderType]
           /\ dialog' = [dialog EXCEPT !.row = Nothing]
           /\ \A g \in Goroutine : order'[g] = [order[g] EXCEPT !.row = Nothing]
    BY DEF WriteFiles, Moved, TypeOK, OrderType

\* An index in range is one of an entry.
LEMMA EntryFacts ==
    ASSUME TypeOK, NEW i \in File, InRange(i)
    PROVE  i \in 1 .. Len(files) /\ i \in DOMAIN files /\ files[i] \in Entry
    BY PlaceFacts DEF TypeOK, InRange

LEMMA NoOrderType == NoOrder \in OrderType
    BY FilesPageAssumption DEF NoOrder, OrderType, Entry

LEMMA SendFacts ==
    ASSUME TypeOK, NEW o \in OrderType, o.idx \in File, InRange(o.idx)
    PROVE  /\ Send(o) \in OrderType
           /\ Send(o).row = o.row /\ Send(o).asked = o.asked /\ Send(o).sent = files[o.idx]
<1>1. files[o.idx] \in Entry /\ 0 \in 0 .. MaxFiles
    BY EntryFacts, FilesPageAssumption
<1> QED
    BY <1>1 DEF Send, OrderType

-----------------------------------------------------------------------------
(* The state stays well formed. *)

LEMMA KeysKeepTypes ==
    ASSUME TypeOK, IndexInv, Key
    PROVE  TypeOK'
<1> USE NoOrderType, FilesPageAssumption DEF TypeOK, StartRefresh, Step, screenVars, threadVars, historyVars, serverVars
<1>1. CASE Refresh
    BY <1>1 DEF Refresh
<1>2. CASE SwitchToUpload
    BY <1>2 DEF SwitchToUpload
<1>3. CASE BuildFiles
    BY <1>3 DEF BuildFiles, EmptyTable, Entry
<1>4. CASE \E kind \in {"delete", "download"}, i \in File : Ask(kind, i)
  <2>1. PICK kind \in {"delete", "download"}, i \in File : Ask(kind, i)
      BY <1>4
  <2>2. InRange(i) => files[i] \in Entry
      BY EntryFacts
  <2>3. table[i] \in Entry \cup {Nothing} /\ i \in 0 .. MaxFiles
      BY FileFacts
  <2>4. CASE InRange(i)
    <3>1. files[i] \in Entry /\ table[i] \in Entry
        BY <2>1, <2>2, <2>3, <2>4 DEF Ask
    <3>2. [kind |-> kind, idx |-> i, row |-> table[i], asked |-> files[i], sent |-> Nothing]
          \in OrderType
        BY <2>3, <3>1 DEF OrderType
    <3> QED
        BY <2>1, <2>4, <3>2 DEF Ask
  <2>5. CASE ~InRange(i)
      BY <2>1, <2>5 DEF Ask, Crash
  <2> QED
      BY <2>4, <2>5
<1>5. CASE Cancel
    BY <1>5 DEF Cancel
<1>6. CASE YesDelete
    BY <1>6 DEF YesDelete
<1>7. CASE YesDownload
  <2>1. dialog.idx \in File
      BY <1>7 DEF YesDownload, IndexInv
  <2>2. files[dialog.idx] \in Entry /\ Send(dialog) \in OrderType
      BY <1>7, <2>1, EntryFacts, SendFacts DEF YesDownload
  <2>3. [dialog EXCEPT !.kind = "password", !.asked = files[dialog.idx]] \in OrderType
      BY <2>2 DEF OrderType
  <2> QED
      BY <1>7, <2>2, <2>3 DEF YesDownload, StartDownload
<1>8. CASE ConfirmPassword
  <2>1. dialog.idx \in File
      BY <1>8 DEF ConfirmPassword, IndexInv
  <2>2. Send(dialog) \in OrderType
      BY <1>8, <2>1, SendFacts DEF ConfirmPassword
  <2> QED
      BY <1>8, <2>2 DEF ConfirmPassword, StartDownload
<1>9. CASE ConfirmOutOfRange
    BY <1>9 DEF ConfirmOutOfRange, Crash
<1> QED
    BY <1>1, <1>2, <1>3, <1>4, <1>5, <1>6, <1>7, <1>8, <1>9 DEF Key

LEMMA RefreshKeepsTypes ==
    ASSUME TypeOK, KnownInv, NEW g \in Goroutine, RefreshStep(g)
    PROVE  TypeOK'
<1> USE FilesPageAssumption DEF TypeOK, Step, screenVars, threadVars, historyVars, serverVars
<1>1. CASE Loading(g)
    BY <1>1 DEF Loading, EmptyTable
<1>2. CASE GetFilesList(g)
    BY <1>2, ListingFacts DEF GetFilesList
<1>3. CASE ClearFiles(g)
  <2> DEFINE blanks == [i \in DOMAIN files |-> Blank]
  <2>1. Len(files) \in Nat /\ DOMAIN files = 1 .. Len(files)
      BY LenProperties
  <2>3. blanks \in [1 .. Len(files) -> Entry]
      BY <2>1 DEF Entry
  <2>2. WriteFiles(blanks)
      BY <1>3 DEF ClearFiles
  <2> HIDE DEF blanks
  <2>4. blanks \in Seq(Entry) /\ Len(blanks) = Len(files)
      BY <2>1, <2>3, IsSequence
  <2> QED
      BY <1>3, <2>2, <2>4, WriteFacts DEF ClearFiles
<1>4. CASE SetFiles(g)
  <2>1. got[g] \in Seq(Entry) /\ Len(got[g]) <= MaxFiles
      BY SeqMonotonic DEF KnownInv, Entry
  <2>2. got' \in [Goroutine -> Seq(File)]
      BY <1>4, EmptySeq DEF SetFiles
  <2> QED
      BY <1>4, <2>1, <2>2, WriteFacts DEF SetFiles
<1>5. CASE SortFiles(g)
  <2>1. PICK list \in Torn \cup Sorted(files) : WriteFiles(list)
      BY <1>5 DEF SortFiles
  <2>2. list \in Seq(Entry) /\ Len(list) <= MaxFiles
      BY TornFacts, SortedFacts
  <2> QED
      BY <1>5, <2>1, <2>2, WriteFacts DEF SortFiles
<1>6. CASE FillTable(g)
  <2>1. PICK list \in Torn \cup {files} :
            table' = [i \in File |-> IF i <= Len(list) THEN list[i]
                                     ELSE IF i = Len(list) + 2 THEN Nothing ELSE table[i]]
      BY <1>6 DEF FillTable
  <2>2. list \in Seq(Entry)
      BY TornFacts
  <2>3. \A i \in File : i <= Len(list) => list[i] \in Entry
      BY <2>2, PlaceFacts
  <2>4. table' \in [File -> Entry \cup {Nothing}]
      BY <2>1, <2>3
  <2> QED
      BY <1>6, <2>4 DEF FillTable
<1> QED
    BY <1>1, <1>2, <1>3, <1>4, <1>5, <1>6 DEF RefreshStep

LEMMA OrdersKeepTypes ==
    ASSUME TypeOK, KnownInv, IndexInv, NEW g \in Goroutine, OrderStep(g)
    PROVE  TypeOK'
<1> USE NoOrderType, FilesPageAssumption DEF TypeOK, Step, screenVars, threadVars, historyVars, serverVars
<1>1. CASE DeleteName(g)
    BY <1>1 DEF DeleteName, Crash
<1>2. CASE DeleteRequest(g)
  <2>1. CASE InRange(order[g].idx)
    <3>1. Send(order[g]) \in OrderType
        BY <1>2, <2>1, SendFacts DEF DeleteRequest, IndexInv
    <3> QED
        BY <1>2, <2>1, <3>1 DEF DeleteRequest
  <2>2. CASE ~InRange(order[g].idx)
      BY <1>2, <2>2 DEF DeleteRequest, Crash
  <2> QED
      BY <2>1, <2>2
<1>3. CASE DeleteFile(g)
  <2>1. order[g].sent \in Made
      BY <1>3 DEF DeleteFile, StartRefresh, KnownInv
  <2>3. Made \subseteq File
      BY CreatedFacts
  <2>2. overlapped' \in BOOLEAN
      BY <1>3 DEF DeleteFile, StartRefresh
  <2> QED
      BY <1>3, <2>1, <2>2, <2>3 DEF DeleteFile, StartRefresh
<1>4. CASE DeleteFails(g)
    BY <1>4 DEF DeleteFails
<1>5. CASE DownloadEnds(g)
    BY <1>5 DEF DownloadEnds
<1> QED
    BY <1>1, <1>2, <1>3, <1>4, <1>5 DEF OrderStep

LEMMA TypeStep ==
    ASSUME TypeOK, KnownInv, IndexInv, [Next]_vars
    PROVE  TypeOK'
<1>1. CASE FileArrives
  <2>1. created' \in 0 .. MaxFiles /\ created + 1 \in File
      BY <1>1, CreatedFacts DEF FileArrives
  <2> QED
    BY <1>1, <2>1
    DEF FileArrives, TypeOK, File, screenVars, threadVars, historyVars, serverVars
<1>2. CASE UNCHANGED vars
    BY <1>2 DEF TypeOK, vars, screenVars, threadVars, historyVars, serverVars
<1> QED
    BY <1>1, <1>2, KeysKeepTypes, RefreshKeepsTypes, OrdersKeepTypes DEF Next, Stopped

-----------------------------------------------------------------------------
(* What the steps leave alone. *)

\* A goroutine that starts: to refresh, to delete, or to download.
Starts(g, to) == pc[g] = "off" /\ pc' = [pc EXCEPT ![g] = to]

\* A key starts at most one goroutine, and leaves the list and the server alone.
LEMMA KeyFacts ==
    ASSUME TypeOK, Key
    PROVE  /\ UNCHANGED <<files, got, listError, stored, created, gone>>
           /\ table' = table \/ table' = EmptyTable
           /\ \/ UNCHANGED <<pc, order, overlapped>>
              \/ \E g \in Goroutine :
                    /\ Starts(g, "loading") /\ order' = order
                    /\ overlapped' = (overlapped \/ \E h \in Goroutine : Refreshing(h))
              \/ \E g \in Goroutine :
                    /\ Starts(g, "name") /\ order' = [order EXCEPT ![g] = dialog]
                    /\ dialog.kind = "delete" /\ overlapped' = overlapped
              \/ \E g \in Goroutine :
                    /\ Starts(g, "downloading") /\ order' = [order EXCEPT ![g] = Send(dialog)]
                    /\ dialog.kind \in {"download", "password"} /\ InRange(dialog.idx)
                    /\ overlapped' = overlapped
<1> USE DEF StartRefresh, Step, Starts, screenVars, threadVars, historyVars, serverVars
<1>1. CASE Refresh
    BY <1>1 DEF Refresh
<1>2. CASE SwitchToUpload
    BY <1>2 DEF SwitchToUpload
<1>3. CASE BuildFiles
    BY <1>3 DEF BuildFiles
<1>4. CASE \E kind \in {"delete", "download"}, i \in File : Ask(kind, i)
    BY <1>4 DEF Ask
<1>5. CASE Cancel
    BY <1>5 DEF Cancel
<1>6. CASE YesDelete
    BY <1>6 DEF YesDelete
<1>7. CASE YesDownload
    BY <1>7 DEF YesDownload, StartDownload
<1>8. CASE ConfirmPassword
    BY <1>8 DEF ConfirmPassword, StartDownload
<1>9. CASE ConfirmOutOfRange
    BY <1>9 DEF ConfirmOutOfRange
<1> QED
    BY <1>1, <1>2, <1>3, <1>4, <1>5, <1>6, <1>7, <1>8, <1>9 DEF Key

\* The order of the steps of a refresh.
LEMMA RefreshFacts ==
    ASSUME TypeOK, NEW g \in Goroutine, RefreshStep(g)
    PROVE  /\ Refreshing(g)
           /\ \E to \in {"off", "fetch", "clear", "set", "sort", "fill"} : pc' = [pc EXCEPT ![g] = to]
           /\ overlapped' = overlapped /\ page' = page
           /\ UNCHANGED <<stored, created, gone>>
<1> USE DEF Step, Refreshing, screenVars, threadVars, historyVars, serverVars
<1> QED
    BY DEF RefreshStep, Loading, GetFilesList, ClearFiles, SetFiles, SortFiles, FillTable

\* A step of a deletion or the end of a download leaves the page, the list and
\* the other goroutines alone.
LEMMA OrderFacts ==
    ASSUME TypeOK, NEW g \in Goroutine, OrderStep(g)
    PROVE  /\ UNCHANGED <<screenVars, files, dialog, got, listError, created>>
           /\ \A h \in Goroutine \ {g} : pc'[h] = pc[h] /\ order'[h] = order[h]
           /\ stored' \subseteq stored
           /\ \/ DeleteFile(g)
              \/ gone' = gone /\ overlapped' = overlapped
<1> USE DEF Step, StartRefresh, screenVars, threadVars, historyVars, serverVars
<1>1. CASE DeleteName(g)
    BY <1>1 DEF DeleteName, TypeOK
<1>2. CASE DeleteRequest(g)
    BY <1>2 DEF DeleteRequest, TypeOK
<1>3. CASE DeleteFile(g)
    BY <1>3 DEF DeleteFile, TypeOK
<1>4. CASE DeleteFails(g)
    BY <1>4 DEF DeleteFails, TypeOK
<1>5. CASE DownloadEnds(g)
    BY <1>5 DEF DownloadEnds, TypeOK
<1> QED
    BY <1>1, <1>2, <1>3, <1>4, <1>5 DEF OrderStep

\* Overlapping is remembered.
LEMMA OverlapStays ==
    ASSUME TypeOK, [Next]_vars
    PROVE  overlapped => overlapped'
<1>1. CASE Key
    BY <1>1, KeyFacts
<1>2. ASSUME NEW g \in Goroutine, RefreshStep(g) PROVE overlapped => overlapped'
    BY <1>2, RefreshFacts
<1>3. ASSUME NEW g \in Goroutine, OrderStep(g) PROVE overlapped => overlapped'
    BY <1>3, OrderFacts DEF DeleteFile, StartRefresh
<1> QED
    BY <1>1, <1>2, <1>3 DEF Next, Stopped, FileArrives, vars, historyVars

-----------------------------------------------------------------------------
(* Files that exist, and indices of rows. *)

LEMMA KnownStep ==
    ASSUME TypeOK, KnownInv, IndexInv, [Next]_vars
    PROVE  KnownInv'
<1>1. CASE Key
  <2>1. \A g \in Goroutine : pc'[g] = "deleting" => pc[g] = "deleting" /\ order'[g] = order[g]
      BY <1>1, KeyFacts DEF Starts, TypeOK
  <2> QED
      BY <1>1, <2>1, KeyFacts DEF KnownInv, Made
<1>2. ASSUME NEW g \in Goroutine, RefreshStep(g) PROVE KnownInv'
  <2> USE <1>2
  <2>1. /\ UNCHANGED <<stored, created, gone>> /\ Made' = Made
        /\ \A h \in Goroutine : pc'[h] = "deleting" => pc[h] = "deleting"
      BY RefreshFacts DEF TypeOK, Made
  <2>2. /\ \A i \in DOMAIN files' : files'[i] \in Made \cup {Blank}
        /\ \A h \in Goroutine : order'[h].sent = order[h].sent
    <3> USE DEF RefreshStep
    <3>1. CASE Loading(g) \/ GetFilesList(g) \/ FillTable(g)
        BY <3>1 DEF Loading, GetFilesList, FillTable, KnownInv
    <3>2. CASE ClearFiles(g)
        BY <3>2 DEF ClearFiles, WriteFiles, Moved, TypeOK, OrderType
    <3>3. CASE SetFiles(g)
        BY <3>3 DEF SetFiles, WriteFiles, Moved, TypeOK, OrderType, KnownInv
    <3>4. CASE SortFiles(g)
      <4>1. PICK list \in Torn \cup Sorted(files) : WriteFiles(list)
          BY <3>4 DEF SortFiles
      <4>2. \A i \in DOMAIN list : list[i] = Blank \/ \E j \in DOMAIN files : list[i] = files[j]
        <5>1. CASE list \in Torn
            BY <5>1, TornFacts
        <5>2. CASE list \in Sorted(files)
          <6>1. files \in Seq(Entry)
              BY DEF TypeOK
          <6> QED
              BY <5>2, <6>1, SortedFacts
        <5> QED
            BY <5>1, <5>2
      <4> QED
          BY <4>1, <4>2 DEF WriteFiles, Moved, TypeOK, OrderType, KnownInv
    <3> QED
        BY <3>1, <3>2, <3>3, <3>4
  <2>3. \A h \in Goroutine :
            Len(got'[h]) <= MaxFiles /\ \A i \in DOMAIN got'[h] : got'[h][i] \in Made
    <3> USE DEF RefreshStep
    <3>1. CASE GetFilesList(g)
      <4>1. \A s \in Listings : Len(s) <= MaxFiles /\ \A i \in DOMAIN s : s[i] \in Made
          BY ListingFacts, ElementOfSeq, LenProperties DEF KnownInv
      <4> QED
          BY <3>1, <4>1 DEF GetFilesList, KnownInv, TypeOK
    <3>2. CASE SetFiles(g)
      <4>1. got' = [got EXCEPT ![g] = <<>>]
          BY <3>2 DEF SetFiles
      <4>2. got'[g] = <<>> /\ \A h \in Goroutine \ {g} : got'[h] = got[h]
          BY <4>1 DEF TypeOK
      <4>3. Len(got'[g]) = 0 /\ DOMAIN got'[g] = {} /\ MaxFiles \in Nat
          BY <4>2, FilesPageAssumption
      <4> QED
          BY <4>2, <4>3 DEF KnownInv
    <3>3. CASE ~GetFilesList(g) /\ ~SetFiles(g)
        BY <3>3 DEF Loading, ClearFiles, SortFiles, FillTable, KnownInv
    <3> QED
        BY <3>1, <3>2, <3>3
  <2> QED
      BY <2>1, <2>2, <2>3 DEF KnownInv
<1>3. ASSUME NEW g \in Goroutine, OrderStep(g) PROVE KnownInv'
  <2>1. UNCHANGED <<files, got, created>> /\ stored' \subseteq stored
      BY <1>3, OrderFacts
  <2>2. gone' \subseteq Made /\ stored' \cap gone' = {}
    <3>1. CASE DeleteFile(g)
        BY <3>1 DEF DeleteFile, StartRefresh, Step, KnownInv
    <3>2. CASE gone' = gone
        BY <2>1, <3>2 DEF KnownInv
    <3> QED
        BY <1>3, <3>1, <3>2, OrderFacts
  <2>3. pc'[g] = "deleting" => order'[g].sent \in Made \cup {Blank}
    <3>1. CASE DeleteRequest(g)
      <4>1. pc'[g] = "deleting" => InRange(order[g].idx) /\ order'[g].sent = files[order[g].idx]
          BY <3>1 DEF DeleteRequest, Crash, Send, TypeOK, OrderType
      <4>2. pc[g] = "request" => order[g].idx \in File
          BY DEF IndexInv
      <4>3. pc[g] = "request"
          BY <3>1 DEF DeleteRequest
      <4> QED
          BY <4>1, <4>2, <4>3, EntryFacts DEF KnownInv
    <3>2. CASE ~DeleteRequest(g)
        BY <1>3, <3>2 DEF OrderStep, DeleteName, DeleteFile, DeleteFails, DownloadEnds, Step, StartRefresh, TypeOK
    <3> QED
        BY <3>1, <3>2
  <2>4. \A h \in Goroutine \ {g} : pc'[h] = "deleting" => order'[h].sent \in Made \cup {Blank}
      BY <1>3, OrderFacts DEF KnownInv
  <2> QED
      BY <2>1, <2>2, <2>3, <2>4 DEF KnownInv, Made
<1>4. CASE FileArrives
  <2>1. Made' = Made \cup {created + 1} /\ created + 1 \notin Made
      BY <1>4, CreatedFacts DEF FileArrives, Made
  <2> QED
      BY <1>4, <2>1 DEF FileArrives, KnownInv, threadVars
<1>5. CASE UNCHANGED vars
    BY <1>5 DEF vars, threadVars, serverVars, KnownInv, Made
<1> QED
    BY <1>1, <1>2, <1>3, <1>4, <1>5 DEF Next, Stopped

LEMMA IndexStep ==
    ASSUME TypeOK, IndexInv, [Next]_vars
    PROVE  IndexInv'
<1>1. CASE Key
  <2>1. /\ dialog'.kind = "none" <=> dialog' = NoOrder
        /\ dialog'.kind # "none" => dialog'.idx \in File
    <3>0. NoOrder.kind = "none"
        BY DEF NoOrder
    <3>1. CASE \E kind \in {"delete", "download"}, i \in File : Ask(kind, i)
      <4>1. PICK kind \in {"delete", "download"}, i \in File : Ask(kind, i)
          BY <3>1
      <4>2. CASE dialog' = dialog
          BY <4>2 DEF IndexInv
      <4>3. CASE dialog' = [kind |-> kind, idx |-> i, row |-> table[i], asked |-> files[i],
                            sent |-> Nothing]
        <5>1. dialog'.kind = kind /\ dialog'.idx = i /\ kind # "none"
            BY <4>3
        <5> QED
            BY <3>0, <5>1
      <4> QED
          BY <4>1, <4>2, <4>3 DEF Ask
    <3>2. CASE YesDownload
      <4>1. dialog.kind = "download" /\ dialog.idx \in File
          BY <3>2 DEF YesDownload, IndexInv
      <4>2. \/ dialog' = NoOrder
            \/ dialog' = [dialog EXCEPT !.kind = "password", !.asked = files[dialog.idx]]
          BY <3>2 DEF YesDownload, StartDownload
      <4>3. dialog' # NoOrder => dialog'.kind = "password" /\ dialog'.idx = dialog.idx
          BY <4>2 DEF TypeOK, OrderType
      <4> QED
          BY <3>0, <4>1, <4>3
    <3>3. CASE dialog' = NoOrder \/ dialog' = dialog
        BY <3>0, <3>3 DEF IndexInv
    <3> QED
        BY <1>1, <3>1, <3>2, <3>3
        DEF Key, Refresh, SwitchToUpload, BuildFiles, Cancel, YesDelete, ConfirmPassword, StartDownload,
            ConfirmOutOfRange
  <2>2. \A g \in Goroutine : pc'[g] \in {"name", "request"} => order'[g].idx \in File
    <3>1. dialog.kind = "delete" => dialog.idx \in File
        BY DEF IndexInv
    <3> QED
        BY <1>1, <3>1, KeyFacts DEF Starts, IndexInv, TypeOK
  <2> QED
      BY <2>1, <2>2 DEF IndexInv
<1>2. ASSUME NEW g \in Goroutine, RefreshStep(g) PROVE IndexInv'
  <2>1. \A h \in Goroutine : pc'[h] \in {"name", "request"} => pc'[h] = pc[h]
      BY <1>2, RefreshFacts DEF TypeOK
  <2>2. CASE UNCHANGED <<dialog, order>>
      BY <2>1, <2>2 DEF IndexInv
  <2>3. CASE \E list : WriteFiles(list)
    <3>1. dialog' = Moved(dialog) /\ \A h \in Goroutine : order'[h] = Moved(order[h])
        BY <2>3 DEF WriteFiles
    <3>2. Moved(NoOrder) = NoOrder
        BY DEF Moved, NoOrder
    <3>3. /\ Moved(dialog).kind = dialog.kind /\ Moved(dialog).idx = dialog.idx
          /\ \A h \in Goroutine : Moved(order[h]).idx = order[h].idx
        BY DEF Moved, TypeOK, OrderType
    <3>4. NoOrder.kind = "none"
        BY DEF NoOrder
    <3> QED
        BY <2>1, <3>1, <3>2, <3>3, <3>4 DEF IndexInv
  <2> QED
      BY <1>2, <2>2, <2>3
      DEF RefreshStep, Loading, GetFilesList, ClearFiles, SetFiles, SortFiles, FillTable
<1>3. ASSUME NEW g \in Goroutine, OrderStep(g) PROVE IndexInv'
  <2>1. dialog' = dialog /\ \A h \in Goroutine \ {g} : pc'[h] = pc[h] /\ order'[h] = order[h]
      BY <1>3, OrderFacts
  <2>2. pc'[g] \in {"name", "request"} =>
            pc[g] \in {"name", "request"} /\ order'[g] = order[g]
      BY <1>3 DEF OrderStep, DeleteName, DeleteRequest, DeleteFile, DeleteFails, DownloadEnds, Step,
                  StartRefresh, Crash, TypeOK
  <2> QED
      BY <2>1, <2>2 DEF IndexInv
<1> QED
    BY <1>1, <1>2, <1>3 DEF Next, Stopped, FileArrives, vars, threadVars, IndexInv

-----------------------------------------------------------------------------
(* One refresh at a time, and the rows. *)

LEMMA OneRefreshStep ==
    ASSUME TypeOK, OneRefresh, [Next]_vars
    PROVE  OneRefresh'
<1> SUFFICES ASSUME ~overlapped' PROVE OneRefresh'
    BY DEF OneRefresh
<1>0. ~overlapped /\ \A g, h \in Goroutine : Refreshing(g) /\ Refreshing(h) => g = h
    BY OverlapStays DEF OneRefresh
<1> USE <1>0 DEF OneRefresh, Refreshing
<1>1. CASE Key
  <2>1. CASE \E g \in Goroutine :
                Starts(g, "loading") /\ ~(overlapped \/ \E h \in Goroutine : Refreshing(h))
      BY <2>1 DEF Starts, TypeOK
  <2>2. CASE \A g \in Goroutine : Refreshing(g)' => Refreshing(g)
      BY <2>2
  <2> QED
      BY <1>1, <2>1, <2>2, KeyFacts DEF Starts, TypeOK
<1>2. ASSUME NEW g \in Goroutine, RefreshStep(g) PROVE OneRefresh'
    BY <1>2, RefreshFacts DEF TypeOK
<1>3. ASSUME NEW g \in Goroutine, OrderStep(g) PROVE OneRefresh'
  <2>1. \A h \in Goroutine \ {g} : pc'[h] = pc[h]
      BY <1>3, OrderFacts
  <2>2. CASE DeleteFile(g)
      BY <2>1, <2>2 DEF DeleteFile, StartRefresh
  <2>3. CASE ~DeleteFile(g)
    <3>1. ~Refreshing(g)'
        BY <1>3, <2>3 DEF OrderStep, DeleteName, DeleteRequest, DeleteFails, DownloadEnds, Step, TypeOK
    <3> QED
        BY <2>1, <3>1
  <2> QED
      BY <2>2, <2>3
<1> QED
    BY <1>1, <1>2, <1>3 DEF Next, Stopped, FileArrives, vars, threadVars

LEMMA RowsStep ==
    ASSUME TypeOK, OneRefresh, RowsInv, RowsAreTheList, [Next]_vars
    PROVE  RowsInv' /\ RowsAreTheList'
<1> SUFFICES ASSUME ~overlapped' PROVE RowsInv' /\ RowsAreTheList'
    BY DEF RowsInv, RowsAreTheList
<1>0. /\ ~overlapped /\ \A g, h \in Goroutine : Refreshing(g) /\ Refreshing(h) => g = h
      /\ \A g \in Goroutine : pc[g] \in {"fetch", "clear", "set", "sort", "fill"} => table = EmptyTable
      /\ \A i \in File : table[i] # Nothing => InRange(i) /\ table[i] = files[i]
    BY OverlapStays DEF OneRefresh, RowsInv, RowsAreTheList
<1>e. \A i \in File : EmptyTable[i] = Nothing
    BY DEF EmptyTable
<1> USE <1>0
<1>1. CASE Key
  <2>1. files' = files /\ (table' = table \/ table' = EmptyTable)
      BY <1>1, KeyFacts
  <2>2. RowsAreTheList'
      BY <1>e, <2>1 DEF RowsAreTheList, InRange
  <2>3. \A g \in Goroutine : pc'[g] \in {"fetch", "clear", "set", "sort", "fill"} => pc[g] = pc'[g]
      BY <1>1, KeyFacts DEF Starts, TypeOK
  <2> QED
      BY <2>1, <2>2, <2>3 DEF RowsInv
<1>2. ASSUME NEW g \in Goroutine, RefreshStep(g) PROVE RowsInv' /\ RowsAreTheList'
  <2>1. \A h \in Goroutine : Refreshing(h) => h = g
      BY <1>2, RefreshFacts
  <2>2. \A h \in Goroutine \ {g} : pc'[h] = pc[h] /\ ~Refreshing(h)
      BY <1>2, <2>1, RefreshFacts DEF TypeOK
  <2>3. CASE Loading(g)
      BY <1>e, <2>2, <2>3 DEF Loading, Step, RowsInv, RowsAreTheList, Refreshing
  <2>4. CASE GetFilesList(g) \/ ClearFiles(g) \/ SetFiles(g) \/ SortFiles(g)
    <3>1. table = EmptyTable /\ table' = table
        BY <2>4 DEF GetFilesList, ClearFiles, SetFiles, SortFiles, Step, screenVars
    <3> QED
        BY <1>e, <3>1 DEF RowsInv, RowsAreTheList
  <2>5. CASE FillTable(g)
    <3>1. ~RacesWith(g, {"clear", "sort"})
        BY <2>1 DEF RacesWith, Refreshing
    <3>2. /\ files' = files /\ pc' = [pc EXCEPT ![g] = "off"] /\ table = EmptyTable
          /\ table' = [i \in File |-> IF i <= Len(files) THEN files[i]
                                      ELSE IF i = Len(files) + 2 THEN Nothing ELSE table[i]]
        BY <2>5, <3>1 DEF FillTable, Step
    <3>3. \A h \in Goroutine : ~Refreshing(h)'
        BY <2>2, <3>2 DEF Refreshing, TypeOK
    <3>4. RowsAreTheList'
        BY <1>e, <3>2 DEF RowsAreTheList, InRange
    <3> QED
        BY <3>3, <3>4 DEF RowsInv, Refreshing
  <2> QED
      BY <1>2, <2>3, <2>4, <2>5 DEF RefreshStep
<1>3. ASSUME NEW g \in Goroutine, OrderStep(g) PROVE RowsInv' /\ RowsAreTheList'
  <2>1. table' = table /\ files' = files /\ \A h \in Goroutine \ {g} : pc'[h] = pc[h]
      BY <1>3, OrderFacts DEF screenVars
  <2>2. pc'[g] \notin {"fetch", "clear", "set", "sort", "fill"}
      BY <1>3 DEF OrderStep, DeleteName, DeleteRequest, DeleteFile, DeleteFails, DownloadEnds, Step,
                  StartRefresh, TypeOK
  <2> QED
      BY <2>1, <2>2 DEF RowsInv, RowsAreTheList, InRange
<1> QED
    BY <1>1, <1>2, <1>3
    DEF Next, Stopped, FileArrives, vars, threadVars, screenVars, RowsInv, RowsAreTheList, InRange

-----------------------------------------------------------------------------
(* What the user pointed at. *)

\* What is sent for an order whose index still stands is what was meant.
LEMMA SendIsMeant ==
    ASSUME TypeOK, NEW o \in OrderType, o.idx \in File, InRange(o.idx), Stands(o)
    PROVE  Send(o).row = Nothing \/ {Send(o).row, Send(o).asked} = {Send(o).sent}
    BY SendFacts DEF Stands

LEMMA MeantStep ==
    ASSUME TypeOK, IndexInv, RowsAreTheList, MeantInv, UndisturbedIsMeant, [Next]_vars
    PROVE  MeantInv' /\ UndisturbedIsMeant'
<1> SUFFICES ASSUME ~overlapped' PROVE MeantInv' /\ UndisturbedIsMeant'
    BY DEF MeantInv, UndisturbedIsMeant
<1> DEFINE Asked(o) == o.row = Nothing \/ {o.row, o.asked} = {o.sent}
<1>0. /\ ~overlapped
      /\ \A i \in File : table[i] # Nothing => InRange(i) /\ table[i] = files[i]
      /\ dialog.kind # "none" => dialog.idx \in File /\ Stands(dialog)
      /\ \A g \in Goroutine : pc[g] \in {"name", "request"} => order[g].idx \in File /\ Stands(order[g])
      /\ \A g \in Goroutine : pc[g] \in {"deleting", "downloading"} => Asked(order[g])
    BY OverlapStays DEF RowsAreTheList, IndexInv, MeantInv, UndisturbedIsMeant
<1>g. ASSUME /\ dialog'.kind # "none" => Stands(dialog)'
             /\ \A g \in Goroutine : pc'[g] \in {"name", "request"} => Stands(order[g])'
             /\ \A g \in Goroutine : pc'[g] \in {"deleting", "downloading"} => Asked(order'[g])
      PROVE  MeantInv' /\ UndisturbedIsMeant'
    BY <1>g DEF MeantInv, UndisturbedIsMeant
<1> HIDE DEF Asked
<1>1. CASE Key
  <2>1. files' = files
      BY <1>1, KeyFacts
  <2>2. dialog'.kind # "none" => Stands(dialog)'
    <3>1. CASE \E kind \in {"delete", "download"}, i \in File : Ask(kind, i)
      <4>1. PICK kind \in {"delete", "download"}, i \in File : Ask(kind, i)
          BY <3>1
      <4>2. CASE dialog' = dialog
          BY <1>0, <2>1, <4>2 DEF Stands, InRange
      <4>3. CASE dialog' = [kind |-> kind, idx |-> i, row |-> table[i], asked |-> files[i],
                            sent |-> Nothing]
        <5>1. InRange(i) /\ table[i] = files[i]
            BY <1>0, <4>1 DEF Ask
        <5>2. dialog'.idx = i /\ dialog'.row = table[i] /\ dialog'.asked = files[i]
            BY <4>3
        <5> QED
            BY <2>1, <5>1, <5>2 DEF Stands, InRange
      <4> QED
          BY <4>1, <4>2, <4>3 DEF Ask
    <3>2. CASE YesDownload
      <4>1. \/ dialog' = NoOrder
            \/ dialog' = [dialog EXCEPT !.kind = "password", !.asked = files[dialog.idx]]
          BY <3>2 DEF YesDownload, StartDownload
      <4>2. CASE dialog' = NoOrder
          BY <4>2 DEF NoOrder
      <4>3. CASE dialog' # NoOrder
        <5>1. /\ dialog'.idx = dialog.idx /\ dialog'.row = dialog.row
              /\ dialog'.asked = files[dialog.idx]
            BY <4>1, <4>3 DEF TypeOK, OrderType
        <5>2. dialog.kind # "none"
            BY <3>2 DEF YesDownload
        <5> QED
            BY <1>0, <2>1, <5>1, <5>2 DEF Stands, InRange
      <4> QED
          BY <4>2, <4>3
    <3>3. CASE dialog' = NoOrder \/ dialog' = dialog
        BY <1>0, <2>1, <3>3 DEF NoOrder, Stands, InRange
    <3> QED
        BY <1>1, <3>1, <3>2, <3>3
        DEF Key, Refresh, SwitchToUpload, BuildFiles, Cancel, YesDelete, ConfirmPassword, StartDownload,
            ConfirmOutOfRange
  <2>3. \A g \in Goroutine : Stands(order[g]) => (order'[g] = order[g] => Stands(order[g])')
      BY <2>1 DEF Stands, InRange
  <2>4. \A g \in Goroutine : Stands(dialog) => (order'[g] = dialog => Stands(order[g])')
      BY <2>1 DEF Stands, InRange
  <2>5. dialog.kind \in {"download", "password"} /\ InRange(dialog.idx) => Asked(Send(dialog))
    <3>1. dialog \in OrderType
        BY DEF TypeOK
    <3> QED
        BY <1>0, <3>1, SendIsMeant DEF Asked
  <2>6. \/ UNCHANGED <<pc, order>>
        \/ \E g \in Goroutine :
            /\ \A h \in Goroutine \ {g} : pc'[h] = pc[h] /\ order'[h] = order[h]
            /\ \/ pc'[g] = "loading"
               \/ pc'[g] = "name" /\ order'[g] = dialog /\ dialog.kind = "delete"
               \/ /\ pc'[g] = "downloading" /\ order'[g] = Send(dialog)
                  /\ dialog.kind \in {"download", "password"} /\ InRange(dialog.idx)
      BY <1>1, KeyFacts DEF Starts, TypeOK
  <2>7. \A g \in Goroutine : pc'[g] \in {"name", "request"} => Stands(order[g])'
      BY <1>0, <2>3, <2>4, <2>6
  <2>8. \A g \in Goroutine : pc'[g] \in {"deleting", "downloading"} => Asked(order'[g])
      BY <1>0, <2>5, <2>6
  <2> QED
      BY <1>g, <2>2, <2>7, <2>8
<1>2. ASSUME NEW g \in Goroutine, RefreshStep(g) PROVE MeantInv' /\ UndisturbedIsMeant'
  <2>1. \A h \in Goroutine : pc'[h] = pc[h] \/ pc'[h] \notin {"name", "request", "deleting", "downloading"}
      BY <1>2, RefreshFacts DEF TypeOK
  <2>2. CASE UNCHANGED <<files, dialog, order>>
    <3>1. \A h \in Goroutine : order'[h] = order[h]
        BY <2>2
    <3> QED
      BY <1>0, <1>g, <2>1, <2>2, <3>1 DEF Stands, InRange
  <2>3. CASE \E list : WriteFiles(list)
    <3>1. dialog' = Moved(dialog) /\ \A h \in Goroutine : order'[h] = Moved(order[h])
        BY <2>3 DEF WriteFiles
    <3>2. dialog'.row = Nothing /\ \A h \in Goroutine : order'[h].row = Nothing
        BY <3>1 DEF Moved, TypeOK, OrderType
    <3> QED
        BY <1>g, <3>2 DEF Stands, Asked
  <2> QED
      BY <1>2, <2>2, <2>3
      DEF RefreshStep, Loading, GetFilesList, ClearFiles, SetFiles, SortFiles, FillTable
<1>3. ASSUME NEW g \in Goroutine, OrderStep(g) PROVE MeantInv' /\ UndisturbedIsMeant'
  <2>1. /\ files' = files /\ dialog' = dialog
        /\ \A h \in Goroutine \ {g} : pc'[h] = pc[h] /\ order'[h] = order[h]
      BY <1>3, OrderFacts
  <2>2. /\ dialog'.kind # "none" => Stands(dialog)'
        /\ \A h \in Goroutine \ {g} : pc'[h] \in {"name", "request"} => Stands(order[h])'
        /\ \A h \in Goroutine \ {g} : pc'[h] \in {"deleting", "downloading"} => Asked(order'[h])
      BY <1>0, <2>1 DEF Stands, InRange
  <2>3. /\ pc'[g] \in {"name", "request"} => Stands(order[g])'
        /\ pc'[g] \in {"deleting", "downloading"} => Asked(order'[g])
    <3>1. CASE DeleteName(g)
      <4>1. order' = order /\ pc[g] = "name" /\ pc'[g] \in {"name", "request"}
          BY <3>1 DEF DeleteName, Step, TypeOK
      <4> QED
          BY <1>0, <2>1, <4>1 DEF Stands, InRange
    <3>2. CASE DeleteRequest(g)
      <4>1. pc[g] = "request"
          BY <3>2 DEF DeleteRequest
      <4>2. CASE InRange(order[g].idx)
        <5>1. pc'[g] = "deleting" /\ order'[g] = Send(order[g]) /\ order[g] \in OrderType
            BY <3>2, <4>2 DEF DeleteRequest, Step, TypeOK
        <5> QED
            BY <1>0, <4>1, <4>2, <5>1, SendIsMeant DEF Asked
      <4>3. CASE ~InRange(order[g].idx)
        <5>1. pc' = pc /\ order' = order
            BY <3>2, <4>3 DEF DeleteRequest
        <5> QED
            BY <1>0, <2>1, <4>1, <5>1 DEF Stands, InRange
      <4> QED
          BY <4>2, <4>3
    <3>3. CASE DeleteFile(g) \/ DeleteFails(g) \/ DownloadEnds(g)
        BY <3>3 DEF DeleteFile, DeleteFails, DownloadEnds, Step, StartRefresh, TypeOK
    <3> QED
        BY <1>3, <3>1, <3>2, <3>3 DEF OrderStep
  <2> QED
      BY <1>g, <2>2, <2>3
<1>4. CASE FileArrives \/ UNCHANGED vars
  <2>1. files' = files /\ dialog' = dialog /\ pc' = pc /\ order' = order
      BY <1>4 DEF FileArrives, vars, threadVars
  <2> QED
      BY <1>0, <1>g, <2>1 DEF Stands, InRange
<1> QED
    BY <1>1, <1>2, <1>3, <1>4 DEF Next, Stopped

-----------------------------------------------------------------------------
(* Deleted files, and the title. *)

LEMMA CleanStep ==
    ASSUME TypeOK, KnownInv, OneRefresh, CleanInv, [Next]_vars
    PROVE  CleanInv'
<1> SUFFICES ASSUME ~overlapped' PROVE CleanInv'
    BY DEF CleanInv
<1> DEFINE CleanGot(g) == \A i \in DOMAIN got[g] : got[g][i] \notin gone
           CleanFiles  == \A i \in DOMAIN files : files[i] \notin gone
           Before      == {"loading", "fetch", "clear", "set"}
<1>0. /\ ~overlapped
      /\ \A g, h \in Goroutine : Refreshing(g) /\ Refreshing(h) => g = h
      /\ \A g \in Goroutine : pc[g] \in {"clear", "set"} => CleanGot(g)
      /\ ~listError /\ (\A g \in Goroutine : pc[g] \notin Before) => CleanFiles
    BY OverlapStays DEF OneRefresh, CleanInv
<1>g. ASSUME \A g \in Goroutine : pc'[g] \in {"clear", "set"} => CleanGot(g)',
             ~listError' /\ (\A g \in Goroutine : pc'[g] \notin Before) => CleanFiles'
      PROVE  CleanInv'
    BY <1>g DEF CleanInv
<1>s. ASSUME UNCHANGED <<files, got, listError, gone>>,
             \A g \in Goroutine : pc[g] \in Before \/ pc'[g] \in Before => pc'[g] = pc[g]
      PROVE  CleanInv'
  <2>1. \A g \in Goroutine : pc'[g] \in {"clear", "set"} => CleanGot(g)'
      BY <1>0, <1>s
  <2>2. ~listError' /\ (\A g \in Goroutine : pc'[g] \notin Before) => CleanFiles'
      BY <1>0, <1>s
  <2> QED
      BY <1>g, <2>1, <2>2
<1>l. ASSUME NEW g \in Goroutine, pc'[g] = "loading", UNCHANGED got,
             \A h \in Goroutine \ {g} : pc'[h] = pc[h] /\ (gone' = gone \/ ~Refreshing(h))
      PROVE  CleanInv'
  <2>1. \A h \in Goroutine : pc'[h] \in {"clear", "set"} => CleanGot(h)'
      BY <1>0, <1>l DEF Refreshing
  <2>2. \E h \in Goroutine : pc'[h] \in Before
      BY <1>l
  <2> QED
      BY <1>g, <2>1, <2>2
<1> HIDE DEF CleanGot, CleanFiles
<1>1. CASE Key
  <2>1. UNCHANGED <<files, got, listError, gone>>
      BY <1>1, KeyFacts
  <2>2. CASE \E g \in Goroutine : Starts(g, "loading")
      BY <1>l, <2>1, <2>2 DEF Starts, TypeOK
  <2>3. CASE ~\E g \in Goroutine : Starts(g, "loading")
    <3>1. \A g \in Goroutine : pc[g] \in Before \/ pc'[g] \in Before => pc'[g] = pc[g]
        BY <1>1, <2>3, KeyFacts DEF Starts, TypeOK
    <3> QED
        BY <1>s, <2>1, <3>1
  <2> QED
      BY <2>2, <2>3
<1>2. ASSUME NEW g \in Goroutine, RefreshStep(g) PROVE CleanInv'
  <2>1. /\ Refreshing(g) /\ gone' = gone
        /\ \A h \in Goroutine \ {g} : pc'[h] = pc[h] /\ ~Refreshing(h)
      BY <1>0, <1>2, RefreshFacts DEF TypeOK
  <2>2. \A h \in Goroutine \ {g} : pc'[h] \notin Before
      BY <2>1 DEF Refreshing
  <2>3. CASE Loading(g)
      BY <1>g, <2>2, <2>3 DEF Loading, Step, TypeOK
  <2>4. CASE GetFilesList(g)
    <3>1. CASE pc'[g] = "clear"
      <4>1. PICK s \in Listings : got' = [got EXCEPT ![g] = s]
          BY <2>4, <3>1 DEF GetFilesList, Step, TypeOK
      <4>2. \A i \in DOMAIN s : s[i] \in stored
          BY ListingFacts, ElementOfSeq, LenProperties
      <4>3. CleanGot(g)'
          BY <2>1, <4>1, <4>2 DEF CleanGot, KnownInv, TypeOK
      <4> QED
          BY <1>g, <2>2, <3>1, <4>3
    <3>2. CASE pc'[g] # "clear"
      <4>1. listError' = TRUE /\ pc'[g] = "sort"
          BY <2>4, <3>2 DEF GetFilesList, Step, TypeOK
      <4> QED
          BY <1>g, <2>2, <4>1
    <3> QED
        BY <3>1, <3>2
  <2>5. CASE ClearFiles(g)
    <3>1. pc[g] = "clear" /\ pc'[g] = "set" /\ got' = got
        BY <2>5 DEF ClearFiles, Step, TypeOK
    <3>2. CleanGot(g)'
        BY <1>0, <2>1, <3>1 DEF CleanGot
    <3> QED
        BY <1>g, <2>2, <3>1, <3>2
  <2>6. CASE SetFiles(g)
    <3>1. pc[g] = "set" /\ pc'[g] = "sort" /\ files' = got[g]
        BY <2>6 DEF SetFiles, WriteFiles, Step, TypeOK
    <3>2. CleanFiles'
        BY <1>0, <2>1, <3>1 DEF CleanGot, CleanFiles
    <3> QED
        BY <1>g, <2>2, <3>1, <3>2
  <2>7. CASE SortFiles(g)
    <3>1. pc[g] = "sort" /\ pc'[g] = "fill" /\ listError' = listError
        BY <2>7 DEF SortFiles, Step, historyVars, TypeOK
    <3>2. ~RacesWith(g, {"clear", "sort"})
        BY <2>1 DEF RacesWith, Refreshing
    <3>3. files' \in Sorted(files) /\ files \in Seq(Entry)
        BY <2>7, <3>2 DEF SortFiles, WriteFiles, TypeOK
    <3>4. \A i \in DOMAIN files' : \E j \in DOMAIN files : files'[i] = files[j]
        BY <3>3, SortedFacts
    <3>5. \A h \in Goroutine : pc[h] \notin Before
        BY <2>1, <3>1 DEF Refreshing
    <3>6. ~listError' => CleanFiles'
        BY <1>0, <2>1, <3>1, <3>4, <3>5 DEF CleanFiles
    <3> QED
        BY <1>g, <2>2, <3>1, <3>6
  <2>8. CASE FillTable(g)
    <3>1. pc[g] = "fill" /\ pc'[g] = "off" /\ UNCHANGED <<files, got, listError>>
        BY <2>8 DEF FillTable, Step, historyVars, TypeOK
    <3> QED
        BY <1>s, <2>1, <3>1
  <2> QED
      BY <1>2, <2>3, <2>4, <2>5, <2>6, <2>7, <2>8 DEF RefreshStep
<1>3. ASSUME NEW g \in Goroutine, OrderStep(g) PROVE CleanInv'
  <2>1. UNCHANGED <<files, got, listError>> /\ \A h \in Goroutine \ {g} : pc'[h] = pc[h]
      BY <1>3, OrderFacts
  <2>2. CASE DeleteFile(g)
    <3>1. pc'[g] = "loading" /\ \A h \in Goroutine : ~Refreshing(h)
        BY <2>2 DEF DeleteFile, StartRefresh, Step, TypeOK
    <3> QED
        BY <1>l, <2>1, <3>1
  <2>3. CASE ~DeleteFile(g)
    <3>1. gone' = gone
        BY <1>3, <2>3, OrderFacts
    <3>2. pc[g] \notin Before /\ pc'[g] \notin Before
        BY <1>3, <2>3 DEF OrderStep, DeleteName, DeleteRequest, DeleteFails, DownloadEnds, Step, TypeOK
    <3> QED
        BY <1>s, <2>1, <3>1, <3>2
  <2> QED
      BY <2>2, <2>3
<1>4. CASE FileArrives \/ UNCHANGED vars
  <2>1. UNCHANGED <<files, got, listError, gone, pc>>
      BY <1>4 DEF FileArrives, vars, threadVars, historyVars, serverVars
  <2> QED
      BY <1>s, <2>1
<1> QED
    BY <1>1, <1>2, <1>3, <1>4 DEF Next, Stopped

LEMMA TitleStep ==
    ASSUME TypeOK, TitleInv, [Next]_vars
    PROVE  TitleInv'
<1> USE DEF TitleInv
<1>1. CASE Key
  <2>1. CASE page' = "upload" \/ \E g \in Goroutine : pc'[g] = "loading"
      BY <2>1 DEF Refreshing
  <2>2. CASE UNCHANGED <<page, title>>
    <3>1. \A g \in Goroutine : Refreshing(g) => Refreshing(g)'
        BY <1>1, KeyFacts DEF Starts, Refreshing, TypeOK
    <3> QED
        BY <2>2, <3>1
  <2> QED
      BY <1>1, <2>1, <2>2
      DEF Key, Refresh, SwitchToUpload, BuildFiles, Ask, Cancel, YesDelete, YesDownload, ConfirmPassword,
          ConfirmOutOfRange, StartRefresh, Step, screenVars, TypeOK
<1>2. ASSUME NEW g \in Goroutine, RefreshStep(g) PROVE TitleInv'
  <2>1. CASE FillTable(g)
      BY <2>1 DEF FillTable
  <2>2. CASE ~FillTable(g)
      BY <1>2, <2>2
      DEF RefreshStep, Loading, GetFilesList, ClearFiles, SetFiles, SortFiles, Step, Refreshing, TypeOK
  <2> QED
      BY <2>1, <2>2
<1>3. ASSUME NEW g \in Goroutine, OrderStep(g) PROVE TitleInv'
  <2>1. /\ page' = page /\ title' = title /\ ~Refreshing(g)
        /\ \A h \in Goroutine \ {g} : pc'[h] = pc[h]
      BY <1>3, OrderFacts
      DEF screenVars, OrderStep, DeleteName, DeleteRequest, DeleteFile, DeleteFails, DownloadEnds, Step,
          StartRefresh, Refreshing
  <2> QED
      BY <2>1 DEF Refreshing
<1> QED
    BY <1>1, <1>2, <1>3 DEF Next, Stopped, FileArrives, vars, threadVars, screenVars, Refreshing

-----------------------------------------------------------------------------
(* The theorems. *)

LEMMA InitIInv == Init => IInv
<1> SUFFICES ASSUME Init PROVE IInv
    OBVIOUS
<1>1. PICK first \in Goroutine : pc = [g \in Goroutine |-> IF g = first THEN "loading" ELSE "off"]
    BY DEF Init
<1>2. TypeOK
  <2>1. table \in [File -> Entry \cup {Nothing}]
      BY DEF Init, EmptyTable
  <2>2. files \in Seq(Entry) /\ Len(files) <= MaxFiles /\ got \in [Goroutine -> Seq(File)]
    <3>1. files = <<>> /\ got = [g \in Goroutine |-> <<>>] /\ MaxFiles \in Nat
        BY FilesPageAssumption DEF Init
    <3>2. <<>> \in Seq(Entry) /\ <<>> \in Seq(File) /\ Len(<<>>) = 0
        BY EmptySeq
    <3> QED
        BY <3>1, <3>2
  <2>3. stored \subseteq File /\ created \in 0 .. MaxFiles /\ gone \subseteq File
    <3>1. FirstFiles \in 0 .. MaxFiles /\ MaxFiles \in Nat
        BY FilesPageAssumption
    <3>2. 1 .. FirstFiles \subseteq 1 .. MaxFiles
        BY <3>1
    <3> QED
        BY <3>1, <3>2 DEF Init, File
  <2>4. dialog \in OrderType /\ order \in [Goroutine -> OrderType]
      BY NoOrderType DEF Init
  <2> QED
      BY <1>1, <2>1, <2>2, <2>3, <2>4 DEF Init, TypeOK
<1>3. KnownInv
  <2>1. Len(<<>>) = 0 /\ DOMAIN <<>> = {}
      OBVIOUS
  <2>2. files = <<>> /\ got = [g \in Goroutine |-> <<>>] /\ stored = Made /\ gone = {}
      BY DEF Init, Made
  <2>3. \A g \in Goroutine : got[g] = <<>> /\ pc[g] # "deleting"
      BY <1>1, <2>2
  <2> QED
      BY <2>1, <2>2, <2>3, FilesPageAssumption DEF KnownInv
<1>4. IndexInv /\ MeantInv /\ UndisturbedIsMeant
    BY <1>1 DEF Init, IndexInv, MeantInv, UndisturbedIsMeant, NoOrder
<1>5. OneRefresh /\ TitleInv
    BY <1>1 DEF OneRefresh, TitleInv, Refreshing
<1>6. RowsInv /\ RowsAreTheList
    BY DEF Init, RowsInv, RowsAreTheList, EmptyTable
<1>7. CleanInv
    BY <1>1 DEF Init, CleanInv
<1> QED
    BY <1>2, <1>3, <1>4, <1>5, <1>6, <1>7 DEF IInv

\* The invariant of the page is inductive.
THEOREM Inductive == Spec => []IInv
<1>1. IInv /\ [Next]_vars => IInv'
    BY TypeStep, KnownStep, IndexStep, OneRefreshStep, RowsStep, MeantStep, CleanStep, TitleStep DEF IInv
<1> QED
    BY InitIInv, <1>1, PTL DEF Spec

\* The state of the page is well formed.
THEOREM TypeCorrect == Spec => []TypeOK
<1>1. IInv => TypeOK
    BY DEF IInv
<1> QED
    BY <1>1, Inductive, PTL

\* Every row refers to the entry of s.files it shows, while refreshes do not
\* overlap.
THEOREM RowsShowTheList == Spec => []RowsAreTheList
<1>1. IInv => RowsAreTheList
    BY DEF IInv
<1> QED
    BY <1>1, Inductive, PTL

\* The file deleted or downloaded is the one pointed at and confirmed, unless
\* the list was written in between.
THEOREM UndisturbedMeant == Spec => []UndisturbedIsMeant
<1>1. IInv => UndisturbedIsMeant
    BY DEF IInv
<1> QED
    BY <1>1, Inductive, PTL

\* A deleted file has no row once the refresh that follows has ended well.
THEOREM DeletedLeave == Spec => []DeletedRowsLeave
<1>1. IInv => DeletedRowsLeave
  <2> SUFFICES ASSUME IInv, Quiet, ~overlapped, ~listError, NEW i \in File
               PROVE  table[i] \notin gone
      BY DEF DeletedRowsLeave
  <2>1. \A k \in DOMAIN files : files[k] \notin gone
      BY DEF IInv, CleanInv, Quiet
  <2>2. Nothing \notin gone
    <3>1. Nothing \notin File
        BY FileFacts DEF Nothing
    <3> QED
        BY <3>1 DEF IInv, TypeOK
  <2>3. table[i] # Nothing => InRange(i) /\ table[i] = files[i]
      BY DEF IInv, RowsAreTheList
  <2>4. InRange(i) => i \in DOMAIN files
      BY EntryFacts DEF IInv
  <2> QED
      BY <2>1, <2>2, <2>3, <2>4
<1> QED
    BY <1>1, Inductive, PTL

\* "Loading..." does not stay.
THEOREM QuietLoaded == Spec => []QuietIsLoaded
<1>1. IInv => QuietIsLoaded
    BY DEF IInv, TitleInv, QuietIsLoaded, Quiet, Refreshing
<1> QED
    BY <1>1, Inductive, PTL

=============================================================================
