------------------------------ MODULE FilesPage ------------------------------
(***************************************************************************)
(* The files page of the interaction stage (stages/interaction/tui/        *)
(* files.go): the list s.files, the table that shows it, the dialogs that  *)
(* remember an index into it, and the goroutines that refresh the list     *)
(* (setFilesList) or delete a file (deleteFile) while the event loop goes  *)
(* on serving keys.  Nothing guards s.files.                               *)
(*                                                                         *)
(* A file is its creation time, which is what the list is sorted by.  The  *)
(* row at table index i of the code shows, and refers to, entry i - 1 of   *)
(* s.files; here both count from 1.  The server is external.               *)
(***************************************************************************)
EXTENDS Integers, Sequences, FiniteSets, Functions

CONSTANTS MaxFiles,         \* files that ever exist (a bound)
          FirstFiles,       \* files that exist when the page is built
          WithPassword,     \* files with a password of their own
          ShortName,        \* files whose name is shorter than 7 bytes
          Goroutine         \* goroutines the page may have at a time (a bound)

File == 1 .. MaxFiles

ASSUME FilesPageAssumption ==
    /\ MaxFiles \in Nat /\ FirstFiles \in 0 .. MaxFiles
    /\ WithPassword \subseteq File /\ ShortName \subseteq File

Blank   == 0                \* an entry of s.files after clear(s.files)
Nothing == -1               \* a row that is not there

VARIABLES
    page, title, table,     \* the page shown; the table's title and rows
    files,                  \* s.files
    dialog,                 \* the modal or the password form on the screen
    pc, got, order,         \* per goroutine: step, list received, order to carry out
    listError,              \* did the last refresh end in an error?
    overlapped,             \* history: two refreshes ran at the same time
    stored, created, gone,  \* server: files, how many ever; those it said it deleted
    crashed

screenVars  == <<page, title, table>>
threadVars  == <<pc, got, order>>
serverVars  == <<stored, created, gone>>
historyVars == <<listError, overlapped>>
vars == <<screenVars, files, dialog, threadVars, historyVars, serverVars, crashed>>

\* What the user pointed at: the index the dialog captured, the file the row
\* showed (history: Nothing once s.files was written since), the file the
\* dialog named, and the file the server was asked for in the end.
NoOrder == [kind |-> "none", idx |-> 0, row |-> Nothing, asked |-> Nothing, sent |-> Nothing]

EmptyTable == [i \in File |-> Nothing]

Init ==
    /\ page = "files" /\ title = "" /\ table = EmptyTable
    /\ files = <<>>
    /\ dialog = NoOrder
    /\ \E first \in Goroutine : pc = [g \in Goroutine |-> IF g = first THEN "loading" ELSE "off"]
    /\ got = [g \in Goroutine |-> <<>>]
    /\ order = [g \in Goroutine |-> NoOrder]
    /\ listError = FALSE /\ overlapped = FALSE
    /\ stored = 1 .. FirstFiles /\ created = FirstFiles /\ gone = {}
    /\ crashed = FALSE

Refreshing(g) == pc[g] \in {"loading", "fetch", "clear", "set", "sort", "fill"}

Step(g, from, to) == pc[g] = from /\ pc' = [pc EXCEPT ![g] = to]

\* go s.setFilesList()
StartRefresh(g, from) ==
    /\ Step(g, from, "loading")
    /\ overlapped' = (overlapped \/ \E h \in Goroutine : Refreshing(h))

Crash == crashed' = TRUE

\* History: a write to s.files moves what a remembered index stands for.
Moved(o) == [o EXCEPT !.row = Nothing]

WriteFiles(list) ==
    /\ files' = list
    /\ dialog' = Moved(dialog)
    /\ order' = [g \in Goroutine |-> Moved(order[g])]

InRange(idx) == idx <= Len(files)

-----------------------------------------------------------------------------
(* Keys: the event loop. *)

KeysGoToTable == page = "files" /\ dialog = NoOrder

\* Alt-R
Refresh ==
    /\ KeysGoToTable
    /\ \E g \in Goroutine : StartRefresh(g, "off")
    /\ UNCHANGED <<screenVars, files, dialog, got, order, listError, serverVars, crashed>>

\* Alt-U, and back again with Alt-B: buildFiles makes a new table, which the
\* refreshes under way fill as well.
SwitchToUpload ==
    /\ KeysGoToTable
    /\ page' = "upload"
    /\ UNCHANGED <<title, table, files, dialog, threadVars, historyVars, serverVars, crashed>>

BuildFiles ==
    /\ page = "upload"
    /\ page' = "files" /\ title' = "" /\ table' = EmptyTable
    /\ \E g \in Goroutine : StartRefresh(g, "off")
    /\ UNCHANGED <<files, dialog, got, order, listError, serverVars, crashed>>

\* Alt-D and Alt-X: the dialog names the entry the row refers to, and keeps
\* the index.
Ask(kind, i) ==
    /\ KeysGoToTable
    /\ table[i] # Nothing
    /\ IF InRange(i)
       THEN /\ dialog' = [kind |-> kind, idx |-> i, row |-> table[i], asked |-> files[i],
                          sent |-> Nothing]
            /\ UNCHANGED crashed
       ELSE Crash /\ UNCHANGED dialog
    /\ UNCHANGED <<screenVars, files, threadVars, historyVars, serverVars>>

Cancel ==
    /\ dialog # NoOrder
    /\ dialog' = NoOrder
    /\ UNCHANGED <<screenVars, files, threadVars, historyVars, serverVars, crashed>>

\* go s.deleteFile(idx)
YesDelete ==
    /\ dialog.kind = "delete"
    /\ \E g \in Goroutine : Step(g, "off", "name") /\ order' = [order EXCEPT ![g] = dialog]
    /\ dialog' = NoOrder
    /\ UNCHANGED <<screenVars, files, got, historyVars, serverVars, crashed>>

\* Mutant of Send: the entry after the one meant.
SendNext(o) == [o EXCEPT !.idx = 0, !.sent = IF o.idx < Len(files) THEN files[o.idx + 1] ELSE Blank]

\* The file id is looked up again, by the index, which is not needed any more.
Send(o) == [o EXCEPT !.idx = 0, !.sent = files[o.idx]]

\* go s.processDownload(s.files[idx].FileUUID, ...)
StartDownload ==
    /\ \E g \in Goroutine :
          Step(g, "off", "downloading") /\ order' = [order EXCEPT ![g] = Send(dialog)]
    /\ dialog' = NoOrder

\* downloadFile: a file with a password needs the form first, which names the
\* file again.
YesDownload ==
    /\ dialog.kind = "download"
    /\ InRange(dialog.idx)
    /\ IF files[dialog.idx] \in WithPassword
       THEN /\ dialog' = [dialog EXCEPT !.kind = "password", !.asked = files[dialog.idx]]
            /\ UNCHANGED <<pc, order>>
       ELSE StartDownload
    /\ UNCHANGED <<screenVars, files, got, historyVars, serverVars, crashed>>

ConfirmPassword ==
    /\ dialog.kind = "password"
    /\ InRange(dialog.idx)
    /\ StartDownload
    /\ UNCHANGED <<screenVars, files, got, historyVars, serverVars, crashed>>

\* The list has become too short for the index the dialog kept: a panic.
ConfirmOutOfRange ==
    /\ dialog.kind \in {"download", "password"}
    /\ ~InRange(dialog.idx)
    /\ Crash
    /\ UNCHANGED <<screenVars, files, dialog, threadVars, historyVars, serverVars>>

-----------------------------------------------------------------------------
(* setFilesList, in goroutine g; its first and last steps run in the event   *)
(* loop, and g waits for them.                                               *)

\* Mutant of Loading: the rows stay until the new ones come.
LoadingKeepingRows(g) ==
    /\ Step(g, "loading", "fetch")
    /\ title' = "Loading..."
    /\ UNCHANGED <<page, table, files, dialog, got, order, historyVars, serverVars, crashed>>

Loading(g) ==
    /\ Step(g, "loading", "fetch")
    /\ title' = "Loading..." /\ table' = EmptyTable
    /\ UNCHANGED <<page, files, dialog, got, order, historyVars, serverVars, crashed>>

\* External: the server lists its files in an order of its own.
Listings == Injection(1 .. Cardinality(stored), stored)

\* Mutant of GetFilesList: after an error the goroutine returns.
GetFilesListOrReturn(g) ==
    /\ \/ /\ Step(g, "fetch", "clear")
          /\ \E s \in Listings : got' = [got EXCEPT ![g] = s]
          /\ listError' = FALSE
       \/ Step(g, "fetch", "off") /\ listError' = TRUE /\ UNCHANGED got
    /\ UNCHANGED <<screenVars, files, dialog, order, overlapped, serverVars, crashed>>

\* No answer, a refusal, or one file info that does not decrypt: an error, and
\* the old list is kept.
GetFilesList(g) ==
    /\ \/ /\ Step(g, "fetch", "clear")
          /\ \E s \in Listings : got' = [got EXCEPT ![g] = s]
          /\ listError' = FALSE
       \/ Step(g, "fetch", "sort") /\ listError' = TRUE /\ UNCHANGED got
    /\ UNCHANGED <<screenVars, files, dialog, order, overlapped, serverVars, crashed>>

\* clear(s.files) zeroes the entries in place.
ClearFiles(g) ==
    /\ Step(g, "clear", "set")
    /\ WriteFiles([i \in DOMAIN files |-> Blank])
    /\ UNCHANGED <<screenVars, got, historyVars, serverVars, crashed>>

\* Mutant of SetFiles: the new entries are appended to the cleared ones.
AppendFiles(g) ==
    /\ Step(g, "set", "sort")
    /\ WriteFiles(files \o got[g])
    /\ got' = [got EXCEPT ![g] = <<>>]
    /\ UNCHANGED <<screenVars, historyVars, serverVars, crashed>>

SetFiles(g) ==
    /\ Step(g, "set", "sort")
    /\ WriteFiles(got[g])
    /\ got' = [got EXCEPT ![g] = <<>>]
    /\ UNCHANGED <<screenVars, historyVars, serverVars, crashed>>

\* What a reader or a sort may make of s.files while another goroutine clears
\* or sorts it: any mixture of its entries and blanks.
Torn == [DOMAIN files -> {files[i] : i \in DOMAIN files} \cup {Blank}]

RacesWith(g, steps) == \E h \in Goroutine \ {g} : pc[h] \in steps

\* Newest first; entries of the same time in any order.
Sorted(list) ==
    {t \in {[i \in DOMAIN list |-> list[p[i]]] : p \in Bijection(DOMAIN list, DOMAIN list)} :
        \A i, j \in DOMAIN t : i < j => t[i] >= t[j]}

SortFiles(g) ==
    /\ Step(g, "sort", "fill")
    /\ \E list \in IF RacesWith(g, {"clear", "sort"}) THEN Torn ELSE Sorted(files) :
          WriteFiles(list)
    /\ UNCHANGED <<screenVars, got, historyVars, serverVars, crashed>>

\* The rows of the list are set, and one for the total two rows below; rows
\* that are there already are not removed.
FillTable(g) ==
    /\ Step(g, "fill", "off")
    /\ \E list \in IF RacesWith(g, {"clear", "sort"}) THEN Torn \cup {files} ELSE {files} :
          table' = [i \in File |-> IF i <= Len(list) THEN list[i]
                                   ELSE IF i = Len(list) + 2 THEN Nothing ELSE table[i]]
    /\ title' = "Files"
    /\ UNCHANGED <<page, files, dialog, got, order, historyVars, serverVars, crashed>>

-----------------------------------------------------------------------------
(* deleteFile, in goroutine g. *)

\* The name is read for the status line, and cut to seven bytes.
DeleteName(g) ==
    /\ pc[g] = "name"
    /\ IF InRange(order[g].idx) /\ files[order[g].idx] \notin ShortName \cup {Blank}
       THEN Step(g, "name", "request") /\ UNCHANGED crashed
       ELSE Crash /\ UNCHANGED pc
    /\ UNCHANGED <<screenVars, files, dialog, got, order, historyVars, serverVars>>

\* By then the status was shown: s.files may be another list.
DeleteRequest(g) ==
    /\ pc[g] = "request"
    /\ IF InRange(order[g].idx)
       THEN /\ Step(g, "request", "deleting")
            /\ order' = [order EXCEPT ![g] = Send(@)]
            /\ UNCHANGED crashed
       ELSE Crash /\ UNCHANGED <<pc, order>>
    /\ UNCHANGED <<screenVars, files, dialog, got, historyVars, serverVars>>

\* Mutant of DeleteFile: the list is not refreshed.
DeleteFileOnly(g) ==
    /\ order[g].sent # Blank
    /\ Step(g, "deleting", "off")
    /\ stored' = stored \ {order[g].sent} /\ gone' = gone \cup {order[g].sent}
    /\ order' = [order EXCEPT ![g] = NoOrder]
    /\ UNCHANGED <<screenVars, files, dialog, got, historyVars, created, crashed>>

\* The file is deleted and the server says so: the list is refreshed.
DeleteFile(g) ==
    /\ order[g].sent # Blank
    /\ StartRefresh(g, "deleting")
    /\ stored' = stored \ {order[g].sent} /\ gone' = gone \cup {order[g].sent}
    /\ order' = [order EXCEPT ![g] = NoOrder]
    /\ UNCHANGED <<screenVars, files, dialog, got, listError, created, crashed>>

\* It is refused, or the answer is lost.
DeleteFails(g) ==
    /\ Step(g, "deleting", "off")
    /\ stored' \in {stored, stored \ {order[g].sent}}
    /\ order' = [order EXCEPT ![g] = NoOrder]
    /\ UNCHANGED <<screenVars, files, dialog, got, historyVars, created, gone, crashed>>

\* processDownload returns; what it does is Download's subject.
DownloadEnds(g) ==
    /\ Step(g, "downloading", "off")
    /\ order' = [order EXCEPT ![g] = NoOrder]
    /\ UNCHANGED <<screenVars, files, dialog, got, historyVars, serverVars, crashed>>

\* External: an upload, this program's or another's, adds a file.
FileArrives ==
    /\ created < MaxFiles
    /\ created' = created + 1 /\ stored' = stored \cup {created + 1}
    /\ UNCHANGED <<screenVars, files, dialog, threadVars, historyVars, gone, crashed>>

-----------------------------------------------------------------------------
Key ==
    \/ Refresh \/ SwitchToUpload \/ BuildFiles
    \/ \E kind \in {"delete", "download"}, i \in File : Ask(kind, i)
    \/ Cancel \/ YesDelete \/ YesDownload \/ ConfirmPassword
    \/ ConfirmOutOfRange

RefreshStep(g) ==
    \/ Loading(g) \/ GetFilesList(g) \/ ClearFiles(g) \/ SetFiles(g) \/ SortFiles(g)
    \/ FillTable(g)

OrderStep(g) ==
    DeleteName(g) \/ DeleteRequest(g) \/ DeleteFile(g) \/ DeleteFails(g) \/ DownloadEnds(g)

Stopped == crashed /\ UNCHANGED vars

Next ==
    \/ /\ ~crashed
       /\ \/ Key
          \/ \E g \in Goroutine : RefreshStep(g) \/ OrderStep(g)
          \/ FileArrives
    \/ Stopped

Spec == Init /\ [][Next]_vars

-----------------------------------------------------------------------------
(* Properties. *)

Entry == File \cup {Blank}

OrderType ==
    [kind : {"none", "delete", "download", "password"}, idx : 0 .. MaxFiles,
     row : Entry \cup {Nothing}, asked : Entry \cup {Nothing}, sent : Entry \cup {Nothing}]

\* The state is well formed: the list and the table hold files or blanks, and
\* no more of them than there ever were.
TypeOK ==
    /\ page \in {"files", "upload"} /\ title \in {"", "Loading...", "Files"}
    /\ table \in [File -> Entry \cup {Nothing}]
    /\ files \in Seq(Entry) /\ Len(files) <= MaxFiles
    /\ dialog \in OrderType
    /\ pc \in [Goroutine -> {"off", "loading", "fetch", "clear", "set", "sort", "fill",
                             "name", "request", "deleting", "downloading"}]
    /\ got \in [Goroutine -> Seq(File)]
    /\ order \in [Goroutine -> OrderType]
    /\ listError \in BOOLEAN /\ overlapped \in BOOLEAN
    /\ stored \subseteq File /\ created \in 0 .. MaxFiles /\ gone \subseteq File
    /\ crashed \in BOOLEAN

\* As long as refreshes do not overlap, every row the user can point at shows
\* the entry of s.files its reference stands for, through every refresh, failed
\* ones included: the index is neither out of range nor another file's.
RowsAreTheList ==
    overlapped \/ \A i \in File : table[i] # Nothing => InRange(i) /\ table[i] = files[i]

\* A file is deleted or downloaded because the user pointed at its row and
\* confirmed its name, provided the list was not written in between.
UndisturbedIsMeant ==
    \A g \in Goroutine : pc[g] \in {"deleting", "downloading"} =>
        \/ overlapped \/ order[g].row = Nothing
        \/ {order[g].row, order[g].asked} = {order[g].sent}

Quiet == \A g \in Goroutine : pc[g] = "off"

\* A file the server said it deleted is not offered any more once the page is
\* quiet, unless the refresh that follows the deletion failed or overlapped.
DeletedRowsLeave == Quiet /\ ~overlapped /\ ~listError => \A i \in File : table[i] \notin gone

\* "Loading..." does not stay: once the page is quiet it shows a list, also when
\* the new one could not be had, and with refreshes that overlap.
QuietIsLoaded == Quiet /\ page = "files" => title = "Files"

-----------------------------------------------------------------------------
(* What the program says of itself and does not do. *)

\* "Want to DELETE: %s ?": what is deleted is the file the question named, also
\* when a refresh runs at the time, as long as it meets no other refresh; that
\* the entry may just be cleared is left aside.
DeletesWhatWasAsked ==
    overlapped \/ \A g \in Goroutine :
        pc[g] = "deleting" => order[g].sent \in {order[g].asked, Blank}

=============================================================================
