------------------------------- MODULE Search -------------------------------
(***************************************************************************)
(* The search of the upload page (stages/interaction/tui/upload.go).       *)
(* Every key that changes the query cancels the search before it and       *)
(* starts two goroutines: a producer that walks the files under the tree's *)
(* cursor (searched) and a consumer that hands results to the event loop.  *)
(* All of them, of all searches, share one buffered channel, one table and *)
(* the flag showHidden; only their contexts are their own.                 *)
(*                                                                         *)
(* A file is its place in the order of the walk; which query matches which *)
(* file is a constant.  Which query a key may make of another is left out, *)
(* and so are the other nodes of the tree: searches start at its root.     *)
(***************************************************************************)
EXTENDS Integers, Sequences, FiniteSets, Bags

CONSTANTS NFiles,           \* files under the home directory
          Hidden,           \* those whose name begins with a dot
          Query, NoQuery,   \* the texts of the input field; the empty one
          Matches,          \* the files that fuzzy search finds for a query
          Volatile,         \* the files that other programs may remove (a bound)
          Cap,              \* capacity of searchResults
          MaxSearches       \* searches per run of the program (a bound)

File == 1 .. NFiles

ASSUME SearchAssumption ==
    /\ NFiles \in Nat /\ Cap \in Nat \ {0} /\ MaxSearches \in Nat
    /\ Hidden \subseteq File /\ Volatile \subseteq File /\ NoQuery \notin Query
    /\ Matches \in [Query -> SUBSET File]

VARIABLES
    screen,                 \* tree, results or form of the page, or the files page
    text,                   \* searchInp
    table,                  \* rows of searchTable: how often each result is in it
    searches,               \* per search: its query, is its context done?
    producer, consumer,     \* per search: its two goroutines
    searchResults,          \* the channel
    showHidden,
    present,                \* the files still on disk
    leftover,               \* history: a search began over an earlier one's results
    crashed

pageVars   == <<screen, text, table>>
vars == <<pageVars, searches, producer, consumer, searchResults, showHidden, present,
          leftover, crashed>>

Search == 1 .. MaxSearches
Result == [by : Search, file : File]
NoResult == [by |-> 0, file |-> 0]

Current == Len(searches)            \* the search that searchDone cancels

Init ==
    /\ screen = "tree" /\ text = NoQuery /\ table = EmptyBag
    /\ searches = <<>> /\ searchResults = <<>>
    /\ producer = [i \in Search |-> [pc |-> "off", at |-> 1]]
    /\ consumer = [i \in Search |-> [pc |-> "off", got |-> NoResult]]
    /\ showHidden = FALSE /\ present = File
    /\ leftover = FALSE /\ crashed = FALSE

-----------------------------------------------------------------------------
(* Keys: the event loop. *)

\* searchDone(): of the contexts before it, each was cancelled by the next search.
CancelCurrent == [i \in DOMAIN searches |-> [searches[i] EXCEPT !.done = @ \/ i = Current]]

\* What earlier searches have under way: a walk, a row, a message.
InFlight ==
    \/ searchResults # <<>>
    \/ \E i \in Search : producer[i].pc \in {"walk", "send"} \/ consumer[i].pc = "append"

\* processSearch of a query that is not empty, from the tree or the results.
Begin(q, rows) ==
    /\ screen \in {"tree", "results"} /\ Current < MaxSearches
    /\ searches' = Append(CancelCurrent, [query |-> q, done |-> FALSE])
    /\ screen' = "results" /\ text' = q /\ table' = rows
    /\ consumer' = [consumer EXCEPT ![Current + 1].pc = "select"]
    /\ producer' = [producer EXCEPT ![Current + 1].pc = "walk"]
    /\ leftover' = (leftover \/ InFlight)
    /\ UNCHANGED <<searchResults, showHidden, present, crashed>>

\* Mutant of ProcessSearch: the rows of the last search stay.
ProcessSearchUncleared(q) == Begin(q, table)

ProcessSearch(q) == Begin(q, EmptyBag)

\* Backspace over the last character: processSearch(""), then the tree.
ClearQuery ==
    /\ screen = "results"
    /\ searches' = CancelCurrent
    /\ screen' = "tree" /\ text' = NoQuery
    /\ UNCHANGED <<table, producer, consumer, searchResults, showHidden, present,
                   leftover, crashed>>

\* Enter on a row opens the form and leaves the search running.  The table is
\* entered before it has rows, and Enter there panics.
EnterRow ==
    /\ screen = "results"
    /\ IF table = EmptyBag
       THEN crashed' = TRUE /\ UNCHANGED <<screen, text>>
       ELSE screen' = "form" /\ text' = NoQuery /\ UNCHANGED crashed
    /\ UNCHANGED <<table, searches, producer, consumer, searchResults, showHidden,
                   present, leftover>>

\* Enter on a file of the tree; the form's Cancel and Confirm; Alt-B in the tree.
Goto(from, to) ==
    /\ screen \in from /\ screen' = to
    /\ UNCHANGED <<text, table, searches, producer, consumer, searchResults, showHidden,
                   present, leftover, crashed>>

EnterFile     == Goto({"tree"}, "form")
CancelForm    == Goto({"form"}, "tree")
ConfirmUpload == Goto({"form"}, "files")
LeavePage     == Goto({"tree"}, "files")

\* Alt-U on the files page: new widgets, the same channel and searches.
BuildUpload ==
    /\ screen = "files"
    /\ screen' = "tree" /\ text' = NoQuery /\ table' = EmptyBag
    /\ UNCHANGED <<searches, producer, consumer, searchResults, showHidden, present,
                   leftover, crashed>>

\* Alt-H in the tree.
ToggleHidden ==
    /\ screen = "tree"
    /\ showHidden' = ~showHidden
    /\ UNCHANGED <<pageVars, searches, producer, consumer, searchResults, present,
                   leftover, crashed>>

-----------------------------------------------------------------------------
(* The goroutines of search i. *)

Visible(f) == showHidden \/ f \notin Hidden

Found(i, f) == f \in Matches[searches[i].query] /\ Visible(f)

\* One call of WalkDir's function; the directory may have been read before a
\* file was removed from it, or after.
Visit(i) ==
    LET f == producer[i].at
        Go(pc, at) == producer' = [producer EXCEPT ![i] = [pc |-> pc, at |-> at]]
    IN  /\ producer[i].pc = "walk"
        /\ \/ (searches[i].done \/ f > NFiles) /\ Go("ended", f)
           \/ /\ ~searches[i].done /\ f <= NFiles /\ Found(i, f)
              /\ Go("send", f)
           \/ /\ ~searches[i].done /\ f <= NFiles
              /\ ~Found(i, f) \/ f \notin present
              /\ Go("walk", f + 1)
        /\ UNCHANGED <<pageVars, searches, consumer, searchResults, showHidden, present,
                       leftover, crashed>>

\* Mutant of Send: it does not wait for room.
SendAtOnce(i) ==
    /\ producer[i].pc = "send"
    /\ searchResults' = Append(searchResults, [by |-> i, file |-> producer[i].at])
    /\ producer' = [producer EXCEPT ![i] = [pc |-> "walk", at |-> producer[i].at + 1]]
    /\ UNCHANGED <<pageVars, searches, consumer, showHidden, present, leftover, crashed>>

\* searchResults <- ...: waits for room, whether or not the search was cancelled.
Send(i) ==
    /\ producer[i].pc = "send" /\ Len(searchResults) < Cap
    /\ searchResults' = Append(searchResults, [by |-> i, file |-> producer[i].at])
    /\ producer' = [producer EXCEPT ![i] = [pc |-> "walk", at |-> producer[i].at + 1]]
    /\ UNCHANGED <<pageVars, searches, consumer, showHidden, present, leftover, crashed>>

\* Mutant of Done: the consumer does not look at its context.
DoneNever(i) ==
    /\ consumer[i].pc = "select" /\ FALSE
    /\ UNCHANGED vars

Done(i) ==
    /\ consumer[i].pc = "select" /\ searches[i].done
    /\ consumer' = [consumer EXCEPT ![i].pc = "ended"]
    /\ UNCHANGED <<pageVars, searches, producer, searchResults, showHidden, present,
                   leftover, crashed>>

\* Mutants of Receive: a cancelled search drops what it received; a consumer
\* takes its own search's results only.
ReceiveOrDrop(i) ==
    /\ consumer[i].pc = "select" /\ searchResults # <<>>
    /\ searchResults' = Tail(searchResults)
    /\ consumer' = IF searches[i].done THEN [consumer EXCEPT ![i].pc = "ended"]
                   ELSE [consumer EXCEPT ![i] = [pc |-> "append", got |-> Head(searchResults)]]
    /\ UNCHANGED <<pageVars, searches, producer, showHidden, present, leftover, crashed>>

ReceiveOwn(i) ==
    /\ consumer[i].pc = "select" /\ searchResults # <<>> /\ Head(searchResults).by = i
    /\ searchResults' = Tail(searchResults)
    /\ consumer' = [consumer EXCEPT ![i] = [pc |-> "append", got |-> Head(searchResults)]]
    /\ UNCHANGED <<pageVars, searches, producer, showHidden, present, leftover, crashed>>

\* When a result is there and the context is done, select takes either.
Receive(i) ==
    /\ consumer[i].pc = "select" /\ searchResults # <<>>
    /\ searchResults' = Tail(searchResults)
    /\ consumer' = [consumer EXCEPT ![i] = [pc |-> "append", got |-> Head(searchResults)]]
    /\ UNCHANGED <<pageVars, searches, producer, showHidden, present, leftover, crashed>>

\* The event loop runs the queued appendSearchResult, on the table of the
\* moment; a file that is gone gets no row.
AppendSearchResult(i) ==
    /\ consumer[i].pc = "append"
    /\ table' = IF consumer[i].got.file \in present THEN table (+) SetToBag({consumer[i].got})
                ELSE table
    /\ consumer' = [consumer EXCEPT ![i] = [pc |-> "select", got |-> NoResult]]
    /\ UNCHANGED <<screen, text, searches, producer, searchResults, showHidden, present,
                   leftover, crashed>>

\* Another program removes a file.
RemoveFile(f) ==
    /\ f \in present \cap Volatile
    /\ present' = present \ {f}
    /\ UNCHANGED <<pageVars, searches, producer, consumer, searchResults, showHidden,
                   leftover, crashed>>

-----------------------------------------------------------------------------

Key ==
    \/ \E q \in Query : ProcessSearch(q)
    \/ ClearQuery \/ EnterRow \/ EnterFile \/ CancelForm \/ ConfirmUpload \/ LeavePage
    \/ BuildUpload \/ ToggleHidden

Producer(i) == Visit(i) \/ Send(i)
Consumer(i) == Done(i) \/ Receive(i) \/ AppendSearchResult(i)

Next ==
    \/ /\ ~crashed
       /\ \/ Key
          \/ \E i \in Search : Producer(i) \/ Consumer(i)
          \/ \E f \in File : RemoveFile(f)
    \/ crashed /\ UNCHANGED vars

Spec == Init /\ [][Next]_vars

\* The scheduler runs every goroutine that can run, and the event loop takes
\* what is queued; the user is assumed to do nothing.
FairSpec ==
    /\ Spec
    /\ \A i \in Search : WF_vars(~crashed /\ Producer(i)) /\ WF_vars(~crashed /\ Consumer(i))

-----------------------------------------------------------------------------
(* Properties. *)

SearchState == [query : Query, done : BOOLEAN]

\* The state is well formed: the channel is never over its capacity, and only
\* results of searches that were begun travel in it.
TypeOK ==
    /\ screen \in {"tree", "results", "form", "files"}
    /\ text \in Query \cup {NoQuery}
    /\ searches \in Seq(SearchState) /\ Current <= MaxSearches
    /\ IsABag(table) /\ BagToSet(table) \subseteq [by : 1 .. Current, file : File]
    /\ searchResults \in Seq([by : 1 .. Current, file : File])
    /\ Len(searchResults) <= Cap
    /\ producer \in [Search -> [pc : {"off", "walk", "send", "ended"}, at : 1 .. NFiles + 1]]
    /\ consumer \in [Search -> [pc : {"off", "select", "append", "ended"},
                                got : Result \cup {NoResult}]]
    /\ showHidden \in BOOLEAN /\ present \subseteq File
    /\ leftover \in BOOLEAN /\ crashed \in BOOLEAN

Watching(i) == Current = i /\ screen = "results"

\* Unless a search was begun while an earlier one still had something under
\* way, every row on the screen answers the query above it.
RowsAnswerTheQuery ==
    screen = "results" /\ ~leftover =>
        \A r \in BagToSet(table) : r.by = Current /\ r.file \in Matches[text]

Copies(r) ==
    (IF BagIn(r, table) THEN table[r] ELSE 0)
    + Cardinality({k \in DOMAIN searchResults : searchResults[k] = r})
    + Cardinality({i \in Search : consumer[i].got = r})

\* Whichever consumers take the results, also those of searches that were
\* cancelled: what the search on the screen found is on its way to the table or
\* in it, once, unless the file is gone.
FoundOnce ==
    \A i \in Search, f \in File : Watching(i) =>
        LET n == Copies([by |-> i, file |-> f])
        IN  /\ n <= 1
            /\ f \in present /\ f < producer[i].at /\ Found(i, f) => n = 1

Shown(i, f) == BagIn([by |-> i, file |-> f], table)

\* A search that stays on the screen shows every file that it should find.
SearchCompletes ==
    \A i \in Search :
        Watching(i) ~> (~Watching(i) \/ crashed
                        \/ \A f \in File : f \in present /\ Found(i, f) => Shown(i, f))

Live == Current > 0 /\ ~searches[Current].done

\* A search that another one replaced ends, both its goroutines, as long as one
\* goes on; with none left, its producer may wait for ever on a full channel.
ReplacedSearchesEnd ==
    \A i \in 1 .. MaxSearches - 1 :
        (i < Current /\ Live)
        ~> (crashed \/ ~Live \/ (producer[i].pc = "ended" /\ consumer[i].pc = "ended"))
=============================================================================
