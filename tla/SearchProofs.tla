---------------------------- MODULE SearchProofs ----------------------------
(***************************************************************************)
(* Proofs about Search, for any files, queries, number of searches and     *)
(* capacity of the channel.                                                *)
(*                                                                         *)
(* A result is in the table, in the channel or held by a consumer: Placed. *)
(* What is placed was found by its search behind the place its producer is *)
(* at (PlacedInv), so that nothing is placed again; it is in one of the    *)
(* three, once (OnceInv); and what the search on the screen walked over    *)
(* and found is placed (KeptInv).  When nothing of earlier searches was    *)
(* left over, whatever is placed is of the current one (OwnInv).           *)
(***************************************************************************)
EXTENDS Search, FiniteSetTheorems, SequenceTheorems, TLAPS

Rows   == DOMAIN table
Queued == {searchResults[k] : k \in DOMAIN searchResults}
Held   == {consumer[i].got : i \in {j \in Search : consumer[j].pc = "append"}}
Placed == Rows \cup Queued \cup Held

Begun == [by : 1 .. Current, file : File]

\* The goroutines of a search have work from its beginning on, a result is held
\* while it is appended, and the results on the screen are those of the text.
StepInv ==
    /\ \A i \in Search : i > Current =>
        producer[i] = [pc |-> "off", at |-> 1] /\ consumer[i].pc = "off"
    /\ \A i \in Search : producer[i].pc = "send" => producer[i].at \in File
    /\ \A i \in Search :
        IF consumer[i].pc = "append" THEN consumer[i].got \in Begun
        ELSE consumer[i].got = NoResult
    /\ screen = "results" => Current > 0 /\ text = searches[Current].query

Behind(r) == r.file < producer[r.by].at /\ r.file \in Matches[searches[r.by].query]

PlacedInv ==
    /\ \A r \in Placed : Behind(r)
    /\ \A i \in Search : producer[i].pc = "send" => producer[i].at \in Matches[searches[i].query]

OnceInv ==
    /\ \A r \in Rows : table[r] = 1
    /\ \A j, k \in DOMAIN searchResults : searchResults[j] = searchResults[k] => j = k
    /\ \A i, j \in Search :
        consumer[i].pc = "append" /\ consumer[j].pc = "append" /\ consumer[i].got = consumer[j].got
        => i = j
    /\ Rows \cap Queued = {} /\ Rows \cap Held = {} /\ Queued \cap Held = {}

KeptInv ==
    \A i \in Search, f \in File :
        Watching(i) /\ f \in present /\ f < producer[i].at /\ Found(i, f)
        => [by |-> i, file |-> f] \in Placed

OwnInv ==
    screen = "results" /\ ~leftover =>
        /\ \A r \in Placed : r.by = Current
        /\ \A i \in Search : producer[i].pc \in {"walk", "send"} => i = Current

IInv == TypeOK /\ StepInv /\ PlacedInv /\ OnceInv /\ KeptInv /\ OwnInv
-----------------------------------------------------------------------------
(* The table, the channel and the searches begun. *)

\* The table with one more row that it does not have yet.
LEMMA RowAdded ==
    ASSUME NEW r, IsABag(table), r \notin Rows
    PROVE  LET new == table (+) SetToBag({r})
           IN  /\ IsABag(new) /\ DOMAIN new = Rows \cup {r}
               /\ new[r] = 1 /\ \A x \in Rows : new[x] = table[x]
<1> DEFINE new == table (+) SetToBag({r})
<1>1. SetToBag({r}) = [x \in {r} |-> 1]
    BY DEF SetToBag
<1>2. new = [x \in Rows \cup {r} |-> (IF x \in Rows THEN table[x] ELSE 0)
                                     + (IF x \in {r} THEN 1 ELSE 0)]
    BY <1>1 DEF (+), Rows
<1>3. \A x \in Rows : table[x] \in {n \in Nat : n > 0}
    BY DEF IsABag, Rows
<1>4. DOMAIN new = Rows \cup {r}
    BY <1>2
<1>5. new[r] = 1
    BY <1>2
<1>6. ASSUME NEW x \in Rows PROVE new[x] = table[x]
    BY <1>2, <1>3
<1>7. \A x \in DOMAIN new : new[x] \in {n \in Nat : n > 0}
    BY <1>3, <1>4, <1>5, <1>6
<1>8. IsABag(new)
    BY <1>2, <1>4, <1>7 DEF IsABag
<1> QED
    BY <1>4, <1>5, <1>6, <1>8

LEMMA NoRows == IsABag(EmptyBag) /\ DOMAIN EmptyBag = {}
    BY DEF EmptyBag, SetToBag, IsABag

LEMMA QueueFacts ==
    ASSUME TypeOK
    PROVE  /\ Len(searchResults) \in Nat /\ DOMAIN searchResults = 1 .. Len(searchResults)
           /\ \A k \in DOMAIN searchResults : searchResults[k] \in Begun
           /\ Current \in Nat /\ DOMAIN searches = 1 .. Current
           /\ \A i \in 1 .. Current : searches[i] \in SearchState /\ i \in Search
<1>1. searchResults \in Seq(Begun) /\ searches \in Seq(SearchState) /\ Current <= MaxSearches
    BY DEF TypeOK, Begun
<1>2. Len(searchResults) \in Nat /\ DOMAIN searchResults = 1 .. Len(searchResults)
    BY <1>1, LenProperties
<1>3. \A k \in DOMAIN searchResults : searchResults[k] \in Begun
    BY <1>1, <1>2, ElementOfSeq
<1>4. Current \in Nat /\ DOMAIN searches = 1 .. Current
    BY <1>1, LenProperties DEF Current
<1>5. \A i \in 1 .. Current : searches[i] \in SearchState
    BY <1>1, <1>4, ElementOfSeq DEF Current
<1>6. \A i \in 1 .. Current : i \in Search
    BY <1>1, <1>4, SearchAssumption DEF Search
<1> QED
    BY <1>2, <1>3, <1>4, <1>5, <1>6

\* The end of a context changes no query and no other context.
LEMMA CancelFacts ==
    ASSUME TypeOK
    PROVE  /\ CancelCurrent \in Seq(SearchState) /\ Len(CancelCurrent) = Current
           /\ DOMAIN CancelCurrent = 1 .. Current
           /\ \A i \in 1 .. Current :
                /\ CancelCurrent[i].query = searches[i].query
                /\ CancelCurrent[i].done = (searches[i].done \/ i = Current)
<1>1. Current \in Nat /\ DOMAIN searches = 1 .. Current
      /\ \A i \in 1 .. Current : searches[i] \in SearchState
    BY QueueFacts
<1>2. ASSUME NEW i \in 1 .. Current
      PROVE  /\ [searches[i] EXCEPT !.done = @ \/ i = Current] \in SearchState
             /\ [searches[i] EXCEPT !.done = @ \/ i = Current].query = searches[i].query
             /\ [searches[i] EXCEPT !.done = @ \/ i = Current].done
                  = (searches[i].done \/ i = Current)
    BY <1>1 DEF SearchState
<1>3. CancelCurrent = [i \in 1 .. Current |-> [searches[i] EXCEPT !.done = @ \/ i = Current]]
    BY <1>1 DEF CancelCurrent
<1>4. CancelCurrent \in [1 .. Current -> SearchState]
    BY <1>2, <1>3
<1>5. CancelCurrent \in Seq(SearchState) /\ Len(CancelCurrent) = Current
    BY <1>1, <1>4, <1>3, SeqDef, LenProperties
<1> QED
    BY <1>2, <1>3, <1>5

LEMMA HeldBegun ==
    ASSUME TypeOK, StepInv
    PROVE  Placed \subseteq Begun
<1>1. Rows \subseteq Begun
    BY DEF Rows, TypeOK, BagToSet, Begun
<1>2. Queued \subseteq Begun
    BY QueueFacts DEF Queued
<1>3. Held \subseteq Begun
    BY DEF Held, StepInv
<1> QED
    BY <1>1, <1>2, <1>3 DEF Placed
-----------------------------------------------------------------------------
(* The steps of the event loop. *)

GotoStep == EnterFile \/ CancelForm \/ ConfirmUpload \/ LeavePage

\* A step that leaves the results, or has nothing to do with them.
LEMMA PageStep ==
    ASSUME IInv,
           ClearQuery \/ EnterRow \/ GotoStep \/ BuildUpload \/ ToggleHidden
    PROVE  IInv'
<1>1. UNCHANGED <<producer, consumer, searchResults, present, leftover>>
    BY DEF ClearQuery, EnterRow, GotoStep, EnterFile, CancelForm, ConfirmUpload, LeavePage, Goto,
           BuildUpload, ToggleHidden, pageVars
<1>2. table' = table \/ table' = EmptyBag
    BY DEF ClearQuery, EnterRow, GotoStep, EnterFile, CancelForm, ConfirmUpload, LeavePage, Goto,
           BuildUpload, ToggleHidden, pageVars
<1>3. screen' # "results" \/ UNCHANGED <<screen, text, table, searches, showHidden>>
    BY DEF ClearQuery, EnterRow, GotoStep, EnterFile, CancelForm, ConfirmUpload, LeavePage, Goto,
           BuildUpload, ToggleHidden, pageVars
<1>4. searches' = searches \/ searches' = CancelCurrent
    BY DEF ClearQuery, EnterRow, GotoStep, EnterFile, CancelForm, ConfirmUpload, LeavePage, Goto,
           BuildUpload, ToggleHidden, pageVars
<1>5. /\ searches' \in Seq(SearchState) /\ Current' = Current
      /\ \A i \in 1 .. Current : searches'[i].query = searches[i].query
    BY <1>4, CancelFacts DEF IInv, TypeOK, Current
<1>6. Rows' \subseteq Rows /\ Queued' = Queued /\ Held' = Held
      /\ \A r \in Rows' : table'[r] = table[r]
    BY <1>1, <1>2, NoRows DEF Rows, Queued, Held
<1>7. Placed' \subseteq Placed /\ Placed \subseteq Begun /\ Begun' = Begun
    BY <1>5, <1>6, HeldBegun DEF Placed, IInv, Begun
<1>8. TypeOK'
  <2>1. IsABag(table') /\ BagToSet(table') \subseteq Begun'
      BY <1>2, <1>7, NoRows DEF IInv, TypeOK, BagToSet, Begun
  <2>2. screen' \in {"tree", "results", "form", "files"} /\ text' \in Query \cup {NoQuery}
        /\ showHidden' \in BOOLEAN /\ crashed' \in BOOLEAN
      BY DEF ClearQuery, EnterRow, GotoStep, EnterFile, CancelForm, ConfirmUpload, LeavePage, Goto,
           BuildUpload, ToggleHidden, pageVars, IInv, TypeOK
  <2> QED
      BY <1>1, <1>5, <1>7, <2>1, <2>2 DEF IInv, TypeOK, Begun
<1>9. StepInv'
  <2>1. \A i \in Search : consumer'[i].pc = "append" => consumer'[i].got \in Begun'
      BY <1>1, <1>7 DEF IInv, StepInv
  <2>2. screen' = "results" => Current' > 0 /\ text' = searches'[Current'].query
      BY <1>3, <1>5 DEF IInv, StepInv
  <2> QED
      BY <1>1, <1>5, <2>1, <2>2 DEF IInv, StepInv
<1>10. PlacedInv'
  <2>1. ASSUME NEW r \in Placed' PROVE Behind(r)'
    <3>1. r \in Placed /\ r \in Begun /\ r.by \in 1 .. Current
        BY <1>7 DEF Begun
    <3> QED
        BY <1>1, <1>5, <3>1 DEF Behind, IInv, PlacedInv
  <2>2. ASSUME NEW i \in Search, producer'[i].pc = "send"
        PROVE  producer'[i].at \in Matches[searches'[i].query]
    <3>1. i \in 1 .. Current
        BY <1>1, <2>2, QueueFacts DEF IInv, StepInv, Search
    <3> QED
        BY <1>1, <1>5, <2>2, <3>1 DEF IInv, PlacedInv
  <2> QED
      BY <2>1, <2>2 DEF PlacedInv
<1>11. OnceInv'
    BY <1>1, <1>6 DEF IInv, OnceInv
<1>12. KeptInv'
  <2>1. CASE screen' # "results"
      BY <2>1 DEF KeptInv, Watching
  <2>2. CASE UNCHANGED <<screen, text, table, searches, showHidden>>
    <3>1. Placed' = Placed
        BY <1>6, <2>2 DEF Placed, Rows
    <3> QED
        BY <1>1, <2>2, <3>1 DEF IInv, KeptInv, Watching, Found, Visible, Current
  <2> QED
      BY <1>3, <2>1, <2>2
<1>13. OwnInv'
    BY <1>1, <1>3, <1>5, <1>7 DEF IInv, OwnInv
<1> QED
    BY <1>8, <1>9, <1>10, <1>11, <1>12, <1>13 DEF IInv

\* A new search empties the table, and has found nothing yet.
LEMMA BeginStep ==
    ASSUME IInv, NEW q \in Query, ProcessSearch(q)
    PROVE  IInv'
<1> DEFINE n == Current + 1
           state == [query |-> q, done |-> FALSE]
<1>1. n \in Search /\ n \notin 1 .. Current /\ Current \in Nat
  <2>1. Current \in Nat
      BY QueueFacts DEF IInv
  <2>2. Current < MaxSearches
      BY DEF ProcessSearch, Begin
  <2> QED
      BY <2>1, <2>2, SearchAssumption DEF Search
<1>2. /\ searches' = Append(CancelCurrent, state)
      /\ screen' = "results" /\ text' = q /\ table' = EmptyBag
      /\ consumer' = [consumer EXCEPT ![n].pc = "select"]
      /\ producer' = [producer EXCEPT ![n].pc = "walk"]
      /\ leftover' = (leftover \/ InFlight)
      /\ UNCHANGED <<searchResults, showHidden, present, crashed>>
    BY DEF ProcessSearch, Begin
<1>3. /\ searches' \in Seq(SearchState) /\ Current' = n
      /\ searches'[n] = state
      /\ \A i \in 1 .. Current : searches'[i].query = searches[i].query
  <2>1. state \in SearchState
      BY DEF SearchState
  <2>2. /\ searches' \in Seq(SearchState) /\ Len(searches') = n
        /\ searches'[n] = state
        /\ \A i \in 1 .. Current : searches'[i] = CancelCurrent[i]
      BY <1>2, <2>1, CancelFacts, AppendProperties DEF IInv
  <2> QED
      BY <2>2, CancelFacts DEF IInv, Current
<1>4. /\ producer[n] = [pc |-> "off", at |-> 1] /\ consumer[n].pc = "off"
      /\ consumer[n].got = NoResult
    BY <1>1 DEF IInv, StepInv
<1>5. /\ producer' \in [Search -> [pc : {"off", "walk", "send", "ended"}, at : 1 .. NFiles + 1]]
      /\ producer'[n] = [pc |-> "walk", at |-> 1]
      /\ \A i \in Search \ {n} : producer'[i] = producer[i]
    BY <1>1, <1>2, <1>4 DEF IInv, TypeOK
<1>6. /\ consumer' \in [Search -> [pc : {"off", "select", "append", "ended"},
                                   got : Result \cup {NoResult}]]
      /\ consumer'[n] = [pc |-> "select", got |-> NoResult]
      /\ \A i \in Search \ {n} : consumer'[i] = consumer[i]
    BY <1>1, <1>2, <1>4 DEF IInv, TypeOK
<1> HIDE DEF n, state
<1>7. Rows' = {} /\ Queued' = Queued /\ Held' = Held
  <2>1. Rows' = {} /\ Queued' = Queued
      BY <1>2, NoRows DEF Rows, Queued
  <2>2. {j \in Search : consumer'[j].pc = "append"} = {j \in Search : consumer[j].pc = "append"}
      BY <1>1, <1>4, <1>6
  <2>3. \A j \in {j \in Search : consumer[j].pc = "append"} : consumer'[j] = consumer[j]
      BY <1>1, <1>4, <1>6
  <2> QED
      BY <2>1, <2>2, <2>3 DEF Held
<1>8. Placed' \subseteq Placed /\ Placed \subseteq Begun /\ Begun \subseteq Begun'
  <2>1. 1 .. Current \subseteq 1 .. Current'
      BY <1>1, <1>3 DEF n
  <2> QED
      BY <1>7, <2>1, HeldBegun DEF Placed, IInv, Begun
<1>9. TypeOK'
  <2>1. IsABag(table') /\ BagToSet(table') \subseteq Begun'
      BY <1>2, NoRows DEF BagToSet
  <2>2. searchResults' \in Seq(Begun') /\ Len(searchResults') <= Cap
    <3>1. searchResults \in Seq(Begun)
        BY DEF IInv, TypeOK, Begun
    <3>2. Seq(Begun) \subseteq Seq(Begun')
        BY <1>8, SeqMonotonic
    <3> QED
        BY <1>2, <3>1, <3>2 DEF IInv, TypeOK
  <2>3. Current' <= MaxSearches
      BY <1>1, <1>3, SearchAssumption DEF Search
  <2>4. screen' \in {"tree", "results", "form", "files"} /\ text' \in Query \cup {NoQuery}
        /\ showHidden' \in BOOLEAN /\ present' \subseteq File
        /\ leftover' \in BOOLEAN /\ crashed' \in BOOLEAN
      BY <1>2 DEF IInv, TypeOK
  <2> QED
      BY <1>3, <1>5, <1>6, <2>1, <2>2, <2>3, <2>4 DEF TypeOK, Begun
<1>10. StepInv'
  <2>1. ASSUME NEW i \in Search, i > Current'
        PROVE  producer'[i] = [pc |-> "off", at |-> 1] /\ consumer'[i].pc = "off"
    <3>1. i # n /\ i > Current
        BY <1>1, <1>3, <2>1 DEF n, Search
    <3> QED
        BY <1>5, <1>6, <3>1 DEF IInv, StepInv
  <2>2. ASSUME NEW i \in Search, producer'[i].pc = "send" PROVE producer'[i].at \in File
      BY <1>5, <2>2 DEF IInv, StepInv
  <2>3. ASSUME NEW i \in Search
        PROVE  IF consumer'[i].pc = "append" THEN consumer'[i].got \in Begun'
               ELSE consumer'[i].got = NoResult
      BY <1>6, <1>8 DEF IInv, StepInv
  <2>4. Current' > 0 /\ text' = searches'[Current'].query
    <3>1. Current' > 0
        BY <1>1, <1>3 DEF n
    <3>2. searches'[Current'].query = q
        BY <1>3 DEF state
    <3> QED
        BY <1>2, <3>1, <3>2
  <2> QED
      BY <2>1, <2>2, <2>3, <2>4 DEF StepInv
<1>11. PlacedInv'
  <2>1. ASSUME NEW r \in Placed' PROVE Behind(r)'
    <3>1. r \in Placed /\ r.by \in 1 .. Current /\ r.by \in Search \ {n}
        BY <1>1, <1>8, QueueFacts DEF Begun, IInv
    <3> QED
        BY <1>3, <1>5, <3>1 DEF Behind, IInv, PlacedInv
  <2>2. ASSUME NEW i \in Search, producer'[i].pc = "send"
        PROVE  producer'[i].at \in Matches[searches'[i].query]
    <3>1. i # n /\ producer'[i] = producer[i]
        BY <1>5, <2>2
    <3>2. i \in 1 .. Current
        BY <1>1, <2>2, <3>1 DEF IInv, StepInv, Search
    <3> QED
        BY <1>3, <2>2, <3>1, <3>2 DEF IInv, PlacedInv
  <2> QED
      BY <2>1, <2>2 DEF PlacedInv
<1>12. OnceInv'
  <2>1. ASSUME NEW i \in Search, NEW j \in Search, consumer'[i].pc = "append",
               consumer'[j].pc = "append", consumer'[i].got = consumer'[j].got
        PROVE  i = j
      BY <1>6, <2>1 DEF IInv, OnceInv
  <2>2. \A j, k \in DOMAIN searchResults' : searchResults'[j] = searchResults'[k] => j = k
      BY <1>2 DEF IInv, OnceInv
  <2> QED
      BY <1>7, <2>1, <2>2 DEF IInv, OnceInv
<1>13. KeptInv'
  <2>1. ASSUME NEW i \in Search, NEW f \in File, Watching(i)', f < producer'[i].at
        PROVE  FALSE
    <3>1. i = n
        BY <1>3, <2>1 DEF Watching
    <3> QED
        BY <1>5, <2>1, <3>1, SearchAssumption DEF File
  <2> QED
      BY <2>1 DEF KeptInv
<1>14. OwnInv'
  <2> SUFFICES ASSUME ~leftover'
               PROVE  /\ \A r \in Placed' : r.by = Current'
                      /\ \A i \in Search : producer'[i].pc \in {"walk", "send"} => i = Current'
      BY DEF OwnInv
  <2>1. ~InFlight
      BY <1>2
  <2>2. Queued = {} /\ Held = {}
    <3>1. Held = {}
        BY <2>1 DEF InFlight, Held
    <3>2. DOMAIN searchResults = {}
        BY <2>1, EmptySeq DEF InFlight
    <3> QED
        BY <3>1, <3>2 DEF Queued
  <2>3. Placed' = {}
      BY <1>7, <2>2 DEF Placed
  <2>4. \A i \in Search \ {n} : producer'[i].pc \notin {"walk", "send"}
      BY <1>5, <2>1 DEF InFlight
  <2> QED
      BY <1>3, <2>3, <2>4
<1> QED
    BY <1>9, <1>10, <1>11, <1>12, <1>13, <1>14 DEF IInv
-----------------------------------------------------------------------------
(* The steps of the goroutines, and of other programs. *)

LEMMA VisitStep ==
    ASSUME IInv, NEW i \in Search, Visit(i)
    PROVE  IInv'
<1> DEFINE f == producer[i].at
<1>1. producer[i].pc = "walk" /\ f \in 1 .. NFiles + 1
    BY DEF Visit, IInv, TypeOK
<1>2. UNCHANGED <<screen, text, table, searches, consumer, searchResults, showHidden, present,
                  leftover, crashed>>
    BY DEF Visit, pageVars
<1>3. /\ \A j \in Search \ {i} : producer'[j] = producer[j]
      /\ \/ producer'[i] = [pc |-> "ended", at |-> f]
         \/ producer'[i] = [pc |-> "send", at |-> f] /\ f <= NFiles /\ Found(i, f)
         \/ /\ producer'[i] = [pc |-> "walk", at |-> f + 1] /\ f <= NFiles
            /\ ~Found(i, f) \/ f \notin present
    BY DEF Visit, IInv, TypeOK
<1>4. producer' \in [Search -> [pc : {"off", "walk", "send", "ended"}, at : 1 .. NFiles + 1]]
  <2>1. DOMAIN producer' = Search
      BY DEF Visit, IInv, TypeOK
  <2>2. producer'[i] \in [pc : {"off", "walk", "send", "ended"}, at : 1 .. NFiles + 1]
      BY <1>1, <1>3, SearchAssumption
  <2>3. \E p, a : producer' = [producer EXCEPT ![i] = [pc |-> p, at |-> a]]
      BY DEF Visit
  <2> QED
      BY <2>2, <2>3 DEF IInv, TypeOK
<1>5. f <= producer'[i].at
    BY <1>1, <1>3
<1>6. i <= Current
    BY <1>1, QueueFacts DEF IInv, StepInv, Search
<1> HIDE DEF f
<1>7. Placed' = Placed /\ Begun' = Begun /\ Placed \subseteq Begun /\ Current' = Current
    BY <1>2, HeldBegun DEF Placed, Rows, Queued, Held, Begun, Current, IInv
<1>8. TypeOK'
    BY <1>2, <1>4, <1>7 DEF IInv, TypeOK
<1>9. StepInv'
  <2>1. ASSUME NEW j \in Search, j > Current'
        PROVE  producer'[j] = [pc |-> "off", at |-> 1] /\ consumer'[j].pc = "off"
    <3>1. j # i
        BY <1>6, <1>7, <2>1, QueueFacts DEF Search, IInv
    <3> QED
        BY <1>2, <1>3, <1>7, <2>1, <3>1 DEF IInv, StepInv
  <2>2. ASSUME NEW j \in Search, producer'[j].pc = "send" PROVE producer'[j].at \in File
      BY <1>1, <1>3, <2>2 DEF IInv, StepInv, File, f
  <2>3. \A j \in Search : IF consumer'[j].pc = "append" THEN consumer'[j].got \in Begun'
                          ELSE consumer'[j].got = NoResult
      BY <1>2, <1>7 DEF IInv, StepInv
  <2>4. (screen = "results" => Current > 0 /\ text = searches[Current].query)'
      BY <1>2, <1>7 DEF IInv, StepInv
  <2> QED
      BY <2>1, <2>2, <2>3, <2>4 DEF StepInv
<1>10. PlacedInv'
  <2>1. ASSUME NEW r \in Placed' PROVE Behind(r)'
    <3>1. Behind(r) /\ r.by \in Search /\ r.file \in Int
        BY <1>7, QueueFacts DEF IInv, PlacedInv, Begun, File
    <3>2. CASE r.by = i
        BY <1>1, <1>2, <1>3, <3>1, <3>2 DEF Behind, f
    <3>3. CASE r.by # i
        BY <1>2, <1>3, <3>1, <3>3 DEF Behind
    <3> QED
        BY <3>2, <3>3
  <2>2. ASSUME NEW j \in Search, producer'[j].pc = "send"
        PROVE  producer'[j].at \in Matches[searches'[j].query]
      BY <1>2, <1>3, <2>2 DEF IInv, PlacedInv, Found
  <2> QED
      BY <2>1, <2>2 DEF PlacedInv
<1>11. OnceInv'
    BY <1>2 DEF IInv, OnceInv, Rows, Queued, Held
<1>12. KeptInv'
  <2> SUFFICES ASSUME NEW j \in Search, NEW g \in File, Watching(j), g \in present,
                      g < producer'[j].at, Found(j, g)
               PROVE  [by |-> j, file |-> g] \in Placed
      BY <1>2, <1>7 DEF KeptInv, Watching, Found, Visible
  <2>1. CASE g < producer[j].at
      BY <2>1 DEF IInv, KeptInv
  <2>2. CASE ~(g < producer[j].at)
    <3>1. j = i /\ g = f
        BY <1>1, <1>3, <2>2 DEF f, File
    <3> QED
        BY <1>3, <2>2, <3>1 DEF f
  <2> QED
      BY <2>1, <2>2
<1>13. OwnInv'
    BY <1>1, <1>2, <1>3, <1>7 DEF IInv, OwnInv
<1> QED
    BY <1>8, <1>9, <1>10, <1>11, <1>12, <1>13 DEF IInv

\* What is sent is new, because everything of its search is behind it.
LEMMA SendStep ==
    ASSUME IInv, NEW i \in Search, Send(i)
    PROVE  IInv'
<1> DEFINE f == producer[i].at
           new == [by |-> i, file |-> f]
<1>1. /\ producer[i].pc = "send" /\ f \in File /\ f \in Matches[searches[i].query]
      /\ i \in 1 .. Current
  <2>1. producer[i].pc = "send" /\ f \in File /\ f \in Matches[searches[i].query]
      BY DEF Send, IInv, StepInv, PlacedInv
  <2> QED
      BY <2>1, QueueFacts DEF IInv, StepInv, Search
<1>2. UNCHANGED <<screen, text, table, searches, consumer, showHidden, present, leftover,
                  crashed>>
    BY DEF Send, pageVars
<1>3. producer' = [producer EXCEPT ![i] = [pc |-> "walk", at |-> f + 1]]
      /\ searchResults' = Append(searchResults, new) /\ Len(searchResults) < Cap
    BY DEF Send
<1>4. /\ producer' \in [Search -> [pc : {"off", "walk", "send", "ended"}, at : 1 .. NFiles + 1]]
      /\ producer'[i] = [pc |-> "walk", at |-> f + 1]
      /\ \A j \in Search \ {i} : producer'[j] = producer[j]
  <2>1. f + 1 \in 1 .. NFiles + 1
      BY <1>1, SearchAssumption DEF File
  <2> QED
      BY <1>3, <2>1 DEF IInv, TypeOK
<1>5. new \in Begun
    BY <1>1 DEF Begun
<1>6. new \notin Placed
    BY <1>1 DEF IInv, PlacedInv, Behind, File
<1> HIDE DEF new
<1>7. /\ searchResults' \in Seq(Begun) /\ Len(searchResults') = Len(searchResults) + 1
      /\ searchResults'[Len(searchResults) + 1] = new
      /\ \A k \in 1 .. Len(searchResults) : searchResults'[k] = searchResults[k]
  <2>1. searchResults \in Seq(Begun)
      BY DEF IInv, TypeOK, Begun
  <2> QED
      BY <1>3, <1>5, <2>1, AppendProperties
<1>8. DOMAIN searchResults' = 1 .. Len(searchResults) + 1 /\ Len(searchResults) \in Nat
      /\ DOMAIN searchResults = 1 .. Len(searchResults)
    BY <1>7, QueueFacts, LenProperties DEF IInv
<1>9. Rows' = Rows /\ Queued' = Queued \cup {new} /\ Held' = Held
  <2>1. Rows' = Rows /\ Held' = Held
      BY <1>2 DEF Rows, Held
  <2>2. Queued' \subseteq Queued \cup {new}
      BY <1>7, <1>8 DEF Queued
  <2>3. Queued \cup {new} \subseteq Queued'
    <3>1. new \in Queued'
        BY <1>7, <1>8 DEF Queued
    <3>2. Queued \subseteq Queued'
        BY <1>7, <1>8 DEF Queued
    <3> QED
        BY <3>1, <3>2
  <2> QED
      BY <2>1, <2>2, <2>3
<1>10. Placed' = Placed \cup {new} /\ Begun' = Begun /\ Placed \subseteq Begun /\ Current' = Current
    BY <1>2, <1>9, HeldBegun DEF Placed, Begun, Current, IInv
<1>11. TypeOK'
  <2>1. searchResults' \in Seq(Begun') /\ Len(searchResults') <= Cap
      BY <1>3, <1>7, <1>8, <1>10, SearchAssumption
  <2> QED
      BY <1>2, <1>4, <1>10, <2>1 DEF IInv, TypeOK, Begun
<1>12. StepInv'
  <2>1. ASSUME NEW j \in Search, j > Current'
        PROVE  producer'[j] = [pc |-> "off", at |-> 1] /\ consumer'[j].pc = "off"
    <3>1. j # i
        BY <1>1, <1>8, <1>10, <2>1, QueueFacts DEF IInv
    <3> QED
        BY <1>2, <1>4, <1>10, <2>1, <3>1 DEF IInv, StepInv
  <2>2. ASSUME NEW j \in Search, producer'[j].pc = "send" PROVE producer'[j].at \in File
      BY <1>4, <2>2 DEF IInv, StepInv
  <2>3. \A j \in Search : IF consumer'[j].pc = "append" THEN consumer'[j].got \in Begun'
                          ELSE consumer'[j].got = NoResult
      BY <1>2, <1>10 DEF IInv, StepInv
  <2>4. (screen = "results" => Current > 0 /\ text = searches[Current].query)'
      BY <1>2, <1>10 DEF IInv, StepInv
  <2> QED
      BY <2>1, <2>2, <2>3, <2>4 DEF StepInv
<1>13. PlacedInv'
  <2>1. ASSUME NEW r \in Placed' PROVE Behind(r)'
    <3>1. CASE r = new
        BY <1>1, <1>2, <1>4, <3>1 DEF Behind, new, File
    <3>2. CASE r \in Placed
      <4>1. Behind(r) /\ r.by \in Search /\ r.file \in Int
          BY <1>10, <3>2, QueueFacts DEF IInv, PlacedInv, Begun, File
      <4>2. r.file < producer'[r.by].at
        <5>1. CASE r.by = i
            BY <1>1, <1>4, <4>1, <5>1 DEF Behind, File
        <5>2. CASE r.by # i
            BY <1>4, <4>1, <5>2 DEF Behind
        <5> QED
            BY <5>1, <5>2
      <4> QED
          BY <1>2, <4>1, <4>2 DEF Behind
    <3> QED
        BY <1>10, <3>1, <3>2
  <2>2. ASSUME NEW j \in Search, producer'[j].pc = "send"
        PROVE  producer'[j].at \in Matches[searches'[j].query]
      BY <1>2, <1>4, <2>2 DEF IInv, PlacedInv
  <2> QED
      BY <2>1, <2>2 DEF PlacedInv
<1>14. OnceInv'
  <2>1. \A r \in Rows' : table'[r] = 1
      BY <1>2, <1>9 DEF IInv, OnceInv
  <2>2. ASSUME NEW j \in DOMAIN searchResults', NEW k \in DOMAIN searchResults',
               searchResults'[j] = searchResults'[k]
        PROVE  j = k
    <3>1. \A m \in 1 .. Len(searchResults) : searchResults[m] \in Placed
        BY <1>8 DEF Placed, Queued
    <3>2. CASE j \in 1 .. Len(searchResults) /\ k \in 1 .. Len(searchResults)
        BY <1>7, <1>8, <2>2, <3>2 DEF IInv, OnceInv
    <3>3. CASE j \notin 1 .. Len(searchResults) \/ k \notin 1 .. Len(searchResults)
        BY <1>6, <1>7, <1>8, <2>2, <3>1, <3>3
    <3> QED
        BY <3>2, <3>3
  <2>3. \A j, k \in Search :
            consumer'[j].pc = "append" /\ consumer'[k].pc = "append"
            /\ consumer'[j].got = consumer'[k].got => j = k
      BY <1>2 DEF IInv, OnceInv
  <2>4. Rows' \cap Queued' = {} /\ Rows' \cap Held' = {} /\ Queued' \cap Held' = {}
      BY <1>6, <1>9 DEF IInv, OnceInv, Placed
  <2> QED
      BY <2>1, <2>2, <2>3, <2>4 DEF OnceInv
<1>15. KeptInv'
  <2> SUFFICES ASSUME NEW j \in Search, NEW g \in File, Watching(j), g \in present,
                      g < producer'[j].at, Found(j, g)
               PROVE  [by |-> j, file |-> g] \in Placed'
      BY <1>2, <1>10 DEF KeptInv, Watching, Found, Visible
  <2>1. CASE g < producer[j].at
      BY <1>10, <2>1 DEF IInv, KeptInv
  <2>2. CASE ~(g < producer[j].at)
    <3>1. j = i /\ g = f
        BY <1>1, <1>4, <2>2 DEF File
    <3> QED
        BY <1>10, <3>1 DEF new
  <2> QED
      BY <2>1, <2>2
<1>16. OwnInv'
  <2> SUFFICES ASSUME screen = "results", ~leftover
               PROVE  /\ \A r \in Placed' : r.by = Current
                      /\ \A j \in Search : producer'[j].pc \in {"walk", "send"} => j = Current
      BY <1>2, <1>10 DEF OwnInv
  <2>1. i = Current
      BY <1>1 DEF IInv, OwnInv
  <2> QED
      BY <1>4, <1>10, <2>1 DEF IInv, OwnInv, new
<1> QED
    BY <1>11, <1>12, <1>13, <1>14, <1>15, <1>16 DEF IInv
\* A file that is gone need not be shown; a consumer that ends held nothing.
LEMMA RemoveOrDoneStep ==
    ASSUME IInv, (\E f \in File : RemoveFile(f)) \/ (\E i \in Search : Done(i))
    PROVE  IInv'
<1>1. UNCHANGED <<screen, text, table, searches, producer, searchResults, showHidden, leftover,
                  crashed>>
    BY DEF RemoveFile, Done, pageVars
<1>2. present' \subseteq present
    BY DEF RemoveFile, Done
<1>3. /\ consumer' \in [Search -> [pc : {"off", "select", "append", "ended"},
                                   got : Result \cup {NoResult}]]
      /\ \A j \in Search :
            \/ consumer'[j] = consumer[j]
            \/ consumer[j].pc = "select" /\ consumer'[j].pc = "ended"
               /\ consumer'[j].got = consumer[j].got
  <2>1. CASE \E f \in File : RemoveFile(f)
      BY <2>1 DEF RemoveFile, IInv, TypeOK
  <2>2. CASE \E i \in Search : Done(i)
    <3>1. PICK i \in Search : Done(i)
        BY <2>2
    <3>2. consumer[i].pc = "select" /\ consumer' = [consumer EXCEPT ![i].pc = "ended"]
        BY <3>1 DEF Done
    <3>3. consumer[i] \in [pc : {"off", "select", "append", "ended"}, got : Result \cup {NoResult}]
        BY DEF IInv, TypeOK
    <3>4. consumer'[i] = [pc |-> "ended", got |-> consumer[i].got]
        BY <3>2, <3>3 DEF IInv, TypeOK
    <3>5. \A j \in Search \ {i} : consumer'[j] = consumer[j]
        BY <3>2 DEF IInv, TypeOK
    <3> QED
        BY <3>2, <3>3, <3>4, <3>5 DEF IInv, TypeOK
  <2> QED
      BY <2>1, <2>2
<1>4. \A j \in Search : consumer'[j].pc = "append" <=> consumer[j].pc = "append"
    BY <1>3
<1>5. \A j \in Search : consumer'[j].got = consumer[j].got
    BY <1>3
<1>6. Held' = Held
  <2>1. {j \in Search : consumer'[j].pc = "append"} = {j \in Search : consumer[j].pc = "append"}
      BY <1>4
  <2> QED
      BY <2>1, <1>5 DEF Held
<1>7. Placed' = Placed /\ Begun' = Begun /\ Current' = Current /\ Rows' = Rows /\ Queued' = Queued
    BY <1>1, <1>6 DEF Placed, Rows, Queued, Begun, Current
<1>8. TypeOK'
    BY <1>1, <1>2, <1>3, <1>7 DEF IInv, TypeOK
<1>9. StepInv'
    BY <1>1, <1>3, <1>4, <1>5, <1>7 DEF IInv, StepInv
<1>10. PlacedInv'
    BY <1>1, <1>7 DEF IInv, PlacedInv, Behind
<1>11. OnceInv'
    BY <1>1, <1>4, <1>5, <1>6, <1>7 DEF IInv, OnceInv
<1>12. KeptInv'
    BY <1>1, <1>2, <1>7 DEF IInv, KeptInv, Watching, Found, Visible
<1>13. OwnInv'
    BY <1>1, <1>7 DEF IInv, OwnInv
<1> QED
    BY <1>8, <1>9, <1>10, <1>11, <1>12, <1>13 DEF IInv

\* A result passes from the channel to the hands of a consumer, of any search.
LEMMA ReceiveStep ==
    ASSUME IInv, NEW i \in Search, Receive(i)
    PROVE  IInv'
<1> DEFINE r == Head(searchResults)
           n == Len(searchResults)
<1>1. UNCHANGED <<screen, text, table, searches, producer, showHidden, present, leftover,
                  crashed>>
    BY DEF Receive, pageVars
<1>2. /\ consumer[i].pc = "select" /\ searchResults # <<>> /\ searchResults' = Tail(searchResults)
      /\ consumer' = [consumer EXCEPT ![i] = [pc |-> "append", got |-> r]]
    BY DEF Receive
<1>3. searchResults \in Seq(Begun) /\ n \in Nat \ {0} /\ DOMAIN searchResults = 1 .. n
  <2>1. searchResults \in Seq(Begun) /\ n \in Nat /\ DOMAIN searchResults = 1 .. n
      BY QueueFacts DEF IInv, TypeOK, Begun
  <2> QED
      BY <1>2, <2>1, EmptySeq
<1>4. /\ r = searchResults[1] /\ r \in Begun
      /\ searchResults' \in Seq(Begun) /\ DOMAIN searchResults' = 1 .. n - 1
      /\ Len(searchResults') = n - 1
      /\ \A k \in 1 .. n - 1 : searchResults'[k] = searchResults[k + 1]
  <2>1. /\ r = searchResults[1] /\ searchResults' \in Seq(Begun) /\ Len(searchResults') = n - 1
        /\ \A k \in 1 .. Len(searchResults') : searchResults'[k] = searchResults[k + 1]
      BY <1>2, <1>3, HeadTailProperties
  <2>2. DOMAIN searchResults' = 1 .. n - 1
      BY <2>1, LenProperties
  <2>3. searchResults[1] \in Begun
      BY <1>3, ElementOfSeq
  <2> QED
      BY <2>1, <2>2, <2>3
<1> HIDE DEF r, n
<1>5. \A x \in Begun : x \in Result
    BY QueueFacts DEF Begun, Result, IInv
<1>6. /\ consumer' \in [Search -> [pc : {"off", "select", "append", "ended"},
                                   got : Result \cup {NoResult}]]
      /\ consumer'[i] = [pc |-> "append", got |-> r]
      /\ \A j \in Search \ {i} : consumer'[j] = consumer[j]
    BY <1>2, <1>4, <1>5 DEF IInv, TypeOK
<1>7. i \in 1 .. Current
    BY <1>2, QueueFacts DEF IInv, StepInv, Search
<1>8. Queued' = Queued \ {r} /\ r \in Queued
  <2>1. r \in Queued
      BY <1>3, <1>4 DEF Queued
  <2>2. ASSUME NEW x \in Queued' PROVE x \in Queued /\ x # r
    <3>1. PICK k \in 1 .. n - 1 : x = searchResults[k + 1]
        BY <1>4 DEF Queued
    <3>2. k + 1 \in 1 .. n /\ 1 \in 1 .. n /\ k + 1 # 1
        BY <1>3
    <3> QED
        BY <1>3, <1>4, <3>1, <3>2 DEF IInv, OnceInv, Queued
  <2>3. ASSUME NEW x \in Queued, x # r PROVE x \in Queued'
    <3>1. PICK k \in 1 .. n : x = searchResults[k]
        BY <1>3 DEF Queued
    <3>2. k # 1
        BY <1>4, <2>3, <3>1
    <3>3. k - 1 \in 1 .. n - 1 /\ (k - 1) + 1 = k
        BY <1>3, <3>2
    <3>4. searchResults'[k - 1] = x
        BY <1>4, <3>1, <3>3
    <3> QED
        BY <1>4, <3>3, <3>4 DEF Queued
  <2> QED
      BY <2>1, <2>2, <2>3
<1>9. Held' = Held \cup {r}
  <2>1. ASSUME NEW x \in Held' PROVE x \in Held \cup {r}
      BY <1>6 DEF Held
  <2>2. r \in Held'
      BY <1>6 DEF Held
  <2>3. ASSUME NEW x \in Held PROVE x \in Held'
    <3>1. PICK j \in Search : consumer[j].pc = "append" /\ consumer[j].got = x
        BY DEF Held
    <3>2. j # i
        BY <1>2, <3>1
    <3> QED
        BY <1>6, <3>1, <3>2 DEF Held
  <2> QED
      BY <2>1, <2>2, <2>3
<1>10. Placed' = Placed /\ Rows' = Rows /\ Begun' = Begun /\ Current' = Current
    BY <1>1, <1>8, <1>9 DEF Placed, Rows, Begun, Current
<1>11. TypeOK'
  <2>1. Len(searchResults') <= Cap
      BY <1>3, <1>4, SearchAssumption DEF IInv, TypeOK, n
  <2>2. searchResults' \in Seq(Begun')
      BY <1>4, <1>10
  <2> QED
      BY <1>1, <1>6, <1>10, <2>1, <2>2 DEF IInv, TypeOK, Begun
<1>12. StepInv'
  <2>1. ASSUME NEW j \in Search, j > Current'
        PROVE  producer'[j] = [pc |-> "off", at |-> 1] /\ consumer'[j].pc = "off"
    <3>1. j # i
        BY <1>7, <1>10, <2>1, QueueFacts DEF IInv
    <3> QED
        BY <1>1, <1>6, <1>10, <2>1, <3>1 DEF IInv, StepInv
  <2>2. \A j \in Search : producer'[j].pc = "send" => producer'[j].at \in File
      BY <1>1 DEF IInv, StepInv
  <2>3. ASSUME NEW j \in Search
        PROVE  IF consumer'[j].pc = "append" THEN consumer'[j].got \in Begun'
               ELSE consumer'[j].got = NoResult
      BY <1>4, <1>6, <1>10 DEF IInv, StepInv
  <2>4. (screen = "results" => Current > 0 /\ text = searches[Current].query)'
      BY <1>1, <1>10 DEF IInv, StepInv
  <2> QED
      BY <2>1, <2>2, <2>3, <2>4 DEF StepInv
<1>13. PlacedInv'
    BY <1>1, <1>10 DEF IInv, PlacedInv, Behind
<1>14. OnceInv'
  <2>1. \A x \in Rows' : table'[x] = 1
      BY <1>1, <1>10 DEF IInv, OnceInv
  <2>2. ASSUME NEW j \in DOMAIN searchResults', NEW k \in DOMAIN searchResults',
               searchResults'[j] = searchResults'[k]
        PROVE  j = k
    <3>1. j \in Int /\ k \in Int /\ j + 1 \in 1 .. n /\ k + 1 \in 1 .. n
        BY <1>3, <1>4
    <3>2. searchResults[j + 1] = searchResults[k + 1]
        BY <1>4, <2>2
    <3>3. j + 1 = k + 1
        BY <1>3, <3>1, <3>2 DEF IInv, OnceInv
    <3> QED
        BY <3>1, <3>3
  <2>3. ASSUME NEW j \in Search, NEW k \in Search, consumer'[j].pc = "append",
               consumer'[k].pc = "append", consumer'[j].got = consumer'[k].got
        PROVE  j = k
    <3>1. r \notin Held
        BY <1>8 DEF IInv, OnceInv
    <3>2. \A m \in Search \ {i} : consumer'[m].pc = "append" => consumer'[m].got # r
        BY <1>6, <3>1 DEF Held
    <3> QED
        BY <1>6, <2>3, <3>2 DEF IInv, OnceInv
  <2>4. Rows' \cap Queued' = {} /\ Rows' \cap Held' = {} /\ Queued' \cap Held' = {}
      BY <1>8, <1>9, <1>10 DEF IInv, OnceInv
  <2> QED
      BY <2>1, <2>2, <2>3, <2>4 DEF OnceInv
<1>15. KeptInv'
    BY <1>1, <1>10 DEF IInv, KeptInv, Watching, Found, Visible
<1>16. OwnInv'
    BY <1>1, <1>10 DEF IInv, OwnInv
<1> QED
    BY <1>11, <1>12, <1>13, <1>14, <1>15, <1>16 DEF IInv
\* A held result becomes a row, or is dropped with its file.
LEMMA AppendStep ==
    ASSUME IInv, NEW i \in Search, AppendSearchResult(i)
    PROVE  IInv'
<1> DEFINE r == consumer[i].got
<1>1. UNCHANGED <<screen, text, searches, producer, searchResults, showHidden, present, leftover,
                  crashed>>
    BY DEF AppendSearchResult
<1>2. /\ consumer[i].pc = "append"
      /\ consumer' = [consumer EXCEPT ![i] = [pc |-> "select", got |-> NoResult]]
      /\ table' = IF r.file \in present THEN table (+) SetToBag({r}) ELSE table
    BY DEF AppendSearchResult
<1>3. r \in Held /\ r \in Begun /\ r \notin Rows /\ r \notin Queued
    BY <1>2 DEF Held, IInv, StepInv, OnceInv
<1>4. /\ consumer' \in [Search -> [pc : {"off", "select", "append", "ended"},
                                   got : Result \cup {NoResult}]]
      /\ consumer'[i] = [pc |-> "select", got |-> NoResult]
      /\ \A j \in Search \ {i} : consumer'[j] = consumer[j]
    BY <1>2 DEF IInv, TypeOK
<1>5. i \in 1 .. Current
    BY <1>2, QueueFacts DEF IInv, StepInv, Search
<1>6. \A j \in Search \ {i} : consumer[j].pc = "append" => consumer[j].got # r
    BY <1>2 DEF IInv, OnceInv
<1> HIDE DEF r
<1>7. Held' = Held \ {r}
  <2>1. ASSUME NEW x \in Held' PROVE x \in Held /\ x # r
    <3>1. PICK j \in Search : consumer'[j].pc = "append" /\ consumer'[j].got = x
        BY DEF Held
    <3>2. j # i
        BY <1>4, <3>1
    <3> QED
        BY <1>4, <1>6, <3>1, <3>2 DEF Held
  <2>2. ASSUME NEW x \in Held, x # r PROVE x \in Held'
    <3>1. PICK j \in Search : consumer[j].pc = "append" /\ consumer[j].got = x
        BY DEF Held
    <3>2. j # i
        BY <2>2, <3>1 DEF r
    <3> QED
        BY <1>4, <3>1, <3>2 DEF Held
  <2> QED
      BY <2>1, <2>2
<1>8. /\ IsABag(table') /\ Rows' = IF r.file \in present THEN Rows \cup {r} ELSE Rows
      /\ \A x \in Rows' : table'[x] = 1
  <2>1. IsABag(table) /\ \A x \in Rows : table[x] = 1
      BY DEF IInv, TypeOK, OnceInv
  <2>2. CASE r.file \in present
    <3>1. table' = table (+) SetToBag({r})
        BY <1>2, <2>2
    <3>2. IsABag(table') /\ DOMAIN table' = Rows \cup {r}
          /\ table'[r] = 1 /\ \A x \in Rows : table'[x] = table[x]
        BY <1>3, <2>1, <3>1, RowAdded
    <3> QED
        BY <2>1, <2>2, <3>2 DEF Rows
  <2>3. CASE r.file \notin present
      BY <1>2, <2>1, <2>3 DEF Rows
  <2> QED
      BY <2>2, <2>3
<1>9. Queued' = Queued /\ Begun' = Begun /\ Current' = Current
    BY <1>1 DEF Queued, Begun, Current
<1>10. Placed' \subseteq Placed /\ Placed \subseteq Begun
       /\ \A x \in Placed : x \in Placed' \/ x.file \notin present
  <2>1. Placed \subseteq Begun
      BY HeldBegun DEF IInv
  <2> QED
      BY <1>3, <1>7, <1>8, <1>9, <2>1 DEF Placed
<1>11. TypeOK'
  <2>1. BagToSet(table') \subseteq Begun'
      BY <1>8, <1>9, <1>10 DEF BagToSet, Rows, Placed
  <2> QED
      BY <1>1, <1>4, <1>8, <1>9, <2>1 DEF IInv, TypeOK, Begun
<1>12. StepInv'
  <2>1. ASSUME NEW j \in Search, j > Current'
        PROVE  producer'[j] = [pc |-> "off", at |-> 1] /\ consumer'[j].pc = "off"
    <3>1. j # i
        BY <1>5, <1>9, <2>1, QueueFacts DEF IInv
    <3> QED
        BY <1>1, <1>4, <1>9, <2>1, <3>1 DEF IInv, StepInv
  <2>2. \A j \in Search : producer'[j].pc = "send" => producer'[j].at \in File
      BY <1>1 DEF IInv, StepInv
  <2>3. ASSUME NEW j \in Search
        PROVE  IF consumer'[j].pc = "append" THEN consumer'[j].got \in Begun'
               ELSE consumer'[j].got = NoResult
      BY <1>4, <1>9 DEF IInv, StepInv
  <2>4. (screen = "results" => Current > 0 /\ text = searches[Current].query)'
      BY <1>1, <1>9 DEF IInv, StepInv
  <2> QED
      BY <2>1, <2>2, <2>3, <2>4 DEF StepInv
<1>13. PlacedInv'
    BY <1>1, <1>10 DEF IInv, PlacedInv, Behind
<1>14. OnceInv'
  <2>1. \A j, k \in DOMAIN searchResults' : searchResults'[j] = searchResults'[k] => j = k
      BY <1>1 DEF IInv, OnceInv
  <2>2. ASSUME NEW j \in Search, NEW k \in Search, consumer'[j].pc = "append",
               consumer'[k].pc = "append", consumer'[j].got = consumer'[k].got
        PROVE  j = k
    <3>1. j # i /\ k # i
        BY <1>4, <2>2
    <3> QED
        BY <1>4, <2>2, <3>1 DEF IInv, OnceInv
  <2>3. Rows' \cap Queued' = {} /\ Rows' \cap Held' = {} /\ Queued' \cap Held' = {}
      BY <1>3, <1>7, <1>8, <1>9 DEF IInv, OnceInv
  <2> QED
      BY <1>8, <2>1, <2>2, <2>3 DEF OnceInv
<1>15. KeptInv'
    BY <1>1, <1>9, <1>10 DEF IInv, KeptInv, Watching, Found, Visible
<1>16. OwnInv'
    BY <1>1, <1>9, <1>10 DEF IInv, OwnInv
<1> QED
    BY <1>11, <1>12, <1>13, <1>14, <1>15, <1>16 DEF IInv

-----------------------------------------------------------------------------

LEMMA InitIInv == Init => IInv
<1> SUFFICES ASSUME Init PROVE IInv
    OBVIOUS
<1>1. searches = <<>> /\ searchResults = <<>> /\ table = EmptyBag
    BY DEF Init
<1>2. Current = 0 /\ Len(searchResults) = 0 /\ DOMAIN searchResults = {}
    BY <1>1, EmptySeq DEF Current
<1>3. Rows = {} /\ Queued = {} /\ Held = {}
    BY <1>1, <1>2, NoRows DEF Rows, Queued, Held, Init
<1>4. TypeOK
  <2>1. IsABag(table) /\ BagToSet(table) = {}
      BY <1>1, NoRows DEF BagToSet
  <2>2. searches \in Seq(SearchState) /\ searchResults \in Seq([by : 1 .. Current, file : File])
      BY <1>1, EmptySeq
  <2>3. producer \in [Search -> [pc : {"off", "walk", "send", "ended"}, at : 1 .. NFiles + 1]]
      BY SearchAssumption DEF Init
  <2>4. Current <= MaxSearches /\ Len(searchResults) <= Cap
      BY <1>2, SearchAssumption
  <2> QED
      BY <2>1, <2>2, <2>3, <2>4 DEF Init, TypeOK
<1>5. StepInv
    BY DEF Init, StepInv
<1>6. PlacedInv
    BY <1>3 DEF Init, PlacedInv, Placed
<1>7. OnceInv
    BY <1>2, <1>3 DEF Init, OnceInv
<1>8. KeptInv
    BY DEF Init, KeptInv, Watching
<1>9. OwnInv
    BY DEF Init, OwnInv
<1> QED
    BY <1>4, <1>5, <1>6, <1>7, <1>8, <1>9 DEF IInv

LEMMA NextIInv == IInv /\ [Next]_vars => IInv'
<1> SUFFICES ASSUME IInv, [Next]_vars PROVE IInv'
    OBVIOUS
<1>1. ASSUME UNCHANGED vars PROVE IInv'
  <2>1. UNCHANGED <<Rows, Queued, Held, Begun, Placed, Current>>
      BY <1>1 DEF vars, pageVars, Rows, Queued, Held, Begun, Placed, Current
  <2> QED
      BY <1>1, <2>1 DEF vars, pageVars, IInv, TypeOK, StepInv, PlacedInv, Behind, OnceInv, KeptInv,
         Watching, Found, Visible, OwnInv
<1>2. ASSUME NEW q \in Query, ProcessSearch(q) PROVE IInv'
    BY <1>2, BeginStep
<1>3. ASSUME ClearQuery \/ EnterRow \/ GotoStep \/ BuildUpload \/ ToggleHidden PROVE IInv'
    BY <1>3, PageStep
<1>4. ASSUME NEW i \in Search, Producer(i) PROVE IInv'
    BY <1>4, VisitStep, SendStep DEF Producer
<1>5. ASSUME NEW i \in Search, Consumer(i) PROVE IInv'
    BY <1>5, RemoveOrDoneStep, ReceiveStep, AppendStep DEF Consumer
<1>6. ASSUME NEW f \in File, RemoveFile(f) PROVE IInv'
    BY <1>6, RemoveOrDoneStep
<1> QED
    BY <1>1, <1>2, <1>3, <1>4, <1>5, <1>6 DEF Next, Key, GotoStep

\* The invariant of the search is inductive.
THEOREM Inductive == Spec => []IInv
    BY InitIInv, NextIInv, PTL DEF Spec

\* The channel is never over its capacity, only results of searches begun
\* travel, and the rest is well formed.
THEOREM TypeCorrect == Spec => []TypeOK
<1>1. IInv => TypeOK
    BY DEF IInv
<1> QED
    BY <1>1, Inductive, PTL

\* Unless a search began over what an earlier one had under way, every row on
\* the screen answers the query above it.
THEOREM RowsAnswer == Spec => []RowsAnswerTheQuery
<1>1. IInv => RowsAnswerTheQuery
  <2> SUFFICES ASSUME IInv, screen = "results", ~leftover, NEW r \in Rows
               PROVE  r.by = Current /\ r.file \in Matches[text]
      BY DEF RowsAnswerTheQuery, Rows, BagToSet
  <2>1. r \in Placed
      BY DEF Placed
  <2>2. r.by = Current /\ r.file \in Matches[searches[r.by].query]
      BY <2>1 DEF IInv, OwnInv, PlacedInv, Behind
  <2> QED
      BY <2>2 DEF IInv, StepInv
<1> QED
    BY <1>1, Inductive, PTL

\* A result is counted where it is, and nowhere else.
LEMMA OneCopy ==
    ASSUME IInv, NEW r \in Result
    PROVE  Copies(r) = IF r \in Placed THEN 1 ELSE 0
<1> DEFINE Rowed == IF BagIn(r, table) THEN table[r] ELSE 0
           Sent  == {k \in DOMAIN searchResults : searchResults[k] = r}
           Hands == {i \in Search : consumer[i].got = r}
<1>1. Rowed = IF r \in Rows THEN 1 ELSE 0
    BY DEF BagIn, BagToSet, Rows, IInv, OnceInv
<1>2. Cardinality(Sent) = IF r \in Queued THEN 1 ELSE 0
  <2>1. ASSUME r \notin Queued PROVE Sent = {}
      BY <2>1 DEF Queued
  <2>2. ASSUME r \in Queued PROVE \E k : Sent = {k}
    <3>1. PICK k \in DOMAIN searchResults : searchResults[k] = r
        BY <2>2 DEF Queued
    <3>2. \A j \in Sent : j = k
        BY <3>1 DEF IInv, OnceInv
    <3> QED
        BY <3>1, <3>2
  <2> QED
      BY <2>1, <2>2, FS_EmptySet, FS_Singleton
<1>3. Cardinality(Hands) = IF r \in Held THEN 1 ELSE 0
  <2>1. r # NoResult
      BY SearchAssumption DEF Result, NoResult, Search
  <2>2. \A i \in Hands : consumer[i].pc = "append"
      BY <2>1 DEF IInv, StepInv
  <2>3. ASSUME r \notin Held PROVE Hands = {}
      BY <2>2, <2>3 DEF Held
  <2>4. ASSUME r \in Held PROVE \E i : Hands = {i}
    <3>1. PICK i \in Search : consumer[i].pc = "append" /\ consumer[i].got = r
        BY <2>4 DEF Held
    <3>2. \A j \in Hands : j = i
        BY <2>2, <3>1 DEF IInv, OnceInv
    <3> QED
        BY <3>1, <3>2
  <2> QED
      BY <2>3, <2>4, FS_EmptySet, FS_Singleton
<1>4. Copies(r) = Rowed + Cardinality(Sent) + Cardinality(Hands)
    BY DEF Copies
<1>5. Rows \cap Queued = {} /\ Rows \cap Held = {} /\ Queued \cap Held = {}
    BY DEF IInv, OnceInv
<1> HIDE DEF Rowed, Sent, Hands
<1> QED
    BY <1>1, <1>2, <1>3, <1>4, <1>5 DEF Placed

\* What the search on the screen found is on its way to the table or in it, once,
\* whichever consumers took it, unless the file is gone.
THEOREM FoundAreOnce == Spec => []FoundOnce
<1>1. IInv => FoundOnce
  <2> SUFFICES ASSUME IInv, NEW i \in Search, NEW f \in File, Watching(i)
               PROVE  /\ Copies([by |-> i, file |-> f]) <= 1
                      /\ f \in present /\ f < producer[i].at /\ Found(i, f)
                         => Copies([by |-> i, file |-> f]) = 1
      BY DEF FoundOnce
  <2>1. [by |-> i, file |-> f] \in Result
      BY DEF Result
  <2> QED
      BY <2>1, OneCopy DEF IInv, KeptInv
<1> QED
    BY <1>1, Inductive, PTL
-----------------------------------------------------------------------------
(* What is left when no goroutine can go on. *)

\* What the two goroutines of a search wait for, written out.
ProducerGoesOn(i) ==
    producer[i].pc = "walk" \/ (producer[i].pc = "send" /\ Len(searchResults) < Cap)

ConsumerGoesOn(i) ==
    \/ consumer[i].pc = "append"
    \/ consumer[i].pc = "select" /\ (searches[i].done \/ searchResults # <<>>)

AtRest == \A i \in Search : ~ProducerGoesOn(i) /\ ~ConsumerGoesOn(i)

\* When no goroutine of any search can go on, the search on the screen shows all
\* that it should find: it never waits for room that nobody makes, and no file
\* is left in the channel or to somebody who has ended.
RestShowsAll ==
    AtRest => \A i \in Search, f \in File :
                  Watching(i) /\ f \in present /\ Found(i, f) => Shown(i, f)

\* When no goroutine can go on and a search is not cancelled, the goroutines of
\* the searches before it have ended: none waits on the channel.
RestLeavesNobody ==
    AtRest /\ Live =>
        \A i \in 1 .. Current - 1 : producer[i].pc = "ended" /\ consumer[i].pc = "ended"

\* A search that was begun has its goroutines; its consumer ends when its context
\* is done, and the next search sees to that.
BegunInv ==
    \A i \in 1 .. Current :
        /\ producer[i].pc # "off" /\ consumer[i].pc # "off"
        /\ consumer[i].pc = "ended" => searches[i].done
        /\ i < Current => searches[i].done

\* The search on the screen is not cancelled, and its producer ends only when it
\* has gone past every file.
LiveInv ==
    \A i \in 1 .. Current : Watching(i) =>
        /\ ~searches[i].done
        /\ producer[i].pc = "ended" => producer[i].at = NFiles + 1

LEMMA BeginLive ==
    ASSUME IInv, BegunInv, NEW q \in Query, ProcessSearch(q)
    PROVE  BegunInv' /\ LiveInv'
<1> DEFINE n == Current + 1
           state == [query |-> q, done |-> FALSE]
<1>1. /\ searches' = Append(CancelCurrent, state)
      /\ consumer' = [consumer EXCEPT ![n].pc = "select"]
      /\ producer' = [producer EXCEPT ![n].pc = "walk"]
      /\ Current \in Nat /\ n \in Search
  <2>1. Current \in Nat
      BY QueueFacts DEF IInv
  <2>2. Current < MaxSearches
      BY DEF ProcessSearch, Begin
  <2> QED
      BY <2>1, <2>2, SearchAssumption DEF ProcessSearch, Begin, Search
<1>2. /\ Current' = n /\ searches'[n] = state
      /\ \A i \in 1 .. Current : searches'[i].done = (searches[i].done \/ i = Current)
  <2>1. state \in SearchState
      BY DEF SearchState
  <2>2. /\ Len(searches') = n /\ searches'[n] = state
        /\ \A i \in 1 .. Current : searches'[i] = CancelCurrent[i]
      BY <1>1, <2>1, CancelFacts, AppendProperties DEF IInv
  <2> QED
      BY <2>2, CancelFacts DEF Current, IInv
<1>3. /\ producer'[n].pc = "walk" /\ consumer'[n].pc = "select"
      /\ \A i \in Search \ {n} : producer'[i] = producer[i] /\ consumer'[i] = consumer[i]
    BY <1>1 DEF IInv, TypeOK
<1>4. \A i \in 1 .. n : i = n \/ i \in 1 .. Current
    BY <1>1
<1>5. ASSUME NEW i \in 1 .. Current
      PROVE  /\ producer'[i].pc # "off" /\ consumer'[i].pc # "off"
             /\ searches'[i].done
  <2>1. i # n /\ i \in Search /\ (i < Current \/ i = Current)
      BY <1>1, QueueFacts DEF IInv
  <2> QED
      BY <1>2, <1>3, <2>1 DEF BegunInv
<1> HIDE DEF n
<1>6. BegunInv'
  <2> SUFFICES ASSUME NEW i \in 1 .. n
               PROVE  /\ producer'[i].pc # "off" /\ consumer'[i].pc # "off"
                      /\ consumer'[i].pc = "ended" => searches'[i].done
                      /\ i < n => searches'[i].done
      BY <1>2 DEF BegunInv
  <2>1. CASE i = n
      BY <1>1, <1>3, <2>1 DEF n
  <2>2. CASE i \in 1 .. Current
      BY <1>5, <2>2
  <2> QED
      BY <1>4, <2>1, <2>2
<1>7. LiveInv'
    BY <1>2, <1>3 DEF LiveInv, Watching
<1> QED
    BY <1>6, <1>7

LEMMA NextLive == IInv /\ BegunInv /\ LiveInv /\ [Next]_vars => BegunInv' /\ LiveInv'
<1> SUFFICES ASSUME IInv, BegunInv, LiveInv, [Next]_vars PROVE BegunInv' /\ LiveInv'
    OBVIOUS
<1>0. \A i \in 1 .. Current : i \in Search
    BY QueueFacts DEF IInv
<1>1. ASSUME NEW q \in Query, ProcessSearch(q) PROVE BegunInv' /\ LiveInv'
    BY <1>1, BeginLive
<1>2. CASE ClearQuery \/ EnterRow \/ GotoStep \/ BuildUpload \/ ToggleHidden
  <2>1. screen' # "results" \/ UNCHANGED <<screen, searches>>
      BY <1>2 DEF ClearQuery, EnterRow, GotoStep, EnterFile, CancelForm, ConfirmUpload, LeavePage,
         Goto, BuildUpload, ToggleHidden, pageVars
  <2>2. UNCHANGED <<producer, consumer>> /\ (searches' = searches \/ searches' = CancelCurrent)
      BY <1>2 DEF ClearQuery, EnterRow, GotoStep, EnterFile, CancelForm, ConfirmUpload, LeavePage,
         Goto, BuildUpload, ToggleHidden, pageVars
  <2>3. Current' = Current /\ \A i \in 1 .. Current : searches[i].done => searches'[i].done
      BY <2>2, CancelFacts DEF IInv, Current
  <2>4. BegunInv'
      BY <2>2, <2>3 DEF BegunInv
  <2>5. LiveInv'
      BY <2>1, <2>2, <2>3 DEF LiveInv, Watching
  <2> QED
      BY <2>4, <2>5
<1>3. ASSUME NEW i \in Search, Visit(i) PROVE BegunInv' /\ LiveInv'
  <2>1. UNCHANGED <<screen, searches, consumer>>
      BY <1>3 DEF Visit, pageVars
  <2>2. \A j \in Search \ {i} : producer'[j] = producer[j]
      BY <1>3 DEF Visit, IInv, TypeOK
  <2>3. /\ producer'[i].pc # "off"
        /\ producer'[i].pc = "ended" => searches[i].done \/ producer'[i].at > NFiles
      BY <1>3 DEF Visit, IInv, TypeOK
  <2>4. producer'[i].pc = "ended" => producer'[i].at = producer[i].at
      BY <1>3 DEF Visit, IInv, TypeOK
  <2>5. producer[i].at \in 1 .. NFiles + 1
      BY DEF IInv, TypeOK
  <2>6. producer'[i].pc = "ended" => searches[i].done \/ producer'[i].at = NFiles + 1
      BY <2>3, <2>4, <2>5, SearchAssumption
  <2> QED
      BY <1>0, <2>1, <2>2, <2>3, <2>6 DEF BegunInv, LiveInv, Watching, Current
<1>4. ASSUME NEW i \in Search, Send(i) PROVE BegunInv' /\ LiveInv'
  <2>1. UNCHANGED <<screen, searches, consumer>>
      BY <1>4 DEF Send, pageVars
  <2>2. /\ \A j \in Search \ {i} : producer'[j] = producer[j]
        /\ producer'[i].pc = "walk"
      BY <1>4 DEF Send, IInv, TypeOK
  <2> QED
      BY <1>0, <2>1, <2>2 DEF BegunInv, LiveInv, Watching, Current
<1>5. ASSUME NEW i \in Search, Consumer(i) PROVE BegunInv' /\ LiveInv'
  <2>1. UNCHANGED <<screen, searches, producer>>
      BY <1>5 DEF Consumer, Done, Receive, AppendSearchResult, pageVars
  <2>2. /\ \A j \in Search \ {i} : consumer'[j] = consumer[j]
        /\ consumer'[i].pc \in {"select", "append", "ended"}
        /\ consumer'[i].pc = "ended" => searches[i].done
      BY <1>5 DEF Consumer, Done, Receive, AppendSearchResult, IInv, TypeOK
  <2> QED
      BY <1>0, <2>1, <2>2 DEF BegunInv, LiveInv, Watching, Current
<1>6. CASE (\E f \in File : RemoveFile(f)) \/ UNCHANGED vars
  <2>1. UNCHANGED <<screen, searches, producer, consumer>>
      BY <1>6 DEF RemoveFile, vars, pageVars
  <2> QED
      BY <2>1 DEF BegunInv, LiveInv, Watching, Current
<1> QED
    BY <1>1, <1>2, <1>3, <1>4, <1>5, <1>6 DEF Next, Key, GotoStep, Producer

LEMMA LiveInductive == Spec => [](BegunInv /\ LiveInv)
<1>1. Init => BegunInv /\ LiveInv
  <2> SUFFICES ASSUME Init PROVE 1 .. Current = {}
      BY DEF BegunInv, LiveInv
  <2>1. Current = 0
      BY EmptySeq DEF Init, Current
  <2> QED
      BY <2>1
<1> QED
    BY <1>1, NextLive, Inductive, PTL DEF Spec

\* While a search is not cancelled, its consumer empties the channel, for all.
LEMMA RestIsEmpty ==
    ASSUME IInv, BegunInv, AtRest, NEW i \in 1 .. Current, ~searches[i].done
    PROVE  searchResults = <<>> /\ \A j \in 1 .. Current : producer[j].pc = "ended"
<1>0. \A j \in 1 .. Current : j \in Search
    BY QueueFacts DEF IInv
<1>1. consumer[i].pc = "select"
    BY <1>0 DEF BegunInv, AtRest, ConsumerGoesOn, IInv, TypeOK
<1>2. searchResults = <<>>
    BY <1>0, <1>1 DEF AtRest, ConsumerGoesOn
<1>3. Len(searchResults) < Cap
    BY <1>2, EmptySeq, SearchAssumption
<1>4. ASSUME NEW j \in 1 .. Current PROVE producer[j].pc = "ended"
    BY <1>0, <1>3 DEF BegunInv, AtRest, ProducerGoesOn, IInv, TypeOK
<1> QED
    BY <1>2, <1>4

\* When no goroutine can go on, everything that the search on the screen should
\* find is shown: for any number of files and searches and any capacity, a
\* channel full of old results never keeps the new ones away.
THEOREM RestShows == Spec => []RestShowsAll
<1>1. IInv /\ BegunInv /\ LiveInv => RestShowsAll
  <2> SUFFICES ASSUME IInv, BegunInv, LiveInv, AtRest, NEW i \in Search, NEW f \in File,
                      Watching(i), f \in present, Found(i, f)
               PROVE  Shown(i, f)
      BY DEF RestShowsAll
  <2>1. i \in 1 .. Current /\ ~searches[i].done
      BY QueueFacts DEF Watching, LiveInv, Search, IInv
  <2>2. searchResults = <<>> /\ producer[i].pc = "ended"
      BY <2>1, RestIsEmpty
  <2>3. Queued = {} /\ Held = {}
      BY <2>2, EmptySeq DEF Queued, Held, AtRest, ConsumerGoesOn
  <2>4. f < producer[i].at
      BY <2>1, <2>2, SearchAssumption DEF LiveInv, File
  <2>5. [by |-> i, file |-> f] \in Placed
      BY <2>4 DEF IInv, KeptInv
  <2> QED
      BY <2>3, <2>5 DEF Placed, Rows, Shown, BagIn, BagToSet
<1> QED
    BY <1>1, Inductive, LiveInductive, PTL

\* No goroutine of a search that another one replaced waits on the channel when
\* nothing else goes on, as long as there is a search that is not cancelled.
THEOREM ReplacedLeave == Spec => []RestLeavesNobody
<1>1. IInv /\ BegunInv => RestLeavesNobody
  <2> SUFFICES ASSUME IInv, BegunInv, AtRest, Live, NEW i \in 1 .. Current - 1
               PROVE  producer[i].pc = "ended" /\ consumer[i].pc = "ended"
      BY DEF RestLeavesNobody
  <2>1. Current \in 1 .. Current /\ ~searches[Current].done /\ i \in 1 .. Current /\ i < Current
      BY QueueFacts DEF Live, IInv
  <2>2. producer[i].pc = "ended"
      BY <2>1, RestIsEmpty
  <2>3. consumer[i].pc = "ended"
    <3>1. i \in Search /\ searches[i].done /\ consumer[i].pc # "off"
        BY <2>1, QueueFacts DEF BegunInv, IInv
    <3> QED
        BY <3>1 DEF AtRest, ConsumerGoesOn, IInv, TypeOK
  <2> QED
      BY <2>2, <2>3
<1> QED
    BY <1>1, Inductive, LiveInductive, PTL
=============================================================================
