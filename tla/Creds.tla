-------------------------------- MODULE Creds --------------------------------
(***************************************************************************)
(* The remembered credentials (stages/entry/creds.go): a JSON file with an *)
(* entry per bucket key, and the system's keyring, which holds the         *)
(* passwords under the entries' indices.  The open page (entry/tui/        *)
(* open.go) reads and writes the file in the event loop, login goroutines  *)
(* write it when "Remember?" is ticked, every operation reads the whole    *)
(* file and writes it, and no lock is held in between.  A login            *)
(* takes the focus away, but only once its goroutine runs, and an expired  *)
(* session gives it back: operations can overlap.                          *)
(*                                                                         *)
(* A password is named by the bucket key it was entered with.  The keyring *)
(* and the file system are external.                                       *)
(***************************************************************************)
EXTENDS Integers, SequencesExt

CONSTANTS Key, NoKey,       \* bucket keys, and what is none
          Login,            \* login goroutines with "Remember?" ticked
          Loop,             \* the event loop
          MaxIdx,           \* indices Set may draw (a bound)
          MaxUsed,          \* where the count of uses is cut off (a bound)
          Absent,           \* the file does not exist
          Empty, Garbled    \* its content is no valid JSON

ASSUME CredsAssumption ==
    /\ Loop \notin Login /\ NoKey \notin Key /\ Absent \notin {Empty, Garbled}
    /\ MaxIdx \in Nat /\ MaxUsed \in Nat \ {0}

Proc == Login \cup {Loop}
Idx  == 1 .. MaxIdx

VARIABLES
    file,                   \* CREDS_FILE_PATH
    keyring,                \* per index: the password held, by its bucket key
    drawn,                  \* how many indices were drawn
    pc, op, key, idx, list, \* per process: step, operation, its operands, entries
    options,                \* the keys in the drop-down of the open page
    saved,                  \* history: keys whose Set has returned
    disturbed               \* history: operations overlapped or were cut short

procVars == <<pc, op, key, idx, list>>
vars == <<file, keyring, drawn, procVars, options, saved, disturbed>>

Idle == \A p \in Proc : pc[p] = "off"

Init ==
    /\ file = Absent
    /\ keyring = [i \in Idx |-> NoKey] /\ drawn = 0
    /\ pc = [p \in Proc |-> "off"] /\ op = [p \in Proc |-> "none"]
    /\ key = [p \in Proc |-> NoKey] /\ idx = [p \in Proc |-> 0]
    /\ list = [p \in Proc |-> <<>>]
    /\ options = {} /\ saved = {}
    /\ disturbed = FALSE

-----------------------------------------------------------------------------
(* The operations begin. *)

Begin(p, name, k) ==
    /\ pc[p] = "off" /\ pc' = [pc EXCEPT ![p] = "read"]
    /\ op' = [op EXCEPT ![p] = name]
    /\ key' = [key EXCEPT ![p] = k]
    /\ disturbed' = (disturbed \/ ~Idle)

\* Mutant of NewIdx: the entry's position instead of a random number.
NextPosition == IF file \in {Absent, Empty, Garbled} THEN 1 ELSE Len(file) + 1

\* Mutant of NewIdx: the indices count from zero, which stands for none.
FromZero == drawn

\* Sixteen random bytes: an index never drawn before.
NewIdx == drawn + 1

\* Set: openBucket of a login, with "Remember?" ticked.
Set(p, k) ==
    /\ p \in Login /\ drawn < MaxIdx
    /\ Begin(p, "set", k)
    /\ idx' = [idx EXCEPT ![p] = NewIdx] /\ drawn' = drawn + 1
    /\ UNCHANGED <<file, keyring, list, options, saved>>

\* The open page is built.
Get(p) ==
    /\ p = Loop
    /\ Begin(p, "get", NoKey)
    /\ options' = {}
    /\ UNCHANGED <<file, keyring, drawn, idx, list, saved>>

\* The user picks an entry of the drop-down.
Used(p, k) ==
    /\ p = Loop /\ k \in options
    /\ Begin(p, "used", k)
    /\ UNCHANGED <<file, keyring, drawn, idx, list, options, saved>>

-----------------------------------------------------------------------------
(* read and save. *)

Goto(p, to) == pc' = [pc EXCEPT ![p] = to]

\* A missing file is an empty list.  A file that is not valid JSON is replaced
\* by an empty list before the operation goes on.
Read(p) ==
    /\ pc[p] = "read"
    /\ list' = [list EXCEPT ![p] = IF file \in {Absent, Empty, Garbled} THEN <<>> ELSE file]
    /\ Goto(p, IF file \in {Empty, Garbled} THEN "resetTruncate"
               ELSE IF op[p] = "get" THEN "got" ELSE "truncate")
    /\ UNCHANGED <<file, keyring, drawn, op, key, idx, options, saved, disturbed>>

\* os.WriteFile opens the file with O_TRUNC ...
Truncate(p) ==
    /\ \/ pc[p] = "resetTruncate" /\ Goto(p, "resetWrite")
       \/ pc[p] = "truncate" /\ Goto(p, "write")
    /\ file' = Empty
    /\ UNCHANGED <<keyring, drawn, op, key, idx, list, options, saved, disturbed>>

\* ... and writes from its beginning: over what another writer left there since,
\* whose end stays if it is longer.
Written(content) == file' \in IF file = Empty THEN {content} ELSE {content, Garbled}

\* Mutant of Added: the old entry of the key is kept.
AddedAgain(entries, k, i) == Append(entries, [idx |-> i, key |-> k, used |-> 1])

\* add: the new entry takes the place of the one with its key.  (The code goes on
\* and removes from the slice it ranges over: the same, as there is one at most.)
Without(entries, k) == RemoveFirstMatch(entries, LAMBDA e : e.key = k)

Added(entries, k, i) == Append(Without(entries, k), [idx |-> i, key |-> k, used |-> 1])

\* Used counts the entry with the key.  (The code stops at the first, which is
\* the only one.)
Counted(entries, k) ==
    [n \in DOMAIN entries |->
        IF entries[n].key = k /\ entries[n].used < MaxUsed
        THEN [entries[n] EXCEPT !.used = @ + 1] ELSE entries[n]]

Reset(p) ==
    /\ pc[p] = "resetWrite"
    /\ Written(<<>>)
    /\ Goto(p, IF op[p] = "get" THEN "got" ELSE "truncate")
    /\ UNCHANGED <<keyring, drawn, op, key, idx, list, options, saved, disturbed>>

\* The operation is over, and its locals are gone.
Return(p) ==
    /\ Goto(p, "off")
    /\ op' = [op EXCEPT ![p] = "none"] /\ key' = [key EXCEPT ![p] = NoKey]
    /\ idx' = [idx EXCEPT ![p] = 0] /\ list' = [list EXCEPT ![p] = <<>>]

SaveAdded(p) ==
    /\ pc[p] = "write" /\ op[p] = "set"
    /\ Written(Added(list[p], key[p], idx[p]))
    /\ Goto(p, "keyring")
    /\ UNCHANGED <<keyring, drawn, op, key, idx, list, options, saved, disturbed>>

SaveCounted(p) ==
    /\ pc[p] = "write" /\ op[p] = "used"
    /\ Written(Counted(list[p], key[p]))
    /\ Return(p)
    /\ UNCHANGED <<keyring, drawn, options, saved, disturbed>>

\* Mutant of SetKeyring: the password is not stored after all.
SkipKeyring(p) ==
    /\ pc[p] = "keyring"
    /\ saved' = saved \cup {key[p]}
    /\ Return(p)
    /\ UNCHANGED <<file, keyring, drawn, options, disturbed>>

SetKeyring(p) ==
    /\ pc[p] = "keyring"
    /\ keyring' = [keyring EXCEPT ![idx[p]] = key[p]]
    /\ saved' = saved \cup {key[p]}
    /\ Return(p)
    /\ UNCHANGED <<file, drawn, options, disturbed>>

\* The entries the keyring has a password for.
Offered(entries) == {n \in DOMAIN entries : keyring[entries[n].idx] # NoKey}

\* The drop-down offers them, the most used first, and picks that one at once
\* (SetCurrentOption(0)).
ShowOptions(p) ==
    /\ pc[p] = "got"
    /\ LET offered == Offered(list[p])
       IN  /\ options' = {list[p][n].key : n \in offered}
           /\ \/ offered = {} /\ Return(p)
              \/ \E n \in offered :
                    /\ \A m \in offered : list[p][m].used <= list[p][n].used
                    /\ Goto(p, "read") /\ op' = [op EXCEPT ![p] = "used"]
                    /\ key' = [key EXCEPT ![p] = list[p][n].key]
                    /\ list' = [list EXCEPT ![p] = <<>>]
                    /\ UNCHANGED idx
    /\ UNCHANGED <<file, keyring, drawn, saved, disturbed>>

\* The program ends, in the midst of whatever it is doing, and is started anew.
Kill ==
    /\ pc' = [p \in Proc |-> "off"] /\ op' = [p \in Proc |-> "none"]
    /\ key' = [p \in Proc |-> NoKey] /\ idx' = [p \in Proc |-> 0]
    /\ list' = [p \in Proc |-> <<>>]
    /\ options' = {}
    /\ disturbed' = (disturbed \/ ~Idle)
    /\ UNCHANGED <<file, keyring, drawn, saved>>

-----------------------------------------------------------------------------
Step(p) ==
    \/ Read(p) \/ Truncate(p) \/ Reset(p) \/ SaveAdded(p) \/ SaveCounted(p) \/ SetKeyring(p)
    \/ ShowOptions(p)

Next ==
    \/ \E p \in Proc : Get(p) \/ Step(p) \/ \E k \in Key : Set(p, k) \/ Used(p, k)
    \/ Kill

Spec == Init /\ [][Next]_vars

-----------------------------------------------------------------------------
(* Properties. *)

Entry == [idx : Idx, key : Key, used : 1 .. MaxUsed]

\* What is no list of entries is not mistaken for one.
ASSUME ContentAssumption == {Absent, Empty, Garbled} \cap Seq(Entry) = {}

Entries == IF file \in {Absent, Empty, Garbled} THEN <<>> ELSE file

\* The state is well formed: the file holds entries if it is a list, and a
\* process is at one of the steps of its operation.
TypeOK ==
    /\ Entries \in Seq(Entry)
    /\ keyring \in [Idx -> Key \cup {NoKey}] /\ drawn \in 0 .. MaxIdx
    /\ pc \in [Proc -> {"off", "read", "resetTruncate", "resetWrite", "truncate", "write",
                        "keyring", "got"}]
    /\ op \in [Proc -> {"none", "set", "get", "used"}]
    /\ key \in [Proc -> Key \cup {NoKey}] /\ idx \in [Proc -> 0 .. MaxIdx]
    /\ list \in [Proc -> Seq(Entry)]
    /\ options \subseteq Key /\ saved \subseteq Key
    /\ disturbed \in BOOLEAN

\* However reads and writes interleave, and wherever the program is killed, the
\* file has one entry for a key at most: add removes what it should.
OneEntryPerKey ==
    \A m, n \in DOMAIN Entries : Entries[m].key = Entries[n].key => m = n

\* No entry ever leads to the password of another bucket, although the entry is
\* written before the password is.
PasswordIsTheKeys == \A n \in DOMAIN Entries : keyring[Entries[n].idx] \in {Entries[n].key, NoKey}

OfferedKeys == {Entries[n].key : n \in Offered(Entries)}

\* As long as operations do not overlap and are not cut short, every password
\* the user asked to remember is offered.
UndisturbedIsKept == Idle /\ ~disturbed => saved \subseteq OfferedKeys

=============================================================================
