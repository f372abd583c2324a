----------------------------- MODULE CredsProofs -----------------------------
(***************************************************************************)
(* Proofs about Creds, for any number of keys, logins and indices.         *)
(*                                                                         *)
(* Every index in use, in the file, in a list that was read, in the        *)
(* keyring or drawn by a login, is bound to one key for good (BoundInv):   *)
(* that is why an old list that is written over a new one, or a keyring    *)
(* entry whose file entry is gone, never leads to another bucket's         *)
(* password.  Every list that was read or written has one entry per key    *)
(* (DistinctInv).  An operation that nothing disturbed has the file's      *)
(* entries in its list (KeptInv).                                          *)
(***************************************************************************)
EXTENDS Creds, SequenceTheorems, TLAPS

Distinct(entries) == \A m, n \in DOMAIN entries : entries[m].key = entries[n].key => m = n

\* The step a process is at fits its operation.
OpInv ==
    \A p \in Proc :
        /\ pc[p] = "off" <=> op[p] = "none"
        /\ pc[p] \in {"truncate", "write"} => op[p] \in {"set", "used"}
        /\ pc[p] = "keyring" => op[p] = "set"
        /\ pc[p] = "got" => op[p] = "get"
        /\ op[p] = "set" => key[p] \in Key /\ idx[p] \in Idx
        /\ op[p] = "used" => key[p] \in Key

DistinctInv == Distinct(Entries) /\ \A p \in Proc : Distinct(list[p])

\* The indices in use, each with the key it leads to, or will.
Pairs(entries) == {<<entries[n].idx, entries[n].key>> : n \in DOMAIN entries}

Listed  == UNION {Pairs(list[p]) : p \in Proc}
Pending == {<<idx[p], key[p]>> : p \in {q \in Proc : op[q] = "set"}}
Held    == {<<i, keyring[i]>> : i \in {j \in Idx : keyring[j] # NoKey}}
Bound   == Pairs(Entries) \cup Listed \cup Pending \cup Held

BoundInv == \A x, y \in Bound : x[1] \in 1 .. drawn /\ (x[1] = y[1] => x[2] = y[2])

\* The keys among pairs that the keyring has a password for.
OfferedOf(pairs) == {x[2] : x \in {y \in pairs : keyring[y[1]] # NoKey}}

Unlisted == {Empty, Garbled}

KeptInv ==
    \/ disturbed
    \/ /\ \A p, q \in Proc : pc[p] # "off" /\ pc[q] # "off" => p = q
       /\ (\A p \in Proc : pc[p] \notin {"write", "keyring"}) =>
            file \notin Unlisted /\ saved \subseteq OfferedOf(Pairs(Entries))
       /\ \A p \in Proc :
            /\ pc[p] \notin {"resetTruncate", "resetWrite"}
            /\ pc[p] \in {"truncate", "got"} => list[p] = Entries
            /\ pc[p] = "write" => file = Empty /\ saved \subseteq OfferedOf(Pairs(list[p]))
            /\ pc[p] = "keyring" =>
                /\ file \notin Unlisted /\ saved \subseteq OfferedOf(Pairs(Entries)) \cup {key[p]}
                /\ <<idx[p], key[p]>> \in Pairs(Entries)

IInv == TypeOK /\ OpInv /\ DistinctInv /\ BoundInv /\ KeptInv

-----------------------------------------------------------------------------
(* Lists of entries. *)

\* Removing what is not there, or the place where it is.
LEMMA RemovedFacts ==
    ASSUME NEW l \in Seq(Entry), Distinct(l), NEW k \in Key, NEW r, r = Without(l, k)
    PROVE  /\ r \in Seq(Entry)
           /\ \A n \in DOMAIN r : \E m \in DOMAIN l : r[n] = l[m] /\ l[m].key # k
           /\ \A m \in DOMAIN l : l[m].key # k => \E n \in DOMAIN r : r[n] = l[m]
           /\ Distinct(r)
<1> DEFINE I == {i \in 1 .. Len(l) : l[i].key = k}
<1>l. Len(l) \in Nat /\ DOMAIN l = 1 .. Len(l) /\ \A m \in 1 .. Len(l) : l[m] \in Entry
    BY LenProperties, ElementOfSeq
<1>1. CASE I = {}
  <2>1. r = l
      BY <1>1 DEF Without, RemoveFirstMatch
  <2> QED
      BY <1>1, <1>l, <2>1
<1>2. CASE I # {}
  <2>1. PICK i \in 1 .. Len(l) : l[i].key = k
      BY <1>2
  <2>2. I = {i}
      BY <1>l, <2>1 DEF Distinct
  <2>3. Min(I) = i
      BY <2>2 DEF Min
  <2>4. SelectInSeq(l, LAMBDA e : e.key = k) = i
      BY <1>2, <2>3 DEF SelectInSeq
  <2>5. r = RemoveAt(l, i)
      BY <2>1, <2>4 DEF Without, RemoveFirstMatch
  <2> DEFINE a == SubSeq(l, 1, i - 1)
             b == SubSeq(l, i + 1, Len(l))
  <2>6. /\ a \in Seq(Entry) /\ Len(a) = i - 1
        /\ \A n \in 1 .. i - 1 : a[n] = l[n]
    <3>1. 1 \in Int /\ i - 1 \in Int /\ \A n \in 1 .. i - 1 : l[n] \in Entry
        BY <1>l
    <3>2. /\ a \in Seq(Entry) /\ Len(a) = IF 1 <= i - 1 THEN i - 1 - 1 + 1 ELSE 0
          /\ \A n \in 1 .. i - 1 - 1 + 1 : a[n] = l[1 + n - 1]
        BY <3>1, SubSeqProperties
    <3> QED
        BY <3>2
  <2>7. /\ b \in Seq(Entry) /\ Len(b) = Len(l) - i
        /\ \A n \in 1 .. Len(l) - i : b[n] = l[i + n]
    <3>1. i + 1 \in Int /\ Len(l) \in Int /\ \A n \in i + 1 .. Len(l) : l[n] \in Entry
        BY <1>l
    <3>2. /\ b \in Seq(Entry) /\ Len(b) = IF i + 1 <= Len(l) THEN Len(l) - (i + 1) + 1 ELSE 0
          /\ \A n \in 1 .. Len(l) - (i + 1) + 1 : b[n] = l[i + 1 + n - 1]
        BY <3>1, SubSeqProperties
    <3> QED
      <4>1. Len(l) - (i + 1) + 1 = Len(l) - i /\ \A n \in 1 .. Len(l) - i : i + 1 + n - 1 = i + n
          BY <1>l
      <4>2. Len(b) = Len(l) - i
        <5>1. Len(b) = IF i + 1 <= Len(l) THEN Len(l) - (i + 1) + 1 ELSE 0
            BY <3>2
        <5>2. i \in Int /\ Len(l) \in Int /\ i <= Len(l)
            BY <1>l
        <5>3. (IF i + 1 <= Len(l) THEN Len(l) - (i + 1) + 1 ELSE 0) = Len(l) - i
            BY <5>2
        <5> QED
            BY <5>1, <5>3
      <4> QED
          BY <3>2, <4>1, <4>2
  <2> HIDE DEF a, b
  <2>8. /\ r \in Seq(Entry) /\ Len(r) = Len(l) - 1
        /\ \A n \in 1 .. Len(l) - 1 : r[n] = IF n < i THEN l[n] ELSE l[n + 1]
    <3>1. r = a \o b
        BY <2>5 DEF RemoveAt, a, b
    <3>2. /\ r \in Seq(Entry) /\ Len(r) = Len(a) + Len(b)
          /\ \A n \in 1 .. Len(a) + Len(b) : r[n] = IF n <= Len(a) THEN a[n] ELSE b[n - Len(a)]
      <4>1. a \in Seq(Entry) /\ b \in Seq(Entry)
          BY <2>6, <2>7
      <4> QED
          BY <3>1, <4>1, ConcatProperties, Zenon
    <3>3. Len(a) + Len(b) = Len(l) - 1
        BY <1>l, <2>6, <2>7
    <3>4. ASSUME NEW n \in 1 .. Len(l) - 1 PROVE r[n] = IF n < i THEN l[n] ELSE l[n + 1]
      <4>1. CASE n < i
        <5>1. n \in 1 .. i - 1 /\ n <= Len(a)
            BY <1>l, <2>6, <4>1
        <5>2. r[n] = a[n] /\ a[n] = l[n]
            BY <2>6, <3>2, <3>3, <5>1
        <5> QED
            BY <4>1, <5>2
      <4>2. CASE ~(n < i)
        <5>1. n - Len(a) \in 1 .. Len(l) - i /\ i + (n - Len(a)) = n + 1 /\ ~(n <= Len(a))
            BY <1>l, <2>6, <4>2
        <5>2. r[n] = b[n - Len(a)] /\ b[n - Len(a)] = l[i + (n - Len(a))]
            BY <2>7, <3>2, <3>3, <5>1
        <5> QED
            BY <4>2, <5>1, <5>2
      <4> QED
          BY <4>1, <4>2
    <3> QED
        BY <3>2, <3>3, <3>4
  <2>9. DOMAIN r = 1 .. Len(l) - 1
      BY <2>8, LenProperties
  <2> DEFINE From(n) == IF n < i THEN n ELSE n + 1
  <2>10. \A n \in DOMAIN r : From(n) \in DOMAIN l /\ From(n) # i /\ r[n] = l[From(n)]
    <3> SUFFICES ASSUME NEW n \in 1 .. Len(l) - 1
                 PROVE  From(n) \in 1 .. Len(l) /\ From(n) # i /\ r[n] = l[From(n)]
        BY <1>l, <2>9
    <3>1. r[n] = IF n < i THEN l[n] ELSE l[n + 1]
        BY <2>8
    <3>2. CASE n < i
        BY <1>l, <3>1, <3>2
    <3>3. CASE ~(n < i)
        BY <1>l, <3>1, <3>3
    <3> QED
        BY <3>2, <3>3
  <2>11. \A m \in DOMAIN l : m # i => \E n \in DOMAIN r : From(n) = m
    <3> SUFFICES ASSUME NEW m \in 1 .. Len(l), m # i PROVE \E n \in 1 .. Len(l) - 1 : From(n) = m
        BY <1>l, <2>9
    <3>1. CASE m < i
        BY <1>l, <3>1
    <3>2. CASE m > i
      <4>1. m - 1 \in 1 .. Len(l) - 1 /\ ~(m - 1 < i) /\ (m - 1) + 1 = m
          BY <1>l, <3>2
      <4>2. From(m - 1) = m
          BY <4>1
      <4> QED
          BY <4>1, <4>2
    <3> QED
        BY <1>l, <3>1, <3>2
  <2>12. \A m, n \in DOMAIN r : From(m) = From(n) => m = n
      BY <1>l, <2>9
  <2> HIDE DEF From
  <2>13. \A m \in DOMAIN l : l[m].key = k => m = i
      BY <1>l, <2>1 DEF Distinct
  <2>14. Distinct(r)
    <3> SUFFICES ASSUME NEW m \in DOMAIN r, NEW n \in DOMAIN r, r[m].key = r[n].key PROVE m = n
        BY DEF Distinct
    <3>1. From(m) = From(n)
        BY <2>10 DEF Distinct
    <3> QED
        BY <2>12, <3>1
  <2>15. \A n \in DOMAIN r : \E m \in DOMAIN l : r[n] = l[m] /\ l[m].key # k
      BY <2>10, <2>13
  <2>16. \A m \in DOMAIN l : l[m].key # k => \E n \in DOMAIN r : r[n] = l[m]
    <3> SUFFICES ASSUME NEW m \in DOMAIN l, l[m].key # k PROVE \E n \in DOMAIN r : r[n] = l[m]
        OBVIOUS
    <3>1. m # i
        BY <2>1
    <3>2. PICK n \in DOMAIN r : From(n) = m
        BY <2>11, <3>1
    <3> QED
        BY <2>10, <3>2
  <2> QED
      BY <2>8, <2>14, <2>15, <2>16
<1> QED
    BY <1>1, <1>2

\* The new entry takes the place of the one with its key.
LEMMA AddedFacts ==
    ASSUME NEW l \in Seq(Entry), Distinct(l), NEW k \in Key, NEW i \in Idx
    PROVE  /\ Added(l, k, i) \in Seq(Entry)
           /\ Distinct(Added(l, k, i))
           /\ Pairs(Added(l, k, i)) = {x \in Pairs(l) : x[2] # k} \cup {<<i, k>>}
<1> DEFINE r   == Without(l, k)
           new == [idx |-> i, key |-> k, used |-> 1]
           t   == Added(l, k, i)
<1>1. /\ r \in Seq(Entry) /\ Distinct(r)
      /\ \A n \in DOMAIN r : \E m \in DOMAIN l : r[n] = l[m] /\ l[m].key # k
      /\ \A m \in DOMAIN l : l[m].key # k => \E n \in DOMAIN r : r[n] = l[m]
    BY RemovedFacts
<1>2. new \in Entry /\ new.key = k /\ new.idx = i
    BY CredsAssumption DEF Entry
<1>3. t = Append(r, new)
    BY DEF Added
<1> HIDE DEF r, new, t
<1>4. /\ t \in Seq(Entry) /\ Len(t) = Len(r) + 1 /\ t[Len(r) + 1] = new
      /\ \A n \in 1 .. Len(r) : t[n] = r[n]
    BY <1>1, <1>2, <1>3, AppendProperties
<1>5. Len(r) \in Nat /\ DOMAIN r = 1 .. Len(r) /\ DOMAIN t = DOMAIN r \cup {Len(r) + 1}
    BY <1>1, <1>4, LenProperties
<1>6. Distinct(t)
  <2>1. \A n \in DOMAIN r : t[n] = r[n] /\ r[n].key # k
      BY <1>1, <1>4, <1>5
  <2>2. t[Len(r) + 1].key = k
      BY <1>2, <1>4
  <2> QED
      BY <1>1, <1>5, <2>1, <2>2 DEF Distinct
<1>7. Pairs(t) = {x \in Pairs(l) : x[2] # k} \cup {<<i, k>>}
  <2>1. Pairs(t) = Pairs(r) \cup {<<i, k>>}
      BY <1>2, <1>4, <1>5 DEF Pairs
  <2>2. Pairs(r) = {x \in Pairs(l) : x[2] # k}
    <3>1. ASSUME NEW x \in Pairs(r) PROVE x \in Pairs(l) /\ x[2] # k
        BY <1>1 DEF Pairs
    <3>2. ASSUME NEW x \in Pairs(l), x[2] # k PROVE x \in Pairs(r)
        BY <1>1, <3>2 DEF Pairs
    <3> QED
        BY <3>1, <3>2
  <2> QED
      BY <2>1, <2>2
<1> QED
    BY <1>4, <1>6, <1>7 DEF t

\* Counting changes neither indices nor keys.
LEMMA CountedFacts ==
    ASSUME NEW l \in Seq(Entry), NEW k \in Key
    PROVE  /\ Counted(l, k) \in Seq(Entry)
           /\ Distinct(l) => Distinct(Counted(l, k))
           /\ Pairs(Counted(l, k)) = Pairs(l)
<1> DEFINE t == Counted(l, k)
<1>1. Len(l) \in Nat /\ DOMAIN l = 1 .. Len(l) /\ \A m \in DOMAIN l : l[m] \in Entry
    BY LenProperties, ElementOfSeq
<1>2. DOMAIN t = DOMAIN l
    BY DEF Counted
<1>3. \A n \in DOMAIN l : t[n] \in Entry /\ t[n].idx = l[n].idx /\ t[n].key = l[n].key
    BY <1>1, CredsAssumption DEF Counted, Entry
<1>4. t \in [1 .. Len(l) -> Entry]
    BY <1>1, <1>3 DEF Counted
<1> HIDE DEF t
<1>5. t \in Seq(Entry)
    BY <1>1, <1>4, SeqDef
<1>6. Distinct(l) => Distinct(t)
    BY <1>2, <1>3 DEF Distinct
<1>7. Pairs(t) = Pairs(l)
    BY <1>2, <1>3 DEF Pairs
<1> QED
    BY <1>5, <1>6, <1>7 DEF t

\* An empty list.
LEMMA NoEntries ==
    <<>> \in Seq(Entry) /\ Distinct(<<>>) /\ Pairs(<<>>) = {}
<1>1. DOMAIN <<>> = {}
    OBVIOUS
<1> QED
    BY <1>1, EmptySeq DEF Distinct, Pairs

-----------------------------------------------------------------------------
(* Types, steps and lists. *)

\* What is in the file after a write.
LEMMA WrittenFacts ==
    ASSUME NEW c \in Seq(Entry), Written(c)
    PROVE  /\ Entries' = c \/ Entries' = <<>>
           /\ file = Empty => Entries' = c /\ file' \notin Unlisted
    BY ContentAssumption DEF Written, Entries, Unlisted

LEMMA TruncateFacts ==
    ASSUME NEW p \in Proc, Truncate(p)
    PROVE  file' = Empty /\ Entries' = <<>>
    BY DEF Truncate, Entries

LEMMA ListKeys ==
    ASSUME TypeOK, NEW p \in Proc, NEW n \in DOMAIN list[p]
    PROVE  list[p][n].key \in Key /\ list[p][n].idx \in Idx
<1>1. list[p] \in Seq(Entry)
    BY DEF TypeOK
<1>2. list[p][n] \in Entry
    BY <1>1, ElementOfSeq, LenProperties
<1> QED
    BY <1>2 DEF Entry

LEMMA TypeStep ==
    ASSUME TypeOK, OpInv, DistinctInv, [Next]_vars
    PROVE  TypeOK'
<1> USE DEF TypeOK, Goto
<1>e. file' = file => Entries' = Entries
    BY DEF Entries
<1>s. <<>> \in Seq(Entry) /\ \A i \in Idx : i \in 0 .. MaxIdx
    BY CredsAssumption, NoEntries DEF Idx
<1>1. ASSUME NEW p \in Proc, Get(p) PROVE TypeOK'
    BY <1>1, <1>e DEF Get, Begin
<1>2. ASSUME NEW p \in Proc, NEW k \in Key, Set(p, k) PROVE TypeOK'
  <2>1. NewIdx \in 0 .. MaxIdx
      BY <1>2, CredsAssumption DEF Set, NewIdx
  <2> QED
      BY <1>2, <1>e, <2>1 DEF Set, Begin, NewIdx
<1>3. ASSUME NEW p \in Proc, NEW k \in Key, Used(p, k) PROVE TypeOK'
    BY <1>3, <1>e DEF Used, Begin
<1>4. ASSUME NEW p \in Proc, Read(p) PROVE TypeOK'
  <2>1. list' = [list EXCEPT ![p] = Entries]
      BY <1>4 DEF Read, Entries
  <2> QED
      BY <1>4, <1>e, <2>1 DEF Read
<1>5. ASSUME NEW p \in Proc, Truncate(p) PROVE TypeOK'
    BY <1>5, <1>s, TruncateFacts DEF Truncate
<1>6. ASSUME NEW p \in Proc, Reset(p) PROVE TypeOK'
  <2>1. Entries' = <<>>
      BY <1>6, <1>s, WrittenFacts DEF Reset
  <2> QED
      BY <1>6, <1>s, <2>1 DEF Reset
<1>7. ASSUME NEW p \in Proc, SaveAdded(p) PROVE TypeOK'
  <2>1. key[p] \in Key /\ idx[p] \in Idx /\ Distinct(list[p]) /\ list[p] \in Seq(Entry)
      BY <1>7 DEF SaveAdded, OpInv, DistinctInv
  <2>2. Entries' \in Seq(Entry)
    <3>1. Added(list[p], key[p], idx[p]) \in Seq(Entry) /\ Written(Added(list[p], key[p], idx[p]))
        BY <1>7, <2>1, AddedFacts DEF SaveAdded
    <3>2. \/ Entries' = Added(list[p], key[p], idx[p])
          \/ Entries' = <<>>
        BY <3>1, WrittenFacts
    <3> QED
        BY <1>s, <3>1, <3>2
  <2> QED
      BY <1>7, <2>2 DEF SaveAdded
<1>8. ASSUME NEW p \in Proc, SaveCounted(p) PROVE TypeOK'
  <2>1. key[p] \in Key /\ list[p] \in Seq(Entry)
      BY <1>8 DEF SaveCounted, OpInv
  <2>2. Entries' \in Seq(Entry)
      BY <1>8, <1>s, <2>1, CountedFacts, WrittenFacts DEF SaveCounted
  <2> QED
      BY <1>8, <1>s, <2>2, CredsAssumption DEF SaveCounted, Return
<1>9. ASSUME NEW p \in Proc, SetKeyring(p) PROVE TypeOK'
  <2>1. key[p] \in Key /\ idx[p] \in Idx
      BY <1>9 DEF SetKeyring, OpInv
  <2> QED
      BY <1>9, <1>e, <1>s, <2>1, CredsAssumption DEF SetKeyring, Return
<1>10. ASSUME NEW p \in Proc, ShowOptions(p) PROVE TypeOK'
  <2>1. \A n \in DOMAIN list[p] : list[p][n].key \in Key
      BY ListKeys
  <2>2. options' \subseteq Key
      BY <1>10, <2>1 DEF ShowOptions, Offered
  <2>3. /\ key' \in [Proc -> Key \cup {NoKey}] /\ idx' \in [Proc -> 0 .. MaxIdx]
        /\ list' \in [Proc -> Seq(Entry)]
        /\ op' \in [Proc -> {"none", "set", "get", "used"}]
        /\ pc' = [pc EXCEPT ![p] = "off"] \/ pc' = [pc EXCEPT ![p] = "read"]
    <3>1. CASE Return(p)
        BY <1>s, <3>1, CredsAssumption DEF Return
    <3>2. CASE ~Return(p)
      <4>1. PICK n \in DOMAIN list[p] :
                /\ pc' = [pc EXCEPT ![p] = "read"] /\ op' = [op EXCEPT ![p] = "used"]
                /\ key' = [key EXCEPT ![p] = list[p][n].key]
                /\ list' = [list EXCEPT ![p] = <<>>]
                /\ idx' = idx
          BY <1>10, <3>2 DEF ShowOptions, Offered
      <4> QED
          BY <1>s, <2>1, <4>1
    <3> QED
        BY <3>1, <3>2
  <2> QED
      BY <1>10, <1>e, <2>2, <2>3 DEF ShowOptions
<1>11. CASE Kill
    BY <1>11, <1>e, <1>s, CredsAssumption DEF Kill
<1>12. CASE UNCHANGED vars
    BY <1>12, <1>e DEF vars, procVars
<1> QED
    BY <1>1, <1>2, <1>3, <1>4, <1>5, <1>6, <1>7, <1>8, <1>9, <1>10, <1>11, <1>12 DEF Next, Step

LEMMA OpStep ==
    ASSUME TypeOK, OpInv, [Next]_vars
    PROVE  OpInv'
<1> USE DEF TypeOK, OpInv, Goto
<1>1. ASSUME NEW p \in Proc, Get(p) PROVE OpInv'
    BY <1>1 DEF Get, Begin
<1>2. ASSUME NEW p \in Proc, NEW k \in Key, Set(p, k) PROVE OpInv'
  <2>1. NewIdx \in Idx
      BY <1>2, CredsAssumption DEF Set, NewIdx, Idx
  <2> QED
      BY <1>2, <2>1 DEF Set, Begin
<1>3. ASSUME NEW p \in Proc, NEW k \in Key, Used(p, k) PROVE OpInv'
    BY <1>3 DEF Used, Begin
<1>4. ASSUME NEW p \in Proc, Read(p) \/ Truncate(p) \/ Reset(p) \/ SaveAdded(p) PROVE OpInv'
    BY <1>4 DEF Read, Truncate, Reset, SaveAdded
<1>5. ASSUME NEW p \in Proc, SaveCounted(p) \/ SetKeyring(p) PROVE OpInv'
    BY <1>5 DEF SaveCounted, SetKeyring, Return
<1>6. ASSUME NEW p \in Proc, ShowOptions(p) PROVE OpInv'
  <2>1. \A n \in DOMAIN list[p] : list[p][n].key \in Key
      BY ListKeys
  <2> QED
      BY <1>6, <2>1 DEF ShowOptions, Offered, Return
<1>7. CASE Kill
    BY <1>7 DEF Kill
<1>8. CASE UNCHANGED vars
    BY <1>8 DEF vars, procVars
<1> QED
    BY <1>1, <1>2, <1>3, <1>4, <1>5, <1>6, <1>7, <1>8 DEF Next, Step

\* What the file's list and the processes' lists are made of after a step.
FileAfter ==
    \/ Entries' = Entries \/ Entries' = <<>>
    \/ \E p \in Proc :
          /\ pc[p] = "write" /\ op[p] = "set" /\ key[p] \in Key /\ idx[p] \in Idx
          /\ Entries' = Added(list[p], key[p], idx[p])
    \/ \E p \in Proc :
          pc[p] = "write" /\ key[p] \in Key /\ Entries' = Counted(list[p], key[p])

ListsAfter == \A p \in Proc : list'[p] = list[p] \/ list'[p] = <<>> \/ list'[p] = Entries

LEMMA EntriesStep ==
    ASSUME TypeOK, OpInv, DistinctInv, [Next]_vars
    PROVE  FileAfter /\ ListsAfter
<1> USE DEF Goto
<1>e. file' = file => Entries' = Entries
    BY DEF Entries
<1>l. list \in [Proc -> Seq(Entry)]
    BY DEF TypeOK
<1>1. ASSUME NEW p \in Proc, Get(p) \/ \E k \in Key : Set(p, k) \/ Used(p, k)
      PROVE  file' = file /\ list' = list
    BY <1>1 DEF Get, Set, Used
<1>2. ASSUME NEW p \in Proc, Read(p)
      PROVE  file' = file /\ list' = [list EXCEPT ![p] = Entries]
    BY <1>2 DEF Read, Entries
<1>3. ASSUME NEW p \in Proc, Truncate(p) PROVE Entries' = <<>> /\ list' = list
    BY <1>3, TruncateFacts DEF Truncate
<1>4. ASSUME NEW p \in Proc, Reset(p) PROVE Entries' = <<>> /\ list' = list
    BY <1>4, NoEntries, WrittenFacts DEF Reset
<1>5. ASSUME NEW p \in Proc, SaveAdded(p)
      PROVE  /\ pc[p] = "write" /\ op[p] = "set" /\ key[p] \in Key /\ idx[p] \in Idx /\ list' = list
             /\ Entries' = Added(list[p], key[p], idx[p]) \/ Entries' = <<>>
  <2>1. /\ pc[p] = "write" /\ op[p] = "set" /\ key[p] \in Key /\ idx[p] \in Idx /\ list' = list
        /\ Distinct(list[p]) /\ Written(Added(list[p], key[p], idx[p]))
      BY <1>5 DEF SaveAdded, OpInv, DistinctInv
  <2>2. Added(list[p], key[p], idx[p]) \in Seq(Entry)
      BY <1>l, <2>1, AddedFacts
  <2> QED
      BY <2>1, <2>2, WrittenFacts
<1>6. ASSUME NEW p \in Proc, SaveCounted(p)
      PROVE  /\ pc[p] = "write" /\ key[p] \in Key /\ list' = [list EXCEPT ![p] = <<>>]
             /\ Entries' = Counted(list[p], key[p]) \/ Entries' = <<>>
  <2>1. /\ pc[p] = "write" /\ key[p] \in Key /\ list' = [list EXCEPT ![p] = <<>>]
        /\ Written(Counted(list[p], key[p]))
      BY <1>6 DEF SaveCounted, OpInv, Return
  <2>2. Counted(list[p], key[p]) \in Seq(Entry)
      BY <1>l, <2>1, CountedFacts
  <2> QED
      BY <2>1, <2>2, WrittenFacts
<1>7. ASSUME NEW p \in Proc, SetKeyring(p) \/ ShowOptions(p)
      PROVE  file' = file /\ list' = [list EXCEPT ![p] = <<>>]
    BY <1>7 DEF SetKeyring, ShowOptions, Return
<1>8. CASE Kill
  <2>1. Entries' = Entries /\ list' = [p \in Proc |-> <<>>]
      BY <1>8, <1>e DEF Kill
  <2> QED
      BY <2>1 DEF FileAfter, ListsAfter
<1>9. CASE UNCHANGED vars
  <2>1. Entries' = Entries /\ list' = list
      BY <1>9, <1>e DEF vars, procVars
  <2> QED
      BY <2>1 DEF FileAfter, ListsAfter
<1>f. ASSUME \/ list' = list
             \/ \E p \in Proc : list' \in {[list EXCEPT ![p] = <<>>], [list EXCEPT ![p] = Entries]}
      PROVE  ListsAfter
    BY <1>l, <1>f DEF ListsAfter
<1>10. ASSUME NEW p \in Proc, Step(p) PROVE FileAfter /\ ListsAfter
  <2>1. ListsAfter
      BY <1>f, <1>2, <1>3, <1>4, <1>5, <1>6, <1>7, <1>10 DEF Step
  <2>2. FileAfter
      BY <1>e, <1>2, <1>3, <1>4, <1>5, <1>6, <1>7, <1>10 DEF Step, FileAfter
  <2> QED
      BY <2>1, <2>2
<1> QED
    BY <1>e, <1>f, <1>1, <1>8, <1>9, <1>10 DEF Next, FileAfter, ListsAfter

LEMMA DistinctStep ==
    ASSUME TypeOK, OpInv, DistinctInv, [Next]_vars
    PROVE  DistinctInv'
<1>1. \A p \in Proc : list[p] \in Seq(Entry) /\ Distinct(list[p])
    BY DEF TypeOK, DistinctInv
<1>2. Distinct(<<>>) /\ Distinct(Entries)
    BY NoEntries DEF DistinctInv
<1>3. \A p \in Proc : list'[p] = list[p] \/ list'[p] = <<>> \/ list'[p] = Entries
    BY EntriesStep DEF ListsAfter
<1>4. \A p \in Proc : Distinct(list'[p])
    BY <1>1, <1>2, <1>3
<1>5. \A p \in Proc : key[p] \in Key =>
        /\ Distinct(Counted(list[p], key[p]))
        /\ idx[p] \in Idx => Distinct(Added(list[p], key[p], idx[p]))
    BY <1>1, AddedFacts, CountedFacts
<1>6. Distinct(Entries')
    BY <1>2, <1>5, EntriesStep DEF FileAfter
<1> QED
    BY <1>4, <1>6 DEF DistinctInv, Distinct

-----------------------------------------------------------------------------
(* The indices. *)

\* What is bound, and nothing else is.
LEMMA BoundFacts ==
    /\ Pairs(Entries) \subseteq Bound
    /\ \A p \in Proc : Pairs(list[p]) \subseteq Bound
    /\ \A p \in Proc : op[p] = "set" => <<idx[p], key[p]>> \in Bound
    /\ \A i \in Idx : keyring[i] # NoKey => <<i, keyring[i]>> \in Bound
<1>1. \A p \in Proc : Pairs(list[p]) \subseteq Listed
    BY DEF Listed
<1>2. \A p \in Proc : op[p] = "set" => <<idx[p], key[p]>> \in Pending
    BY DEF Pending
<1>3. \A i \in Idx : keyring[i] # NoKey => <<i, keyring[i]>> \in Held
    BY DEF Held
<1> QED
    BY <1>1, <1>2, <1>3 DEF Bound

LEMMA BoundAfter ==
    ASSUME NEW B, Pairs(Entries)' \subseteq B,
           \A p \in Proc : Pairs(list[p])' \subseteq B,
           \A p \in Proc : op'[p] = "set" => <<idx'[p], key'[p]>> \in B,
           \A i \in Idx : keyring'[i] # NoKey => <<i, keyring'[i]>> \in B
    PROVE  Bound' \subseteq B
<1>1. Listed' \subseteq B
    BY DEF Listed
<1>2. Pending' \subseteq B
    BY DEF Pending
<1>3. Held' \subseteq B
    BY DEF Held
<1> QED
    BY <1>1, <1>2, <1>3 DEF Bound

LEMMA BoundStep ==
    ASSUME TypeOK, OpInv, DistinctInv, BoundInv, [Next]_vars
    PROVE  BoundInv'
<1>1. \A p \in Proc : list[p] \in Seq(Entry) /\ Distinct(list[p])
    BY DEF TypeOK, DistinctInv
<1>2. \A p \in Proc : Pairs(list[p])' \subseteq Bound
  <2>1. Pairs(<<>>) \subseteq Bound /\ Pairs(Entries) \subseteq Bound
        /\ \A p \in Proc : Pairs(list[p]) \subseteq Bound
      BY NoEntries, BoundFacts
  <2>2. \A p \in Proc : Pairs(list'[p]) \subseteq Bound
      BY <2>1, EntriesStep DEF ListsAfter
  <2> QED
      BY <2>2 DEF Pairs
<1>3. Pairs(Entries') \subseteq Bound
  <2>1. CASE Entries' = Entries \/ Entries' = <<>>
      BY <2>1, NoEntries, BoundFacts
  <2>2. ASSUME NEW p \in Proc, op[p] = "set", key[p] \in Key, idx[p] \in Idx,
               Entries' = Added(list[p], key[p], idx[p])
        PROVE  Pairs(Entries') \subseteq Bound
    <3>1. Pairs(Entries') = {x \in Pairs(list[p]) : x[2] # key[p]} \cup {<<idx[p], key[p]>>}
        BY <1>1, <2>2, AddedFacts
    <3> QED
        BY <2>2, <3>1, BoundFacts
  <2>3. ASSUME NEW p \in Proc, key[p] \in Key, Entries' = Counted(list[p], key[p])
        PROVE  Pairs(Entries') \subseteq Bound
    <3>1. Pairs(Entries') = Pairs(list[p])
        BY <1>1, <2>3, CountedFacts
    <3> QED
        BY <3>1, BoundFacts
  <2> QED
      BY <2>1, <2>2, <2>3, EntriesStep DEF FileAfter
<1>g. ASSUME NEW new,
             drawn \in Nat, drawn' \in Nat, drawn <= drawn',
             \A x \in new : x[1] \in drawn + 1 .. drawn',
             \A x, y \in new : x[1] = y[1] => x[2] = y[2],
             \A p \in Proc : op'[p] = "set" => <<idx'[p], key'[p]>> \in Bound \cup new,
             \A i \in Idx : keyring'[i] # NoKey => <<i, keyring'[i]>> \in Bound
      PROVE  BoundInv'
  <2>1. Bound' \subseteq Bound \cup new
    <3> DEFINE B == Bound \cup new
    <3>1. PICK C : C = B
        OBVIOUS
    <3>2. Pairs(Entries)' = Pairs(Entries')
        BY DEF Pairs
    <3>3. Bound' \subseteq C
        BY <1>2, <1>3, <1>g, <3>1, <3>2, BoundAfter
    <3> QED
        BY <3>1, <3>3
  <2>2. \A x, y \in Bound \cup new : x[1] \in 1 .. drawn' /\ (x[1] = y[1] => x[2] = y[2])
      BY <1>g DEF BoundInv
  <2> QED
      BY <2>1, <2>2 DEF BoundInv
<1>d. drawn \in Nat
    BY CredsAssumption DEF TypeOK
<1>o. /\ \A p \in Proc : op[p] = "set" => <<idx[p], key[p]>> \in Bound
      /\ \A i \in Idx : keyring[i] # NoKey => <<i, keyring[i]>> \in Bound
    BY BoundFacts
<1>s. ASSUME drawn' = drawn,
             \A p \in Proc : op'[p] = "set" => op[p] = "set" /\ idx'[p] = idx[p] /\ key'[p] = key[p],
             \A i \in Idx : keyring'[i] # NoKey => <<i, keyring'[i]>> \in Bound
      PROVE  BoundInv'
  <2>1. PICK new : new = {}
      OBVIOUS
  <2>2. \A p \in Proc : op'[p] = "set" => <<idx'[p], key'[p]>> \in Bound \cup new
      BY <1>o, <1>s
  <2>3. /\ drawn' \in Nat /\ drawn <= drawn' /\ \A x \in new : x[1] \in drawn + 1 .. drawn'
        /\ \A x, y \in new : x[1] = y[1] => x[2] = y[2]
      BY <1>d, <1>s, <2>1
  <2> QED
      BY <1>d, <1>g, <1>s, <2>2, <2>3, Zenon
<1>4. ASSUME NEW p \in Proc, NEW k \in Key, Set(p, k) PROVE BoundInv'
  <2>1. /\ drawn' = drawn + 1 /\ keyring' = keyring
        /\ idx'[p] = drawn + 1 /\ key'[p] = k
        /\ \A q \in Proc \ {p} : op'[q] = op[q] /\ idx'[q] = idx[q] /\ key'[q] = key[q]
      BY <1>4 DEF Set, Begin, NewIdx, TypeOK
  <2>2. PICK new : new = {<<drawn + 1, k>>}
      OBVIOUS
  <2>3. \A q \in Proc : op'[q] = "set" => <<idx'[q], key'[q]>> \in Bound \cup new
      BY <1>o, <2>1, <2>2
  <2>4. /\ drawn' \in Nat /\ drawn <= drawn' /\ \A x \in new : x[1] \in drawn + 1 .. drawn'
        /\ \A x, y \in new : x[1] = y[1] => x[2] = y[2]
      BY <1>d, <2>1, <2>2
  <2>5. \A i \in Idx : keyring'[i] # NoKey => <<i, keyring'[i]>> \in Bound
      BY <1>o, <2>1
  <2> QED
      BY <1>d, <1>g, <2>3, <2>4, <2>5, Zenon
<1>5. ASSUME NEW p \in Proc, SetKeyring(p) PROVE BoundInv'
  <2>1. /\ op[p] = "set" /\ keyring' = [keyring EXCEPT ![idx[p]] = key[p]] /\ drawn' = drawn
        /\ \A q \in Proc : op'[q] = "set" => op[q] = "set" /\ idx'[q] = idx[q] /\ key'[q] = key[q]
      BY <1>5 DEF SetKeyring, Return, Goto, OpInv, TypeOK
  <2>2. \A i \in Idx : keyring'[i] # NoKey => <<i, keyring'[i]>> \in Bound
      BY <1>o, <2>1 DEF TypeOK
  <2> QED
      BY <1>s, <2>1, <2>2
<1>6. CASE ~(\E p \in Proc : SetKeyring(p) \/ \E k \in Key : Set(p, k))
  <2>1. /\ drawn' = drawn /\ keyring' = keyring
        /\ \A q \in Proc : op'[q] = "set" => op[q] = "set" /\ idx'[q] = idx[q] /\ key'[q] = key[q]
    <3>1. ASSUME NEW p \in Proc, Get(p) \/ \E k \in Key : Used(p, k) PROVE <2>1
        BY <3>1 DEF Get, Used, Begin, TypeOK
    <3>2. ASSUME NEW p \in Proc, Step(p), ~SetKeyring(p) PROVE <2>1
        BY <3>2 DEF Step, Read, Truncate, Reset, SaveAdded, SaveCounted, ShowOptions, Return, TypeOK
    <3>3. CASE Kill \/ UNCHANGED vars
        BY <3>3 DEF Kill, vars, procVars
    <3> QED
        BY <1>6, <3>1, <3>2, <3>3 DEF Next
  <2> QED
      BY <1>o, <1>s, <2>1
<1> QED
    BY <1>4, <1>5, <1>6

-----------------------------------------------------------------------------
(* What the user asked to remember. *)

LEMMA DisturbanceStays ==
    ASSUME [Next]_vars, disturbed PROVE disturbed'
<1>1. ASSUME NEW p \in Proc, Get(p) \/ \E k \in Key : Set(p, k) \/ Used(p, k) PROVE disturbed'
    BY <1>1 DEF Get, Set, Used, Begin
<1>2. ASSUME NEW p \in Proc, Step(p) PROVE disturbed'
    BY <1>2 DEF Step, Read, Truncate, Reset, SaveAdded, SaveCounted, SetKeyring, ShowOptions
<1> QED
    BY <1>1, <1>2 DEF Next, Kill, vars

\* More pairs, more keys.
LEMMA OfferedMonotone ==
    ASSUME NEW A, NEW B, A \subseteq B
    PROVE  OfferedOf(A) \subseteq OfferedOf(B)
    BY DEF OfferedOf

LEMMA KeptStep ==
    ASSUME TypeOK, OpInv, DistinctInv, KeptInv, [Next]_vars
    PROVE  KeptInv'
<1> SUFFICES ASSUME ~disturbed' PROVE KeptInv'
    BY DEF KeptInv
<1>0. /\ \A p, q \in Proc : pc[p] # "off" /\ pc[q] # "off" => p = q
      /\ (\A p \in Proc : pc[p] \notin {"write", "keyring"}) =>
            file \notin Unlisted /\ saved \subseteq OfferedOf(Pairs(Entries))
      /\ \A p \in Proc :
            /\ pc[p] \notin {"resetTruncate", "resetWrite"}
            /\ pc[p] \in {"truncate", "got"} => list[p] = Entries
            /\ pc[p] = "write" => file = Empty /\ saved \subseteq OfferedOf(Pairs(list[p]))
            /\ pc[p] = "keyring" =>
                /\ file \notin Unlisted /\ saved \subseteq OfferedOf(Pairs(Entries)) \cup {key[p]}
                /\ <<idx[p], key[p]>> \in Pairs(Entries)
    BY DisturbanceStays DEF KeptInv
<1>e. file' = file => Entries' = Entries
    BY DEF Entries
<1>l. \A p \in Proc : list[p] \in Seq(Entry) /\ Distinct(list[p])
    BY DEF TypeOK, DistinctInv
<1>p. Pairs(Entries)' = Pairs(Entries') /\ \A p \in Proc : Pairs(list[p])' = Pairs(list'[p])
    BY DEF Pairs
\* Nothing is at work, or begins or ends: the file is as it was.
<1>r. ASSUME UNCHANGED <<file, keyring, saved>>,
             \A p \in Proc : pc[p] \notin {"write", "keyring"},
             \A p, q \in Proc : pc'[p] # "off" /\ pc'[q] # "off" => p = q,
             \A p \in Proc : \/ pc'[p] \in {"off", "read"}
                             \/ pc'[p] \in {"truncate", "got"} /\ list'[p] = Entries
      PROVE  KeptInv'
  <2>1. file' \notin Unlisted /\ Entries' = Entries /\ saved' \subseteq OfferedOf(Pairs(Entries))'
      BY <1>0, <1>e, <1>p, <1>r DEF OfferedOf
  <2> QED
      BY <1>r, <2>1 DEF KeptInv
<1>1. ASSUME NEW p \in Proc, Get(p) \/ \E k \in Key : Set(p, k) \/ Used(p, k) PROVE KeptInv'
  <2>1. /\ UNCHANGED <<file, keyring, saved>> /\ Idle /\ pc' = [pc EXCEPT ![p] = "read"]
      BY <1>1 DEF Get, Set, Used, Begin
  <2>2. \A q \in Proc : pc[q] = "off" /\ pc'[q] \in {"off", "read"} /\ (q # p => pc'[q] = "off")
      BY <2>1 DEF Idle, TypeOK
  <2> QED
      BY <1>r, <2>1, <2>2
<1>2. CASE Kill
  <2>1. UNCHANGED <<file, keyring, saved>> /\ Idle /\ \A p \in Proc : pc'[p] = "off"
      BY <1>2 DEF Kill
  <2> QED
      BY <1>r, <2>1 DEF Idle
<1>3. ASSUME NEW p \in Proc, Step(p) PROVE KeptInv'
  <2>1. \A q \in Proc \ {p} : pc[q] = "off"
      BY <1>0, <1>3 DEF Step, Read, Truncate, Reset, SaveAdded, SaveCounted, SetKeyring, ShowOptions
  <2>2. \A q \in Proc \ {p} : pc'[q] = pc[q] /\ list'[q] = list[q]
      BY <1>3 DEF Step, Read, Truncate, Reset, SaveAdded, SaveCounted, SetKeyring, ShowOptions, Goto,
                  Return, TypeOK
  \* The process is where it is, and the others are idle.
  <2>g. ASSUME pc'[p] = "off" => file' \notin Unlisted /\ saved' \subseteq OfferedOf(Pairs(Entries))',
               pc'[p] \in {"off", "write", "keyring"},
               pc'[p] = "write" => file' = Empty /\ saved' \subseteq OfferedOf(Pairs(list[p]))',
               pc'[p] = "keyring" =>
                  /\ file' \notin Unlisted
                  /\ saved' \subseteq OfferedOf(Pairs(Entries))' \cup {key'[p]}
                  /\ <<idx'[p], key'[p]>> \in Pairs(Entries)'
        PROVE  KeptInv'
      BY <2>1, <2>2, <2>g DEF KeptInv
  <2>3. CASE Read(p)
    <3>1. pc[p] = "read" /\ UNCHANGED <<file, keyring, saved>> /\ file \notin Unlisted
        BY <1>0, <2>1, <2>3 DEF Read
    <3>2. pc'[p] \in {"truncate", "got"} /\ list'[p] = Entries
        BY <2>3, <3>1 DEF Read, Goto, Unlisted, Entries, TypeOK
    <3> QED
        BY <1>r, <2>1, <2>2, <3>1, <3>2
  <2>4. CASE Truncate(p)
    <3>1. /\ pc[p] = "truncate" /\ pc'[p] = "write" /\ file' = Empty
          /\ UNCHANGED <<keyring, saved, list>>
        BY <1>0, <2>4 DEF Truncate, Goto, TypeOK
    <3>2. saved \subseteq OfferedOf(Pairs(Entries)) /\ list[p] = Entries
        BY <1>0, <2>1, <3>1
    <3>3. saved' \subseteq OfferedOf(Pairs(list[p]))'
        BY <1>p, <3>1, <3>2 DEF OfferedOf
    <3> QED
        BY <2>g, <3>1, <3>3
  <2>5. CASE Reset(p)
      BY <1>0, <2>5 DEF Reset
  <2>6. CASE SaveAdded(p)
    <3>1. /\ pc[p] = "write" /\ op[p] = "set" /\ pc'[p] = "keyring"
          /\ Written(Added(list[p], key[p], idx[p])) /\ UNCHANGED <<keyring, saved, key, idx>>
        BY <2>6 DEF SaveAdded, Goto, TypeOK
    <3>2. key[p] \in Key /\ idx[p] \in Idx /\ file = Empty /\ saved \subseteq OfferedOf(Pairs(list[p]))
        BY <1>0, <3>1 DEF OpInv
    <3>3. /\ Added(list[p], key[p], idx[p]) \in Seq(Entry)
          /\ Pairs(Added(list[p], key[p], idx[p])) =
                {x \in Pairs(list[p]) : x[2] # key[p]} \cup {<<idx[p], key[p]>>}
        BY <1>l, <3>2, AddedFacts
    <3>4. Entries' = Added(list[p], key[p], idx[p]) /\ file' \notin Unlisted
        BY <3>1, <3>2, <3>3, WrittenFacts
    <3>5. Pairs(Entries)' = {x \in Pairs(list[p]) : x[2] # key[p]} \cup {<<idx[p], key[p]>>}
        BY <1>p, <3>3, <3>4
    <3>6. saved' \subseteq OfferedOf(Pairs(Entries))' \cup {key'[p]}
        BY <3>1, <3>2, <3>5 DEF OfferedOf
    <3> QED
        BY <2>g, <3>1, <3>4, <3>5, <3>6
  <2>7. CASE SaveCounted(p)
    <3>1. /\ pc[p] = "write" /\ op[p] = "used" /\ pc'[p] = "off"
          /\ Written(Counted(list[p], key[p])) /\ UNCHANGED <<keyring, saved>>
        BY <2>7 DEF SaveCounted, Return, Goto, TypeOK
    <3>2. key[p] \in Key /\ file = Empty /\ saved \subseteq OfferedOf(Pairs(list[p]))
        BY <1>0, <3>1 DEF OpInv
    <3>3. /\ Counted(list[p], key[p]) \in Seq(Entry)
          /\ Pairs(Counted(list[p], key[p])) = Pairs(list[p])
        BY <1>l, <3>2, CountedFacts
    <3>4. Entries' = Counted(list[p], key[p]) /\ file' \notin Unlisted
        BY <3>1, <3>2, <3>3, WrittenFacts
    <3>5. saved' \subseteq OfferedOf(Pairs(Entries))'
        BY <1>p, <3>1, <3>2, <3>3, <3>4 DEF OfferedOf
    <3> QED
        BY <2>g, <3>1, <3>4, <3>5
  <2>8. CASE SetKeyring(p)
    <3>1. /\ pc[p] = "keyring" /\ pc'[p] = "off" /\ file' = file
          /\ keyring' = [keyring EXCEPT ![idx[p]] = key[p]] /\ saved' = saved \cup {key[p]}
          /\ key[p] \in Key /\ idx[p] \in Idx
        BY <2>8 DEF SetKeyring, Return, Goto, OpInv, TypeOK
    <3>2. /\ file \notin Unlisted /\ saved \subseteq OfferedOf(Pairs(Entries)) \cup {key[p]}
          /\ <<idx[p], key[p]>> \in Pairs(Entries)
        BY <1>0, <3>1
    <3>3. Pairs(Entries)' = Pairs(Entries)
        BY <1>e, <1>p, <3>1
    <3>4. \A x \in Pairs(Entries) : x[1] \in Idx
      <4>1. Entries \in Seq(Entry)
          BY DEF TypeOK
      <4>2. \A n \in DOMAIN Entries : Entries[n].idx \in Idx
        <5>1. \A n \in DOMAIN Entries : Entries[n] \in Entry
            BY <4>1, ElementOfSeq, LenProperties
        <5> QED
            BY <5>1 DEF Entry
      <4> QED
          BY <4>2 DEF Pairs
    <3>5. \A x \in Pairs(Entries) : keyring[x[1]] # NoKey => keyring'[x[1]] # NoKey
        BY <3>1, <3>4, CredsAssumption DEF TypeOK
    <3>6. keyring'[idx[p]] # NoKey
        BY <3>1, CredsAssumption DEF TypeOK
    <3>7. saved' \subseteq OfferedOf(Pairs(Entries))'
      <4>1. OfferedOf(Pairs(Entries))' = {x[2] : x \in {y \in Pairs(Entries) : keyring'[y[1]] # NoKey}}
          BY <3>3 DEF OfferedOf
      <4>2. OfferedOf(Pairs(Entries)) \subseteq {x[2] : x \in {y \in Pairs(Entries) : keyring'[y[1]] # NoKey}}
          BY <3>5 DEF OfferedOf
      <4>3. key[p] \in {x[2] : x \in {y \in Pairs(Entries) : keyring'[y[1]] # NoKey}}
          BY <3>2, <3>6
      <4> QED
          BY <3>1, <3>2, <4>1, <4>2, <4>3
    <3> QED
        BY <2>g, <3>1, <3>2, <3>7
  <2>9. CASE ShowOptions(p)
    <3>1. pc[p] = "got" /\ pc'[p] \in {"off", "read"} /\ UNCHANGED <<file, keyring, saved>>
        BY <2>9 DEF ShowOptions, Return, Goto, TypeOK
    <3> QED
        BY <1>r, <2>1, <2>2, <3>1
  <2> QED
      BY <1>3, <2>3, <2>4, <2>5, <2>6, <2>7, <2>8, <2>9 DEF Step
<1>4. CASE UNCHANGED vars
  <2>1. UNCHANGED <<file, keyring, saved, pc, list, key, idx, disturbed>> /\ Entries' = Entries
      BY <1>4, <1>e DEF vars, procVars
  <2> QED
      BY <2>1 DEF KeptInv, Pairs, OfferedOf
<1> QED
    BY <1>1, <1>2, <1>3, <1>4 DEF Next

-----------------------------------------------------------------------------
(* The theorems. *)

LEMMA InitIInv == Init => IInv
<1> SUFFICES ASSUME Init PROVE IInv
    OBVIOUS
<1> USE NoEntries DEF Init
<1>1. Entries = <<>> /\ \A p \in Proc : list[p] = <<>> /\ pc[p] = "off" /\ op[p] = "none"
    BY DEF Entries
<1>2. TypeOK
  <2>1. 0 \in 0 .. MaxIdx
      BY CredsAssumption
  <2>2. list \in [Proc -> Seq(Entry)] /\ Entries \in Seq(Entry)
      BY <1>1
  <2> QED
      BY <2>1, <2>2 DEF TypeOK
<1>3. OpInv
    BY <1>1 DEF OpInv
<1>4. DistinctInv
    BY <1>1 DEF DistinctInv
<1>5. BoundInv
  <2>1. Listed = {} /\ Pending = {} /\ Held = {}
      BY <1>1 DEF Listed, Pending, Held
  <2> QED
      BY <1>1, <2>1 DEF BoundInv, Bound
<1>6. KeptInv
  <2>1. Absent \notin Unlisted
      BY CredsAssumption DEF Unlisted
  <2> QED
      BY <1>1, <2>1 DEF KeptInv
<1> QED
    BY <1>2, <1>3, <1>4, <1>5, <1>6 DEF IInv

\* The invariant of the remembered credentials is inductive.
THEOREM Inductive == Spec => []IInv
<1>1. IInv /\ [Next]_vars => IInv'
    BY TypeStep, OpStep, DistinctStep, BoundStep, KeptStep DEF IInv
<1> QED
    BY InitIInv, <1>1, PTL DEF Spec

\* The file holds entries if it is a list, and the rest is well formed.
THEOREM TypeCorrect == Spec => []TypeOK
<1>1. IInv => TypeOK
    BY DEF IInv
<1> QED
    BY <1>1, Inductive, PTL

\* A key has one entry at most, however operations interleave and wherever the
\* program is killed.
THEOREM OneEntry == Spec => []OneEntryPerKey
<1>1. IInv => OneEntryPerKey
    BY DEF IInv, DistinctInv, Distinct, OneEntryPerKey
<1> QED
    BY <1>1, Inductive, PTL

\* No entry leads to the password of another bucket.
THEOREM PasswordKeys == Spec => []PasswordIsTheKeys
<1>1. IInv => PasswordIsTheKeys
  <2> SUFFICES ASSUME IInv, NEW n \in DOMAIN Entries
               PROVE  keyring[Entries[n].idx] \in {Entries[n].key, NoKey}
      BY DEF PasswordIsTheKeys
  <2>1. Entries[n] \in Entry
      BY ElementOfSeq, LenProperties DEF IInv, TypeOK
  <2>2. <<Entries[n].idx, Entries[n].key>> \in Bound
      BY BoundFacts DEF Pairs
  <2>3. keyring[Entries[n].idx] # NoKey => <<Entries[n].idx, keyring[Entries[n].idx]>> \in Bound
      BY <2>1, BoundFacts DEF Entry
  <2> QED
      BY <2>2, <2>3 DEF IInv, BoundInv
<1> QED
    BY <1>1, Inductive, PTL

\* Undisturbed, every password the user asked to remember is offered.
THEOREM UndisturbedKept == Spec => []UndisturbedIsKept
<1>1. IInv => UndisturbedIsKept
  <2> SUFFICES ASSUME IInv, Idle, ~disturbed PROVE saved \subseteq OfferedKeys
      BY DEF UndisturbedIsKept
  <2>1. saved \subseteq OfferedOf(Pairs(Entries))
      BY DEF IInv, KeptInv, Idle
  <2>2. OfferedOf(Pairs(Entries)) = OfferedKeys
    <3>1. ASSUME NEW k \in OfferedOf(Pairs(Entries)) PROVE k \in OfferedKeys
        BY DEF OfferedOf, Pairs, OfferedKeys, Offered
    <3>2. ASSUME NEW k \in OfferedKeys PROVE k \in OfferedOf(Pairs(Entries))
      <4>1. PICK n \in DOMAIN Entries : keyring[Entries[n].idx] # NoKey /\ k = Entries[n].key
          BY DEF OfferedKeys, Offered
      <4>2. <<Entries[n].idx, Entries[n].key>> \in Pairs(Entries)
          BY DEF Pairs
      <4> QED
          BY <4>1, <4>2 DEF OfferedOf
    <3> QED
        BY <3>1, <3>2
  <2> QED
      BY <2>1, <2>2
<1> QED
    BY <1>1, Inductive, PTL

=============================================================================
