----------------------------- MODULE HashTable -----------------------------
(***************************************************************************)
(* Class Hash of the compiler (src/src/hash.C): open addressing, double    *)
(* hashing for the second place and the places behind it for the others,   *)
(* marks where something was deleted, and a table that doubles.            *)
(***************************************************************************)
EXTENDS Integers, Sequences, FiniteSets, SequencesExt

CONSTANTS
  Keys,
  Values,
  HashOf,       \* key_hash_function, of every key
  InitialSize,  \* the argument of the constructor; the code divides by it
  MaxSize       \* a bound on the size

VARIABLES
  tab,          \* the slots, from 0; an entry is the sequence of key and cont
  entry_count,
  answer        \* the last call and what it gave

hashVars == <<tab, entry_count, answer>>

EMPTY == <<>>
DELETED == <<"deleted">>
IsValid(e) == Len(e) = 2

Size(t) == Cardinality(DOMAIN t)
EmptyTable(n) == [i \in 0 .. n - 1 |-> EMPTY]

\* The place that is tried after i others.
Place(k, n, i) ==
  IF i = 0 THEN HashOf[k] % n
  ELSE LET inc == ((HashOf[k] \div n) % n) \div 2
       IN  ((HashOf[k] % n) + inc + i - 1) % n

Empties(t, k) == {i \in 0 .. Size(t) : t[Place(k, Size(t), i)] = EMPTY}
Matches(t, k) == {i \in 0 .. Size(t) :
                    LET e == t[Place(k, Size(t), i)] IN IsValid(e) /\ e[1] = k}

\* Bug: the search stops at a deleted entry.
StopsAtDeleted(t, k) ==
  {i \in Matches(t, k) : \A j \in 0 .. i : t[Place(k, Size(t), j)] \notin {EMPTY, DELETED}}

\* The probes that find k before an empty slot.
Finds(t, k) == {i \in Matches(t, k) : \A j \in Empties(t, k) : i < j}
Found(t, k) == Finds(t, k) # {}
SlotOf(t, k) == Place(k, Size(t), CHOOSE i \in Finds(t, k) : TRUE)

\* More than 87.5% full.
Crowded(n, count) == count > n \div 2 + n \div 4 + n \div 8

\* Bug: the first slot that was tried is taken for free.
FirstTried(t, k) == Place(k, Size(t), 0)

\* Where a new key goes: the first deleted or empty slot.
BestSpot(t, k) ==
  LET i == CHOOSE i \in 0 .. Size(t) :
             /\ ~ IsValid(t[Place(k, Size(t), i)])
             /\ \A j \in 0 .. i - 1 : IsValid(t[Place(k, Size(t), j)])
  IN  Place(k, Size(t), i)

\* There is no empty slot on the way, though there may be deleted ones, or the
\* table is too full.
MustGrow(t, count, k) == Empties(t, k) = {} \/ Crowded(Size(t), count)

Filled(t, k, v) == [t EXCEPT ![BestSpot(t, k)] = <<k, v>>]

Count(t) == Cardinality({i \in DOMAIN t : IsValid(t[i])})

\* resize(): the entries in the order of their slots, stored in an empty table
\* of n slots.
RECURSIVE Rehashed(_, _)

\* The table in which the missing key k has room: t, with count entries, or
\* one twice as large.
WithRoom(t, count, k) == IF MustGrow(t, count, k) THEN Rehashed(t, 2 * Size(t)) ELSE t

Rehashed(t, n) ==
  FoldLeft(LAMBDA u, e : Filled(WithRoom(u, Count(u), e[1]), e[1], e[2]), EmptyTable(n),
           SelectSeq([i \in 1 .. Size(t) |-> t[i - 1]], IsValid))

Small(t) == Size(t) <= MaxSize

-----------------------------------------------------------------------------
(* operator []: as the left side of an assignment, or only read.  The value*)
(* of a new entry is what the memory holds.                                *)
Indexed(k, what, values) ==
  IF Found(tab, k)
  THEN \E v \in IF what = "store" THEN values ELSE {tab[SlotOf(tab, k)][2]} :
         /\ tab' = [tab EXCEPT ![SlotOf(tab, k)] = <<k, v>>]
         /\ entry_count' = entry_count
         /\ answer' = <<what, k, {v}>>
  ELSE /\ Small(WithRoom(tab, entry_count, k))
       /\ \E v \in values :
            /\ tab' = Filled(WithRoom(tab, entry_count, k), k, v)
            /\ entry_count' = entry_count + 1
            /\ answer' = <<what, k, {v}>>

Store(k, v) == Indexed(k, "store", {v})
Read(k) == Indexed(k, "read", Values)

\* action(): a probe for a missing key may double the table, too.
Act(k, v, what) ==
  IF Found(tab, k)
  THEN /\ tab' = IF what = "replace" THEN [tab EXCEPT ![SlotOf(tab, k)] = <<k, v>>]
                 ELSE tab
       /\ entry_count' = entry_count
       /\ answer' = <<what, k, {tab[SlotOf(tab, k)][2]}>>
  ELSE /\ Small(WithRoom(tab, entry_count, k))
       /\ IF what = "probe" THEN tab' = WithRoom(tab, entry_count, k) /\ entry_count' = entry_count
          ELSE tab' = Filled(WithRoom(tab, entry_count, k), k, v) /\ entry_count' = entry_count + 1
       /\ answer' = <<what, k, {}>>

Del(k) ==
  /\ IF Found(tab, k)
     THEN /\ tab' = [tab EXCEPT ![SlotOf(tab, k)] = DELETED]
          /\ entry_count' = entry_count - 1
     ELSE UNCHANGED <<tab, entry_count>>
  /\ answer' = <<"del", k, IF Found(tab, k) THEN {k} ELSE {}>>

\* The program goes on with a copy, which has no marks.
Copy == /\ tab' = Rehashed(tab, Size(tab))
        /\ Small(tab')
        /\ UNCHANGED <<entry_count, answer>>

Clear == tab' = EmptyTable(Size(tab)) /\ entry_count' = 0 /\ UNCHANGED answer

HashInit == tab = EmptyTable(InitialSize) /\ entry_count = 0 /\ answer = <<>>

HashNext ==
  \/ \E k \in Keys : Read(k) \/ Del(k)
  \/ \E k \in Keys, v \in Values :
       Store(k, v) \/ \E what \in {"probe", "insert", "replace"} : Act(k, v, what)
  \/ Copy \/ Clear

HashSpec == HashInit /\ [][HashNext]_hashVars
-----------------------------------------------------------------------------
(* Properties. *)

Entries == {i \in DOMAIN tab : IsValid(tab[i])}

HashTypeOK ==
  /\ tab \in [0 .. Size(tab) - 1 -> {EMPTY, DELETED} \cup (Keys \X Values)]
  /\ entry_count = Cardinality(Entries)

\* The table is a partial function that finds all that was stored and nothing
\* that was deleted, wherever the keys collide, marks are reused and the table
\* doubles ("it does whatever you want without redundant probing").
Map == INSTANCE Dictionary WITH
         dict <- [k \in {tab[i][1] : i \in Entries} |->
                    tab[CHOOSE i \in Entries : tab[i][1] = k][2]]
HashIsMap == Map!DictSpec
=============================================================================
