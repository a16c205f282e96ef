------------------------------- MODULE ArrMap -------------------------------
(***************************************************************************)
(* How many elements has the array at an address?  new T[n] and delete []  *)
(* ask __vec_new() and __vec_delete() (src/lib/new/_vec.C), which keep the *)
(* latest array in a cache of one entry and the others in a trie           *)
(* (src/lib/new/_arr_map.C).                                               *)
(*                                                                         *)
(* The address 0 has no array; an address is the sequence of its digits,   *)
(* groups of DIGIT_SIZE bits.  A place in the trie is the sequence of the  *)
(* digits that lead to it; what stands there is a node, a record or null.  *)
(***************************************************************************)
EXTENDS Integers, Sequences, FiniteSets, Functions

CONSTANTS
  Addresses,   \* sequences of digits, all of one length
  Counts,      \* numbers of elements
  NodeBlock,   \* NODES_BLOCK_COUNT: nodes that are allocated together
  RecordBlock  \* RECORDS_BLOCK_COUNT

ASSUME AddressesAssumption ==
  \A a, b \in Addresses : a \in Seq(Nat) \ {<<>>} /\ Len(a) = Len(b)

ASSUME BlocksAssumption == NodeBlock \in Nat \ {0} /\ RecordBlock \in Nat \ {0}

VARIABLES
  busy,     \* of the places that are nodes: busy_count
  leaf,     \* of the places that are leaves: the record [key, count]
  spare,    \* what the pools hold: [nodes, records]
  cache,    \* __cache_key and __cache_count, or NoArray
  array,    \* of the addresses of arrays: the number of elements
  torn      \* an allocation has failed in the middle of an insertion

arrVars == <<busy, leaf, spare, cache, array, torn>>

NotFound == -1
NoArray == [key |-> <<>>, count |-> 0]

Prefix(k, d) == SubSeq(k, 1, d)
Parent(p) == Prefix(p, Len(p) - 1)

\* The place where the search for k ends: the first that is no node.
Stop(k) == CHOOSE p \in {Prefix(k, d) : d \in 0 .. Len(k)} :
             p \notin DOMAIN busy /\ (p # <<>> => Parent(p) \in DOMAIN busy)

IsNull(p) == p \notin DOMAIN busy \cup DOMAIN leaf

Without(f, S) == Restrict(f, DOMAIN f \ S)
With(f, x, v) == [y \in DOMAIN f \cup {x} |-> IF y = x THEN v ELSE f[y]]

-----------------------------------------------------------------------------
(* Pools. *)

\* What a pool of s holds when n have been taken, in blocks if need be.
Left(s, n, block) == IF s >= n THEN s - n ELSE (s - n) % block

\* How many of n can be had before the system has no more.
Obtained(s, n, block) == {j \in 0 .. n - 1 : j >= s /\ (j - s) % block = 0}

-----------------------------------------------------------------------------
(* insert().  An outcome is [busy, leaf, spare, ok, torn].                 *)

Outcome(b, l, s, ok, t) == [busy |-> b, leaf |-> l, spare |-> s, ok |-> ok, torn |-> t]

Unchanged(s, ok) == Outcome(busy, leaf, s, ok, FALSE)

\* Bug: every node of the chain counts two.
AllBusy(n, deepest) == 2

\* The nodes that tell apart two keys which agree up to place p.
Busy(n, deepest) == IF n = deepest THEN 2 ELSE 1

\* A leaf for record r at the null place p.
Added(r, p, s) ==
  Outcome(IF p = <<>> THEN busy ELSE [busy EXCEPT ![Parent(p)] = @ + 1],
          With(leaf, p, r), s, TRUE, FALSE)

\* The place p of another record gets a chain of nodes, down to the digit
\* in which the two differ.  A node that cannot be had leaves the chain
\* without an end, and the other record nowhere.
Split(r, p, s) ==
  LET other == leaf[p]
      apart == CHOOSE d \in 1 .. Len(r.key) :
                 Prefix(r.key, d - 1) = Prefix(other.key, d - 1) /\ r.key[d] # other.key[d]
      Chain(n) == {Prefix(r.key, d) : d \in Len(p) .. Len(p) + n - 1}
      all == apart - Len(p)
      deepest == Prefix(r.key, apart - 1)
      Grown(n) == [q \in DOMAIN busy \cup Chain(n) |->
                     IF q \in Chain(n) THEN Busy(q, deepest) ELSE busy[q]]
  IN  {Outcome(Grown(all),
               With(With(Without(leaf, {p}), Prefix(other.key, apart), other),
                    Prefix(r.key, apart), r),
               [s EXCEPT !.nodes = Left(@, all, NodeBlock)], TRUE, FALSE)}
      \cup
      {Outcome(Grown(n), IF n = 0 THEN leaf ELSE Without(leaf, {p}),
               [s EXCEPT !.nodes = 0], FALSE, n > 0) :
         n \in Obtained(s.nodes, all, NodeBlock)}

Insert(r) ==
  LET p == Stop(r.key)
      s == [spare EXCEPT !.records = Left(@, 1, RecordBlock)]
  IN  (IF spare.records = 0 THEN {Unchanged(spare, FALSE)} ELSE {})
      \cup
      (IF IsNull(p) THEN {Added(r, p, s)}
       ELSE IF leaf[p].key = r.key
       THEN {Outcome(busy, [leaf EXCEPT ![p] = r], [s EXCEPT !.records = @ + 1],
                     TRUE, FALSE)}
       ELSE Split(r, p, s))

-----------------------------------------------------------------------------
(* remove() *)

\* The place that a last record of node q moves to: above the nodes that have
\* nothing else.
Collapsed(q) ==
  CHOOSE t \in {Prefix(q, d) : d \in 0 .. Len(q)} :
    /\ \A d \in Len(t) .. Len(q) - 1 : busy[Prefix(q, d)] = 1
    /\ t # <<>> => busy[Parent(t)] > 1

Others(q, p) == {i \in (DOMAIN busy \cup DOMAIN leaf) \ {p} : i # <<>> /\ Parent(i) = q}

\* The record at place p is deleted.
Removed(p) ==
  LET q == Parent(p)
      fewer == [busy EXCEPT ![q] = @ - 1]
      i == CHOOSE i \in Others(q, p) : TRUE
      gone == {Prefix(q, d) : d \in Len(Collapsed(q)) .. Len(q)}
      s == [spare EXCEPT !.records = @ + 1]
  IN  IF p = <<>> THEN Outcome(busy, Without(leaf, {p}), s, TRUE, FALSE)
      ELSE IF fewer[q] > 1 \/ i \in DOMAIN busy
      THEN Outcome(fewer, Without(leaf, {p}), s, TRUE, FALSE)
      ELSE Outcome(Without(busy, gone),
                   With(Without(leaf, {p, i}), Collapsed(q), leaf[i]),
                   [s EXCEPT !.nodes = @ + Cardinality(gone)], TRUE, FALSE)

Becomes(o) ==
  /\ busy' = o.busy /\ leaf' = o.leaf /\ spare' = o.spare /\ torn' = (torn \/ o.torn)

-----------------------------------------------------------------------------
(* The calls of a compiled program.  What the trie does once it is torn is *)
(* not defined: remove() looks for an item behind the last of a node.      *)

\* __vec_new() of n elements at a, which the allocator has found free, or at
\* an address the program gives.
VecNew(a, n) ==
  /\ ~ torn /\ a \notin DOMAIN array
  /\ \E o \in IF cache = NoArray THEN {Unchanged(spare, TRUE)} ELSE Insert(cache) :
       /\ Becomes(o)
       /\ IF o.ok THEN /\ cache' = [key |-> a, count |-> n]
                       /\ array' = With(array, a, n)
          ELSE UNCHANGED <<cache, array>>

\* Bug: the cache is asked last.
TrieFirst(a) == cache.key = a /\ ~ (Stop(a) \in DOMAIN leaf /\ leaf[Stop(a)].key = a)

Cached(a) == cache.key = a

InTrie(a) == Stop(a) \in DOMAIN leaf /\ leaf[Stop(a)].key = a

\* How many elements the array at a is said to have.
Ans(a) == IF Cached(a) THEN cache.count
          ELSE IF InTrie(a) THEN leaf[Stop(a)].count ELSE NotFound

\* __vec_delete() of the array at a.
VecDelete(a) ==
  /\ ~ torn /\ a \in DOMAIN array
  /\ array' = Without(array, {a})
  /\ IF Cached(a) THEN cache' = NoArray /\ UNCHANGED <<busy, leaf, spare, torn>>
     ELSE /\ cache' = cache
          /\ IF InTrie(a) THEN Becomes(Removed(Stop(a)))
             ELSE UNCHANGED <<busy, leaf, spare, torn>>

\* An automatic array that is left by longjmp() is never deleted.
Abandon(a) ==
  /\ ~ torn /\ a \in DOMAIN array
  /\ array' = Without(array, {a})
  /\ UNCHANGED <<busy, leaf, spare, cache, torn>>

ArrInit ==
  /\ busy = <<>> /\ leaf = <<>> /\ spare = [nodes |-> 0, records |-> 0]
  /\ cache = NoArray /\ array = <<>> /\ torn = FALSE

ArrNext ==
  \/ \E a \in Addresses, n \in Counts : VecNew(a, n)
  \/ \E a \in Addresses : VecDelete(a) \/ Abandon(a)

ArrSpec == ArrInit /\ [][ArrNext]_arrVars
-----------------------------------------------------------------------------
(* Properties. *)

Below(p) == {q \in DOMAIN leaf : Len(q) >= Len(p) /\ Prefix(q, Len(p)) = p}

ArrTypeOK ==
  /\ DOMAIN busy \cap DOMAIN leaf = {}
  /\ \A p \in DOMAIN leaf : leaf[p].key \in Addresses /\ leaf[p].count \in Counts
  /\ cache = NoArray \/ (cache.key \in Addresses /\ cache.count \in Counts)
  /\ spare.nodes \in Nat /\ spare.records \in Nat

\* Every node is reached, counts what it holds and is needed to tell records
\* apart, and every record is where the digits of its key lead (the assertions
\* that are comments in _arr_map.C: 262, 333, 353), whatever has been inserted
\* and removed.
TrieSound == torn \/
  /\ \A p \in (DOMAIN busy \cup DOMAIN leaf) \ {<<>>} : Parent(p) \in DOMAIN busy
  /\ \A q \in DOMAIN busy : /\ busy[q] = Cardinality(Others(q, q))
                            /\ Cardinality(Below(q)) > 1
  /\ \A p \in DOMAIN leaf : Prefix(leaf[p].key, Len(p)) = p

\* The array that is deleted has as many elements as it was made with: of
\* every array, the count is found, in the cache or in the trie, whatever was
\* made, deleted and abandoned before and at whatever address, as long as no
\* insertion is cut off in the middle.
CountsFound == torn \/ \A a \in DOMAIN array : Ans(a) = array[a]
=============================================================================
