----------------------------- MODULE Dictionary -----------------------------
(***************************************************************************)
(* What the compiler relies on of a Hash: a partial function of keys to    *)
(* values.  The last call and what it gave are seen.                       *)
(***************************************************************************)
EXTENDS Functions

CONSTANTS Keys, Values

VARIABLES dict, answer

Absent == {}
Value(k) == IF k \in DOMAIN dict THEN {dict[k]} ELSE Absent
Bound(k, v) == [y \in DOMAIN dict \cup {k} |-> IF y = k THEN v ELSE dict[y]]

\* The call of this step, and what it gave.
Did(what, k) == answer' # <<>> /\ answer'[1] = what /\ answer'[2] = k
Gave(S) == answer'[3] = S

Store(k, v) == Did("store", k) /\ Gave({v}) /\ dict' = Bound(k, v)

\* A key that is read gets a value if it has none, and which is not said.
Read(k) == Did("read", k) /\ \E v \in Values :
  /\ k \in DOMAIN dict => v = dict[k]
  /\ Gave({v}) /\ dict' = Bound(k, v)

Probe(k) == Did("probe", k) /\ Gave(Value(k)) /\ dict' = dict

Insert(k, v) ==
  /\ Did("insert", k) /\ Gave(Value(k))
  /\ dict' = IF k \in DOMAIN dict THEN dict ELSE Bound(k, v)

Replace(k, v) == Did("replace", k) /\ Gave(Value(k)) /\ dict' = Bound(k, v)

Delete(k) ==
  /\ Did("del", k) /\ Gave({k} \cap DOMAIN dict)
  /\ dict' = Restrict(dict, DOMAIN dict \ {k})

Clear == UNCHANGED answer /\ dict' = <<>>

DictInit == dict = <<>> /\ answer = <<>>

DictNext ==
  \/ \E k \in Keys : Read(k) \/ Probe(k) \/ Delete(k)
  \/ \E k \in Keys, v \in Values : Store(k, v) \/ Insert(k, v) \/ Replace(k, v)
  \/ Clear

DictSpec == DictInit /\ [][DictNext]_<<dict, answer>>
=============================================================================
