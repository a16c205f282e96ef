---------------------------- MODULE LibraryProofs ----------------------------
(***************************************************************************)
(* Proofs about three libraries of the compiler's programs.                *)
(*                                                                         *)
(* SharedString, of programs that are careful: strings that share          *)
(* representations are as good as values, for any number of strings, of    *)
(* places and of sizes.                                                    *)
(*                                                                         *)
(* ArrMap, for any addresses of any length, any numbers of elements and    *)
(* any size of the pools' blocks: the trie is sound, and the number of     *)
(* elements of every array is found.                                       *)
(*                                                                         *)
(* IterList, of programs that are careful: a list with iterators is a      *)
(* sequence with cursors (CursorList), for any number of links and of      *)
(* iterators.                                                              *)
(***************************************************************************)
EXTENDS SharedString, ArrMap, IterList,
        FiniteSetTheorems, SequenceTheorems, WellFoundedInduction, TLAPS

-----------------------------------------------------------------------------
(* The invariant is StringTypeOK with SharingSound.  Where the values are  *)
(* left out it speaks of d and rep alone.                                  *)

Cells == Reps \cup {NullRep}
Texts  == {v \in Seq(Letters) : Len(v) <= MaxLength}
Memory == [Cells -> [max_size : Nat, refc : Nat, str : Seq(Letters)]]

Holders(r) == {s \in Strings : d[s] = r}
OtherHolders(s, r) == Holders(r) \ {s}

Roomy(cell) == cell.refc # 0 => Len(cell.str) < cell.max_size

Sound ==
  /\ d \in [Strings -> Cells \cup {Gone}]
  /\ rep \in Memory
  /\ rep[NullRep] = Free
  /\ \A r \in Reps :
       /\ Len(rep[r].str) <= MaxLength
       /\ rep[r].refc = Cardinality(Holders(r))
       /\ Roomy(rep[r])

Inv == StringTypeOK /\ SharingSound

Value(s) == IF d[s] = Gone THEN Gone ELSE Str(s)

(* String s alone goes elsewhere, or nowhere.  Everybody else is counted   *)
(* as before, and finds what was there.                                    *)
Rehouses(s, r) ==
  /\ d' = [d EXCEPT ![s] = r]
  /\ rep' \in Memory /\ rep'[NullRep] = Free
  /\ \A x \in Reps :
       /\ Len(rep'[x].str) <= MaxLength
       /\ rep'[x].refc = Cardinality(OtherHolders(s, x)) + (IF x = r THEN 1 ELSE 0)
       /\ Roomy(rep'[x])
       /\ OtherHolders(s, x) # {} => rep'[x].str = rep[x].str

-----------------------------------------------------------------------------
LEMMA InvIsSound == Inv <=> Sound /\ TextTypeOK /\ StringsAreValues
<1>1. HoldersCounted <=>
        /\ rep[NullRep] = Free
        /\ \A r \in Reps : rep[r].refc = Cardinality(Holders(r)) /\ Roomy(rep[r])
  BY Zenon DEF HoldersCounted, Holders, Roomy
<1>2. StringTypeOK <=>
        /\ TextTypeOK /\ d \in [Strings -> Cells \cup {Gone}] /\ rep \in Memory
        /\ \A r \in Reps : Len(rep[r].str) <= MaxLength
  <2>1. Reps \cup {NullRep, Gone} = Cells \cup {Gone}
    BY DEF Cells
  <2> QED  BY <2>1, Zenon DEF StringTypeOK, Memory, Cells
<1> QED  BY <1>1, <1>2, Zenon DEF Inv, Sound, SharingSound

(* What the counts of a sound state mean.                                  *)
LEMMA HoldersAre ==
  ASSUME Sound, NEW s \in Strings, NEW x \in Reps
  PROVE  /\ IsFiniteSet(OtherHolders(s, x)) /\ Cardinality(OtherHolders(s, x)) \in Nat
         /\ Cardinality(OtherHolders(s, x)) = 0 <=> OtherHolders(s, x) = {}
         /\ rep[x].refc = Cardinality(OtherHolders(s, x)) + (IF d[s] = x THEN 1 ELSE 0)
<1>1. IsFiniteSet(Holders(x))
  BY FS_Subset, RepsAssumption, Holders(x) \in SUBSET Strings DEF Holders
<1>2. /\ IsFiniteSet(OtherHolders(s, x))
      /\ Cardinality(OtherHolders(s, x)) =
           IF s \in Holders(x) THEN Cardinality(Holders(x)) - 1 ELSE Cardinality(Holders(x))
  BY <1>1, FS_RemoveElement DEF OtherHolders
<1>3. Cardinality(Holders(x)) \in Nat
  BY <1>1, FS_CardinalityType
<1>4. /\ Cardinality(OtherHolders(s, x)) \in Nat
      /\ Cardinality(OtherHolders(s, x)) = 0 <=> OtherHolders(s, x) = {}
  BY <1>2, FS_CardinalityType, FS_EmptySet
<1>5. s \in Holders(x) <=> d[s] = x
  BY DEF Holders
<1>6. rep[x].refc = Cardinality(Holders(x))
  BY DEF Sound
<1> QED  BY <1>2, <1>3, <1>4, <1>5, <1>6

LEMMA Rehoused ==
  ASSUME Sound, NEW s \in Strings, NEW r \in Cells \cup {Gone}, Rehouses(s, r)
  PROVE  /\ Sound'
         /\ \A u \in Strings \ {s} : Value(u)' = Value(u)
         /\ Value(s)' = IF r = Gone THEN Gone ELSE rep'[r].str
<1>1. d' \in [Strings -> Cells \cup {Gone}] /\ d'[s] = r
  BY DEF Sound, Rehouses
<1>2. ASSUME NEW x \in Reps PROVE rep'[x].refc = Cardinality(Holders(x)')
  <2>1. Holders(x)' = IF x = r THEN OtherHolders(s, x) \cup {s} ELSE OtherHolders(s, x)
    BY DEF Sound, Rehouses, Holders, OtherHolders
  <2>2. s \notin OtherHolders(s, x)
    BY DEF OtherHolders
  <2>3. Cardinality(OtherHolders(s, x) \cup {s}) = Cardinality(OtherHolders(s, x)) + 1
    BY <2>2, HoldersAre, FS_AddElement
  <2>4. rep'[x].refc = Cardinality(OtherHolders(s, x)) + (IF x = r THEN 1 ELSE 0)
    BY DEF Rehouses
  <2> QED  BY <2>1, <2>3, <2>4, HoldersAre
<1>3. Sound'
  BY <1>1, <1>2 DEF Sound, Rehouses, Roomy
<1>4. ASSUME NEW u \in Strings \ {s} PROVE Value(u)' = Value(u)
  <2>1. d'[u] = d[u]
    BY DEF Sound, Rehouses
  <2>2. CASE d[u] \in Reps
    <3>1. u \in OtherHolders(s, d[u])
      BY DEF OtherHolders, Holders
    <3>2. rep'[d[u]].str = rep[d[u]].str
      BY <2>2, <3>1 DEF Rehouses
    <3> QED  BY <2>1, <3>2 DEF Value, Str
  <2>3. CASE d[u] \in {NullRep, Gone}
    BY <2>1, <2>3 DEF Value, Str, Sound, Rehouses
  <2> QED  BY <2>2, <2>3 DEF Sound, Cells
<1>5. Value(s)' = IF r = Gone THEN Gone ELSE rep'[r].str
  BY <1>1 DEF Value, Str
<1> QED  BY <1>3, <1>4, <1>5

(* String s, and no other, has the value v.                                *)
Turns(s, v) ==
  /\ Sound'
  /\ \A u \in Strings \ {s} : Value(u)' = Value(u)
  /\ Value(s)' = v

LEMMA RehousedBecomes ==
  ASSUME Sound, NEW s \in Strings, NEW r \in Cells \cup {Gone}, Rehouses(s, r)
  PROVE  Turns(s, IF r = Gone THEN Gone ELSE rep'[r].str)
BY Rehoused DEF Turns

LEMMA BecomesKeepsInv ==
  ASSUME Inv, NEW s \in Strings, NEW v \in Seq(Letters) \cup {Gone},
         Turns(s, v), IsNow(s, v)
  PROVE  Inv'
<1>1. Sound /\ TextTypeOK /\ \A u \in Strings : text[u] = Value(u)
  BY InvIsSound DEF StringsAreValues, Value
<1>2. TextTypeOK'
  BY <1>1 DEF TextTypeOK, IsNow
<1>3. \A u \in Strings : text'[u] = IF u = s THEN v ELSE text[u]
  BY <1>1 DEF TextTypeOK, IsNow
<1>4. ASSUME NEW u \in Strings PROVE text'[u] = Value(u)'
  BY <1>1, <1>3 DEF Turns
<1>5. Sound' /\ StringsAreValues'
  BY <1>4 DEF Turns, StringsAreValues, Value
<1> QED  BY <1>2, <1>5, InvIsSound, PTL

-----------------------------------------------------------------------------
(* The operations on memory.                                               *)

LEMMA TextFacts ==
  ASSUME NEW v \in Texts
  PROVE  /\ Len(v) \in Lengths /\ Len(v) \in Nat
         /\ Len(v) = 0 <=> v = <<>>
BY EmptySeq, LenProperties, RoomAssumption DEF Texts, Lengths

LEMMA RoomSuffices ==
  ASSUME NEW n \in Lengths
  PROVE  Room(n) \in Nat /\ n < Room(n)
BY RoomAssumption DEF Room, Lengths

LEMMA NewRepIs ==
  ASSUME NEW mem \in Memory, NEW v \in Texts, NEW r \in Vacant(mem, Len(v))
  PROVE  /\ NewRep(mem, r, v) \in Memory /\ r \in Cells
         /\ \A x \in Cells \ {r} : NewRep(mem, r, v)[x] = mem[x]
         /\ v = <<>> => r = NullRep /\ NewRep(mem, r, v) = mem
         /\ v # <<>> =>
              /\ r \in Reps /\ mem[r].refc = 0
              /\ NewRep(mem, r, v)[r] = [max_size |-> Room(Len(v)), refc |-> 1, str |-> v]
<1>1. CASE v = <<>>
  BY <1>1, TextFacts, RepsAssumption DEF NewRep, Vacant, Cells
<1>2. CASE v # <<>>
  <2>1. r \in Reps /\ mem[r].refc = 0
    BY <1>2, TextFacts DEF Vacant
  <2>2. [max_size |-> Room(Len(v)), refc |-> 1, str |-> v] \in
          [max_size : Nat, refc : Nat, str : Seq(Letters)]
    BY TextFacts, RoomSuffices DEF Texts
  <2> QED  BY <1>2, <2>1, <2>2 DEF NewRep, Memory, Cells
<1> QED  BY <1>1, <1>2

LEMMA ReleasedIs ==
  ASSUME NEW mem \in Memory, NEW r \in Cells
  PROVE  /\ Released(mem, r) \in Memory
         /\ \A x \in Cells \ {r} : Released(mem, r)[x] = mem[x]
         /\ mem[r].refc = 0 => Released(mem, r) = mem
         /\ mem[r].refc = 1 => Released(mem, r)[r] = Free
         /\ mem[r].refc > 1 =>
              Released(mem, r)[r] = [max_size |-> mem[r].max_size, refc |-> mem[r].refc - 1,
                                     str |-> mem[r].str]
<1>1. mem[r] \in [max_size : Nat, refc : Nat, str : Seq(Letters)]
  BY DEF Memory
<1>2. Free \in [max_size : Nat, refc : Nat, str : Seq(Letters)]
  BY EmptySeq DEF Free
<1>3. CASE mem[r].refc = 0
  BY <1>3 DEF Released
<1>4. CASE mem[r].refc = 1
  <2>1. Released(mem, r) = [mem EXCEPT ![r] = Free]
    BY <1>4 DEF Released
  <2> QED  BY <2>1, <1>2, <1>4 DEF Memory
<1>5. CASE mem[r].refc > 1
  <2>1. Released(mem, r) = [mem EXCEPT ![r].refc = @ - 1]
    BY <1>5 DEF Released
  <2> DEFINE cell == [max_size |-> mem[r].max_size, refc |-> mem[r].refc - 1,
                      str |-> mem[r].str]
  <2>2. Released(mem, r) = [mem EXCEPT ![r] = cell]
    BY <2>1, <1>1 DEF Memory
  <2>3. cell \in [max_size : Nat, refc : Nat, str : Seq(Letters)]
    BY <1>1, <1>5
  <2> QED  BY <2>2, <2>3, <1>5 DEF Memory
<1> QED  BY <1>1, <1>3, <1>4, <1>5

LEMMA HeldIs ==
  ASSUME NEW mem \in Memory, NEW r \in Cells
  PROVE  /\ Held(mem, r) \in Memory
         /\ \A x \in Cells \ {r} : Held(mem, r)[x] = mem[x]
         /\ mem[r].refc = 0 => Held(mem, r) = mem
         /\ mem[r].refc # 0 =>
              Held(mem, r)[r] = [max_size |-> mem[r].max_size, refc |-> mem[r].refc + 1,
                                 str |-> mem[r].str]
<1>1. mem[r] \in [max_size : Nat, refc : Nat, str : Seq(Letters)]
  BY DEF Memory
<1>2. CASE mem[r].refc = 0
  BY <1>2 DEF Held
<1>3. CASE mem[r].refc # 0
  <2> DEFINE cell == [max_size |-> mem[r].max_size, refc |-> mem[r].refc + 1,
                      str |-> mem[r].str]
  <2>1. Held(mem, r) = [mem EXCEPT ![r].refc = @ + 1]
    BY <1>3 DEF Held
  <2>2. Held(mem, r) = [mem EXCEPT ![r] = cell]
    BY <2>1, <1>1 DEF Memory
  <2>3. cell \in [max_size : Nat, refc : Nat, str : Seq(Letters)]
    BY <1>1
  <2> QED  BY <2>2, <2>3, <1>3 DEF Memory
<1> QED  BY <1>1, <1>2, <1>3

(* Memory where place r, if it is one, has got one more holder, and the    *)
(* others are as they were.                                                *)
Prepared(mem, r) ==
  /\ mem \in Memory /\ mem[NullRep] = Free
  /\ \A x \in Reps :
       /\ Len(mem[x].str) <= MaxLength
       /\ mem[x].refc = rep[x].refc + (IF x = r THEN 1 ELSE 0)
       /\ Roomy(mem[x])
       /\ rep[x].refc # 0 => mem[x].str = rep[x].str

LEMMA FreeFacts ==
  /\ Free.refc = 0 /\ Free.str = <<>> /\ Len(Free.str) <= MaxLength /\ Roomy(Free)
  /\ Len(Free.str) = 0
BY EmptySeq, RoomAssumption DEF Free, Roomy

LEMMA RepFacts ==
  ASSUME NEW mem \in Memory, NEW x \in Cells
  PROVE  mem[x].refc \in Nat /\ mem[x].max_size \in Nat /\ mem[x].str \in Seq(Letters)
BY DEF Memory

LEMMA NewPrepared ==
  ASSUME Sound, NEW v \in Texts, NEW r \in Vacant(rep, Len(v))
  PROVE  /\ Prepared(NewRep(rep, r, v), r) /\ r \in Cells
         /\ NewRep(rep, r, v)[r].str = v
         /\ r # NullRep => rep[r].refc = 0
<1>1. rep \in Memory /\ rep[NullRep] = Free
  BY DEF Sound
<1>2. CASE v = <<>>
  <2>1. r = NullRep /\ NewRep(rep, r, v) = rep /\ r \notin Reps
    BY <1>1, <1>2, NewRepIs, RepsAssumption
  <2>2. Prepared(rep, r)
    BY <2>1, <1>1, RepFacts DEF Prepared, Sound, Cells
  <2> QED  BY <1>1, <1>2, <2>1, <2>2, FreeFacts DEF Cells
<1>3. CASE v # <<>>
  <2> DEFINE cell == [max_size |-> Room(Len(v)), refc |-> 1, str |-> v]
  <2>1. /\ NewRep(rep, r, v) \in Memory /\ r \in Reps /\ rep[r].refc = 0
        /\ \A x \in Cells \ {r} : NewRep(rep, r, v)[x] = rep[x]
        /\ NewRep(rep, r, v)[r] = cell
    BY <1>1, <1>3, NewRepIs
  <2>2. Len(cell.str) <= MaxLength /\ Roomy(cell) /\ cell.refc = 1
    BY TextFacts, RoomSuffices DEF Texts, Roomy
  <2>3. NullRep # r
    BY <2>1, RepsAssumption
  <2>4. ASSUME NEW x \in Reps \ {r}
        PROVE  /\ Len(NewRep(rep, r, v)[x].str) <= MaxLength
               /\ NewRep(rep, r, v)[x].refc = rep[x].refc + 0
               /\ Roomy(NewRep(rep, r, v)[x])
               /\ NewRep(rep, r, v)[x].str = rep[x].str
    BY <1>1, <2>1, RepFacts DEF Sound, Cells
  <2> HIDE DEF cell
  <2>5. Prepared(NewRep(rep, r, v), r)
    BY <1>1, <2>1, <2>2, <2>3, <2>4 DEF Prepared, Cells
  <2> QED  BY <2>1, <2>5 DEF cell, Cells
<1> QED  BY <1>2, <1>3

LEMMA HeldPrepared ==
  ASSUME Sound, NEW r \in Cells, r = NullRep \/ rep[r].refc # 0
  PROVE  Prepared(Held(rep, r), r) /\ Held(rep, r)[r].str = rep[r].str
<1>1. rep \in Memory /\ rep[NullRep] = Free
  BY DEF Sound
<1>2. CASE r = NullRep
  <2>1. Held(rep, r) = rep /\ r \notin Reps
    BY <1>1, <1>2, HeldIs, FreeFacts, RepsAssumption
  <2> QED  BY <2>1, <1>1, RepFacts DEF Prepared, Sound, Cells
<1>3. CASE r # NullRep
  <2> DEFINE cell == [max_size |-> rep[r].max_size, refc |-> rep[r].refc + 1,
                      str |-> rep[r].str]
  <2>1. /\ Held(rep, r) \in Memory /\ Held(rep, r)[r] = cell /\ r \in Reps
        /\ \A x \in Cells \ {r} : Held(rep, r)[x] = rep[x]
    BY <1>1, <1>3, HeldIs DEF Cells
  <2>2. /\ Len(cell.str) <= MaxLength /\ Roomy(cell)
        /\ cell.refc = rep[r].refc + 1 /\ cell.str = rep[r].str
    BY <1>3, <2>1 DEF Sound, Roomy
  <2>3. ASSUME NEW x \in Reps \ {r}
        PROVE  /\ Len(Held(rep, r)[x].str) <= MaxLength
               /\ Held(rep, r)[x].refc = rep[x].refc + 0
               /\ Roomy(Held(rep, r)[x])
               /\ Held(rep, r)[x].str = rep[x].str
    BY <1>1, <2>1, RepFacts DEF Sound, Cells
  <2> HIDE DEF cell
  <2>4. Held(rep, r)[NullRep] = Free
    BY <1>1, <1>3, <2>1 DEF Cells
  <2>5. Prepared(Held(rep, r), r)
    BY <2>1, <2>2, <2>3, <2>4 DEF Prepared
  <2> QED  BY <2>1, <2>2, <2>5
<1> QED  BY <1>2, <1>3

LEMMA NobodyPrepared == ASSUME Sound PROVE Prepared(rep, Gone)
BY RepFacts, RepsAssumption DEF Sound, Prepared, Cells

(* A string that does not exist yet takes the place.                       *)
LEMMA BirthRehouses ==
  ASSUME Sound, NEW s \in Strings, d[s] = Gone, NEW r \in Cells,
         Prepared(rep', r), d' = [d EXCEPT ![s] = r]
  PROVE  Turns(s, rep'[r].str)
<1>1. ASSUME NEW x \in Reps
      PROVE  /\ rep'[x].refc = Cardinality(OtherHolders(s, x)) + (IF x = r THEN 1 ELSE 0)
             /\ OtherHolders(s, x) # {} => rep'[x].str = rep[x].str
  <2>1. d[s] # x
    BY RepsAssumption
  <2> QED  BY <2>1, HoldersAre DEF Prepared
<1>2. Rehouses(s, r)
  BY <1>1 DEF Rehouses, Prepared
<1>3. r # Gone
  BY RepsAssumption DEF Cells
<1> QED  BY <1>2, <1>3, RehousedBecomes

(* A string leaves its place for r.                                        *)
LEMMA ReleaseRehouses ==
  ASSUME Sound, NEW s \in Strings, d[s] \in Cells, NEW r \in Cells \cup {Gone},
         NEW mem, Prepared(mem, r),
         d' = [d EXCEPT ![s] = r], rep' = Released(mem, d[s])
  PROVE  Turns(s, IF r = Gone THEN Gone ELSE mem[r].str)
<1> DEFINE q == d[s]
<1>1. /\ mem \in Memory /\ mem[NullRep] = Free /\ q \in Cells
      /\ rep' \in Memory /\ \A x \in Cells \ {q} : rep'[x] = mem[x]
  BY ReleasedIs DEF Prepared
<1>2. rep'[NullRep] = Free
  <2>1. CASE q = NullRep
    <3>1. mem[q].refc = 0
      BY <1>1, <2>1, FreeFacts
    <3>2. rep' = mem
      BY <1>1, <3>1, ReleasedIs
    <3> QED  BY <1>1, <3>2
  <2>2. CASE q # NullRep
    BY <1>1, <2>2 DEF Cells
  <2> QED  BY <2>1, <2>2
<1>3. ASSUME NEW x \in Reps
      PROVE  /\ Len(rep'[x].str) <= MaxLength
             /\ rep'[x].refc = Cardinality(OtherHolders(s, x)) + (IF x = r THEN 1 ELSE 0)
             /\ Roomy(rep'[x])
             /\ OtherHolders(s, x) # {} \/ x = r => rep'[x].str = mem[x].str
             /\ OtherHolders(s, x) # {} => mem[x].str = rep[x].str
  <2>1. /\ Len(mem[x].str) <= MaxLength /\ Roomy(mem[x])
        /\ mem[x].refc = Cardinality(OtherHolders(s, x)) + (IF q = x THEN 1 ELSE 0)
                                                   + (IF x = r THEN 1 ELSE 0)
        /\ Cardinality(OtherHolders(s, x)) \in Nat
        /\ OtherHolders(s, x) # {} => Cardinality(OtherHolders(s, x)) # 0 /\ mem[x].str = rep[x].str
    BY HoldersAre DEF Prepared
  <2>2. CASE x # q
    BY <1>1, <2>1, <2>2 DEF Cells
  <2>3. CASE x = q /\ mem[x].refc = 1
    <3>1. rep'[x] = Free
      BY <1>1, <2>3, ReleasedIs DEF Cells
    <3>2. Cardinality(OtherHolders(s, x)) = 0 /\ x # r
      BY <2>1, <2>3
    <3> QED  BY <2>1, <3>1, <3>2, FreeFacts
  <2>4. CASE x = q /\ mem[x].refc # 1
    <3>1. mem[x].refc > 1 /\ mem[x].refc \in Nat
      BY <2>1, <2>4
    <3>2. rep'[x] = [max_size |-> mem[x].max_size, refc |-> mem[x].refc - 1,
                     str |-> mem[x].str]
      BY <1>1, <2>4, <3>1, ReleasedIs DEF Cells
    <3> QED  BY <2>1, <2>4, <3>1, <3>2 DEF Roomy
  <2> QED  BY <2>2, <2>3, <2>4
<1>4. Rehouses(s, r)
  BY <1>1, <1>2, <1>3 DEF Rehouses
<1>5. r # Gone => rep'[r].str = mem[r].str
  BY <1>1, <1>2, <1>3 DEF Cells
<1> QED  BY <1>4, <1>5, RehousedBecomes

LEMMA Rehomed ==
  ASSUME Sound, NEW s \in Strings, d[s] \in Cells, NEW r \in Cells, NEW v,
         NEW mem, Prepared(mem, r), mem[r].str = v,
         d' = [d EXCEPT ![s] = r], rep' = Released(mem, d[s])
  PROVE  Turns(s, v)
<1>1. r # Gone
  BY RepsAssumption DEF Cells
<1> QED  BY <1>1, ReleaseRehouses

(* ... for a new one that is made when the old one has been released.      *)
LEMMA MovedAfterBecomes ==
  ASSUME Sound, NEW s \in Strings, d[s] \in Cells, NEW v \in Texts, MovedAfter(s, v)
  PROVE  Turns(s, v)
<1> DEFINE q == d[s]
           left == Released(rep, q)
<1>1. rep \in Memory /\ rep[NullRep] = Free
  BY DEF Sound
<1>2. left \in Memory /\ \A x \in Cells \ {q} : left[x] = rep[x]
  BY <1>1, ReleasedIs
<1>3. left[NullRep] = Free
  <2>1. CASE q = NullRep
    BY <1>1, <2>1, ReleasedIs, FreeFacts
  <2>2. CASE q # NullRep
    BY <1>1, <1>2, <2>2 DEF Cells
  <2> QED  BY <2>1, <2>2
<1>4. ASSUME NEW x \in Reps
      PROVE  /\ Len(left[x].str) <= MaxLength /\ Roomy(left[x])
             /\ left[x].refc = Cardinality(OtherHolders(s, x))
             /\ OtherHolders(s, x) # {} => left[x].refc # 0 /\ left[x].str = rep[x].str
  <2>1. /\ Len(rep[x].str) <= MaxLength /\ Roomy(rep[x])
        /\ rep[x].refc = Cardinality(OtherHolders(s, x)) + (IF q = x THEN 1 ELSE 0)
        /\ Cardinality(OtherHolders(s, x)) \in Nat
        /\ OtherHolders(s, x) # {} => Cardinality(OtherHolders(s, x)) # 0
    BY HoldersAre DEF Sound
  <2>2. CASE x # q
    BY <1>2, <2>1, <2>2 DEF Cells
  <2>3. CASE x = q /\ rep[x].refc = 1
    <3>1. left[x] = Free
      BY <1>1, <2>3, ReleasedIs DEF Cells
    <3>2. Cardinality(OtherHolders(s, x)) = 0
      BY <2>1, <2>3
    <3> QED  BY <2>1, <3>1, <3>2, FreeFacts
  <2>4. CASE x = q /\ rep[x].refc # 1
    <3>1. rep[x].refc > 1 /\ rep[x].refc \in Nat
      BY <2>1, <2>4
    <3>2. left[x] = [max_size |-> rep[x].max_size, refc |-> rep[x].refc - 1,
                     str |-> rep[x].str]
      BY <1>1, <2>4, <3>1, ReleasedIs DEF Cells
    <3> QED  BY <2>1, <2>4, <3>1, <3>2 DEF Roomy
  <2> QED  BY <2>2, <2>3, <2>4
<1> HIDE DEF left
<1>5. PICK r \in Vacant(left, Len(v)) :
        rep' = NewRep(left, r, v) /\ d' = [d EXCEPT ![s] = r]
  BY Zenon DEF MovedAfter, left
<1>6. /\ rep' \in Memory /\ r \in Cells
      /\ \A x \in Cells \ {r} : rep'[x] = left[x]
      /\ v = <<>> => r = NullRep /\ rep' = left
      /\ v # <<>> => /\ r \in Reps /\ left[r].refc = 0
                     /\ rep'[r] = [max_size |-> Room(Len(v)), refc |-> 1, str |-> v]
  BY <1>2, <1>5, NewRepIs
<1>7. rep'[NullRep] = Free /\ rep'[r].str = v
  BY <1>3, <1>6, FreeFacts, RepsAssumption DEF Cells
<1>8. ASSUME NEW x \in Reps
      PROVE  /\ Len(rep'[x].str) <= MaxLength
             /\ rep'[x].refc = Cardinality(OtherHolders(s, x)) + (IF x = r THEN 1 ELSE 0)
             /\ Roomy(rep'[x])
             /\ OtherHolders(s, x) # {} => rep'[x].str = rep[x].str
  <2>1. Cardinality(OtherHolders(s, x)) \in Nat
    BY HoldersAre
  <2>2. CASE x # r
    BY <1>4, <1>6, <2>1, <2>2 DEF Cells
  <2>3. CASE x = r
    <3>1. v # <<>>
      BY <1>6, <2>3, RepsAssumption
    <3>2. Cardinality(OtherHolders(s, x)) = 0 /\ OtherHolders(s, x) = {}
      BY <1>4, <1>6, <2>3, <3>1
    <3>3. rep'[x] = [max_size |-> Room(Len(v)), refc |-> 1, str |-> v]
      BY <1>6, <2>3, <3>1
    <3> QED  BY <2>3, <3>2, <3>3, TextFacts, RoomSuffices DEF Texts, Roomy
  <2> QED  BY <2>2, <2>3
<1>9. Rehouses(s, r)
  BY <1>5, <1>6, <1>7, <1>8 DEF Rehouses
<1>10. r # Gone
  BY <1>6, RepsAssumption DEF Cells
<1> QED  BY <1>6, <1>7, <1>9, <1>10, RehousedBecomes

LEMMA MovedAwayBecomes ==
  ASSUME Sound, NEW s \in Strings, d[s] \in Cells, NEW v \in Texts, MovedAway(s, v)
  PROVE  Turns(s, v)
<1>1. PICK r \in Vacant(rep, Len(v)) :
        rep' = Released(NewRep(rep, r, v), d[s]) /\ d' = [d EXCEPT ![s] = r]
  BY Zenon DEF MovedAway
<1>2. Prepared(NewRep(rep, r, v), r) /\ r \in Cells /\ NewRep(rep, r, v)[r].str = v
  BY NewPrepared
<1> QED  BY <1>1, <1>2, Rehomed

(* A string that holds its representation alone is changed where it is.    *)
LEMMA InPlaceBecomes ==
  ASSUME Sound, NEW s \in Strings, d[s] \in Reps, rep[d[s]].refc = 1,
         NEW v \in Texts, Len(v) < rep[d[s]].max_size, InPlace(s, v)
  PROVE  Turns(s, v)
<1> DEFINE q == d[s]
           cell == [max_size |-> rep[q].max_size, refc |-> 1, str |-> v]
<1>1. rep \in Memory /\ d' = d /\ d' = [d EXCEPT ![s] = q]
  BY DEF Sound, InPlace
<1>2. rep' = [rep EXCEPT ![q] = cell]
  <2>1. rep[q] \in [max_size : Nat, refc : Nat, str : Seq(Letters)]
    BY <1>1 DEF Memory, Cells
  <2>2. [rep[q] EXCEPT !.str = v] = cell
    BY <2>1
  <2>3. rep' = [rep EXCEPT ![q] = [rep[q] EXCEPT !.str = v]]
    BY DEF InPlace
  <2> QED  BY <2>2, <2>3
<1>3. /\ rep' \in Memory /\ rep'[NullRep] = Free /\ rep'[q] = cell
      /\ \A x \in Reps \ {q} : rep'[x] = rep[x]
  BY <1>1, <1>2, RepsAssumption DEF Memory, Cells, Texts, Sound
<1>4. ASSUME NEW x \in Reps
      PROVE  /\ Len(rep'[x].str) <= MaxLength
             /\ rep'[x].refc = Cardinality(OtherHolders(s, x)) + (IF x = q THEN 1 ELSE 0)
             /\ Roomy(rep'[x])
             /\ OtherHolders(s, x) # {} => rep'[x].str = rep[x].str
  <2>1. CASE x = q
    <3>1. Cardinality(OtherHolders(s, x)) = 0 /\ OtherHolders(s, x) = {}
      BY <2>1, HoldersAre
    <3> QED  BY <1>3, <2>1, <3>1 DEF Texts, Roomy
  <2>2. CASE x # q
    BY <1>3, <2>2, HoldersAre DEF Sound
  <2> QED  BY <2>1, <2>2
<1>5. Rehouses(s, q)
  BY <1>1, <1>3, <1>4 DEF Rehouses
<1>6. q \in Cells /\ q # Gone /\ rep'[q].str = v
  BY <1>3, RepsAssumption DEF Cells
<1> QED  BY <1>5, <1>6, RehousedBecomes

LEMMA AloneUnlessMoved ==
  ASSUME Sound, NEW s \in Strings, d[s] \in Cells, NEW n \in Nat, ~ MustMove(s, n)
  PROVE  d[s] \in Reps /\ rep[d[s]].refc = 1 /\ n < rep[d[s]].max_size
<1>1. rep[d[s]].refc <= 1 /\ n < rep[d[s]].max_size /\ rep[d[s]].refc \in Nat
  BY RepFacts DEF MustMove, Sound
<1>2. d[s] # NullRep
  BY <1>1 DEF Free, Sound
<1>3. d[s] \in Reps
  BY <1>2 DEF Cells
<1>4. rep[d[s]].refc # 0
  BY <1>3, HoldersAre
<1> QED  BY <1>1, <1>3, <1>4

LEMMA ChangeBecomes ==
  ASSUME Sound, NEW s \in Strings, d[s] \in Cells, NEW v \in Texts, Change(s, v)
  PROVE  Turns(s, v)
<1>1. CASE MustMove(s, Len(v))
  BY <1>1, MovedAwayBecomes DEF Change
<1>2. CASE ~ MustMove(s, Len(v))
  BY <1>2, TextFacts, AloneUnlessMoved, InPlaceBecomes DEF Change
<1> QED  BY <1>1, <1>2

LEMMA BeginsBecomes ==
  ASSUME Sound, NEW s \in Strings, d[s] = Gone, NEW v \in Texts, Begins(s, v)
  PROVE  Turns(s, v)
<1>1. PICK r \in Vacant(rep, Len(v)) :
        rep' = NewRep(rep, r, v) /\ d' = [d EXCEPT ![s] = r]
  BY Zenon DEF Begins
<1>2. Prepared(rep', r) /\ r \in Cells /\ rep'[r].str = v
  BY <1>1, NewPrepared
<1> QED  BY <1>1, <1>2, BirthRehouses

LEMMA HeldBySomebody ==
  ASSUME Sound, NEW u \in Strings, d[u] \in Cells
  PROVE  d[u] = NullRep \/ rep[d[u]].refc # 0
<1>1. CASE d[u] \in Reps
  BY <1>1, HoldersAre
<1> QED  BY <1>1 DEF Cells

LEMMA BeginsAsBecomes ==
  ASSUME Sound, NEW s \in Strings, d[s] = Gone, NEW u \in Strings, d[u] \in Cells,
         BeginsAs(s, u)
  PROVE  Turns(s, Str(u))
<1>1. Prepared(rep', d[u]) /\ rep'[d[u]].str = rep[d[u]].str
  BY HeldPrepared, HeldBySomebody DEF BeginsAs
<1> QED  BY <1>1, BirthRehouses DEF BeginsAs, Str

-----------------------------------------------------------------------------
(* The values.                                                             *)

LEMMA PartIs ==
  ASSUME NEW v \in Texts, NEW k, NEW n, IsPart(v, k, n)
  PROVE  PartOf(v, k, n) \in Texts /\ Len(PartOf(v, k, n)) = n
<1>1. /\ v \in Seq(Letters) /\ Len(v) \in Nat /\ k \in Nat /\ n \in Nat
      /\ k + n <= Len(v) /\ Len(v) <= MaxLength
  BY LenProperties DEF Texts, IsPart
<1>2. \A i \in (k + 1) .. (k + n) : v[i] \in Letters
  BY <1>1, ElementOfSeq
<1>3. PartOf(v, k, n) \in Seq(Letters)
      /\ Len(PartOf(v, k, n)) = IF k + 1 <= k + n THEN k + n - (k + 1) + 1 ELSE 0
  BY <1>1, <1>2, SubSeqProperties DEF PartOf
<1> QED  BY <1>1, <1>3, RoomAssumption DEF Texts

LEMMA SplicedIs ==
  ASSUME NEW v \in Texts, NEW k, NEW n, IsPart(v, k, n), NEW w \in Texts,
         Len(v) - n + Len(w) <= MaxLength
  PROVE  Spliced(v, k, n, w) \in Texts
<1>1. /\ v \in Seq(Letters) /\ w \in Seq(Letters) /\ Len(v) \in Nat /\ Len(w) \in Nat
      /\ k \in Nat /\ n \in Nat /\ k + n <= Len(v)
  BY LenProperties DEF Texts, IsPart
<1>2. PartOf(v, 0, k) \in Seq(Letters) /\ Len(PartOf(v, 0, k)) = k
  BY <1>1, PartIs DEF IsPart, Texts
<1>3. \A i \in (k + n + 1) .. Len(v) : v[i] \in Letters
  BY <1>1, ElementOfSeq
<1>4. /\ SubSeq(v, k + n + 1, Len(v)) \in Seq(Letters)
      /\ Len(SubSeq(v, k + n + 1, Len(v))) = Len(v) - (k + n)
  BY <1>1, <1>3, SubSeqProperties
<1>5. PartOf(v, 0, k) \o w \in Seq(Letters) /\ Len(PartOf(v, 0, k) \o w) = k + Len(w)
  BY <1>1, <1>2, ConcatProperties
<1>6. /\ Spliced(v, k, n, w) \in Seq(Letters)
      /\ Len(Spliced(v, k, n, w)) = k + Len(w) + (Len(v) - (k + n))
  BY <1>4, <1>5, ConcatProperties DEF Spliced
<1> QED  BY <1>1, <1>6 DEF Texts

LEMMA LiteralIs == Literals \subseteq Texts
BY LiteralsAssumption DEF Texts

(* What may be read of a string that exists.                               *)
LEMMA Readable ==
  ASSUME Inv, NEW s \in Living
  PROVE  s \in Strings /\ d[s] \in Cells /\ Str(s) \in Texts /\ text[s] = Str(s)
<1>1. Sound /\ StringsAreValues
  BY InvIsSound
<1>2. s \in Strings /\ d[s] \in Cells
  BY <1>1 DEF Living, Sound
<1>3. Str(s) \in Seq(Letters)
  BY <1>1, <1>2, RepFacts DEF Str, Sound
<1>4. Len(Str(s)) <= MaxLength
  BY <1>1, <1>2, FreeFacts DEF Str, Sound, Cells
<1>5. text[s] = Str(s)
  BY <1>1, <1>2 DEF StringsAreValues, Living
<1> QED  BY <1>2, <1>3, <1>4, <1>5 DEF Texts

(* A call is done right when the value that it gives is the one it is for. *)
LEMMA Right ==
  ASSUME Inv, NEW s \in Strings, NEW v \in Texts \cup {Gone}, Turns(s, v), IsNow(s, v)
  PROVE  Inv'
BY BecomesKeepsInv DEF Texts

-----------------------------------------------------------------------------
(* The calls.                                                              *)

LEMMA ConstructRight ==
  ASSUME Inv, NEW s \in Strings, NEW v \in Literals, Construct(s, v)
  PROVE  Inv'
BY InvIsSound, LiteralIs, BeginsBecomes, Right DEF Construct

LEMMA ConstructPartRight ==
  ASSUME Inv, RashStrings = {}, NEW s \in Strings, NEW u \in Strings, NEW k, NEW n,
         ConstructPart(s, u, k, n)
  PROVE  Inv'
<1>1. /\ d[s] = Gone /\ u \in Living /\ IsPart(Str(u), k, n)
      /\ k = 0 => n = Len(Str(u))
      /\ IF Whole(u, k, n) THEN BeginsAs(s, u) ELSE Begins(s, PartOf(Str(u), k, n))
      /\ IsNow(s, PartOf(text[u], k, n))
  BY DEF ConstructPart, Careful
<1>2. d[u] \in Cells /\ Str(u) \in Texts /\ text[u] = Str(u)
  BY <1>1, Readable
<1>3. PartOf(Str(u), k, n) \in Texts
  BY <1>1, <1>2, PartIs
<1>4. CASE Whole(u, k, n)
  <2>1. PartOf(Str(u), k, n) = Str(u)
    BY <1>1, <1>2, <1>4, SubSeqFull, LenProperties DEF Whole, PartOf, Texts
  <2>2. Turns(s, Str(u))
    BY <1>1, <1>2, <1>4, InvIsSound, BeginsAsBecomes
  <2> QED  BY <1>1, <1>2, <2>1, <2>2, Right
<1>5. CASE ~ Whole(u, k, n)
  BY <1>1, <1>2, <1>3, <1>5, InvIsSound, BeginsBecomes, Right
<1> QED  BY <1>4, <1>5

LEMMA SubStringRight ==
  ASSUME Inv, NEW s \in Strings, NEW u \in Strings, NEW k, NEW n, SubString(s, u, k, n)
  PROVE  Inv'
<1>1. /\ d[s] = Gone /\ u \in Living /\ IsPart(Str(u), k, n)
      /\ IF k = 0 /\ n = Len(Str(u)) THEN BeginsAs(s, u)
         ELSE Begins(s, PartOf(Str(u), k, n))
      /\ IsNow(s, PartOf(text[u], k, n))
  BY DEF SubString
<1>2. d[u] \in Cells /\ Str(u) \in Texts /\ text[u] = Str(u)
  BY <1>1, Readable
<1>3. PartOf(Str(u), k, n) \in Texts
  BY <1>1, <1>2, PartIs
<1>4. CASE k = 0 /\ n = Len(Str(u))
  <2>1. PartOf(Str(u), k, n) = Str(u)
    BY <1>2, <1>4, SubSeqFull, LenProperties DEF PartOf, Texts
  <2>2. Turns(s, Str(u))
    BY <1>1, <1>2, <1>4, InvIsSound, BeginsAsBecomes
  <2> QED  BY <1>1, <1>2, <2>1, <2>2, Right
<1>5. CASE ~ (k = 0 /\ n = Len(Str(u)))
  BY <1>1, <1>2, <1>3, <1>5, InvIsSound, BeginsBecomes, Right
<1> QED  BY <1>4, <1>5

LEMMA ConcatenateRight ==
  ASSUME Inv, NEW s \in Strings, NEW u \in Strings, NEW v \in Strings, Concatenate(s, u, v)
  PROVE  Inv'
<1>1. /\ d[s] = Gone /\ u \in Living /\ v \in Living
      /\ Len(Str(u)) + Len(Str(v)) <= MaxLength
      /\ IsNow(s, text[u] \o text[v])
  BY DEF Concatenate
<1>2. /\ d[u] \in Cells /\ Str(u) \in Texts /\ text[u] = Str(u)
      /\ d[v] \in Cells /\ Str(v) \in Texts /\ text[v] = Str(v)
  BY <1>1, Readable
<1>3. Str(u) \o Str(v) \in Texts
  BY <1>1, <1>2, ConcatProperties DEF Texts
<1>4. CASE Str(v) = <<>>
  <2>1. BeginsAs(s, u)
    BY <1>4 DEF Concatenate
  <2>2. Str(u) \o Str(v) = Str(u)
    BY <1>2, <1>4, ConcatEmptySeq DEF Texts
  <2> QED  BY <1>1, <1>2, <2>1, <2>2, InvIsSound, BeginsAsBecomes, Right
<1>5. CASE Str(v) # <<>> /\ Str(u) = <<>>
  <2>1. BeginsAs(s, v)
    BY <1>5 DEF Concatenate
  <2>2. Str(u) \o Str(v) = Str(v)
    BY <1>2, <1>5, ConcatEmptySeq DEF Texts
  <2> QED  BY <1>1, <1>2, <2>1, <2>2, InvIsSound, BeginsAsBecomes, Right
<1>6. CASE Str(v) # <<>> /\ Str(u) # <<>>
  <2>1. Begins(s, Str(u) \o Str(v))
    BY <1>6 DEF Concatenate
  <2> QED  BY <1>1, <1>2, <1>3, <2>1, InvIsSound, BeginsBecomes, Right
<1> QED  BY <1>4, <1>5, <1>6

LEMMA DestroyRight ==
  ASSUME Inv, NEW s \in Strings, Destroy(s)
  PROVE  Inv'
<1>1. /\ s \in Living /\ rep' = Released(rep, d[s]) /\ d' = [d EXCEPT ![s] = Gone]
      /\ IsNow(s, Gone)
  BY DEF Destroy
<1>2. Turns(s, Gone)
  BY <1>1, Readable, InvIsSound, NobodyPrepared, ReleaseRehouses
<1> QED  BY <1>1, <1>2, Right

LEMMA AssignStringRight ==
  ASSUME Inv, NEW s \in Strings, NEW u \in Strings, AssignString(s, u)
  PROVE  Inv'
<1>1. /\ s \in Living /\ u \in Living /\ IsNow(s, text[u])
      /\ rep' = Released(Held(rep, d[u]), d[s]) /\ d' = [d EXCEPT ![s] = d[u]]
  BY DEF AssignString
<1>2. /\ d[s] \in Cells /\ d[u] \in Cells /\ Str(u) \in Texts /\ text[u] = Str(u)
      /\ d[u] # Gone
  BY <1>1, Readable DEF Living
<1>3. Prepared(Held(rep, d[u]), d[u]) /\ Held(rep, d[u])[d[u]].str = Str(u)
  BY <1>2, InvIsSound, HeldPrepared, HeldBySomebody DEF Str
<1>4. Turns(s, Str(u))
  BY <1>1, <1>2, <1>3, InvIsSound, ReleaseRehouses
<1> QED  BY <1>1, <1>2, <1>4, Right

LEMMA AssignRight ==
  ASSUME Inv, NEW s \in Strings, NEW v \in Literals, Assign(s, v)
  PROVE  Inv'
<1>1. s \in Living /\ d[s] \in Cells /\ v \in Texts /\ IsNow(s, v) /\ Sound
  BY Readable, LiteralIs, InvIsSound DEF Assign
<1>2. CASE MustMove(s, Len(v))
  BY <1>1, <1>2, MovedAfterBecomes, Right DEF Assign
<1>3. CASE ~ MustMove(s, Len(v))
  BY <1>1, <1>3, TextFacts, AloneUnlessMoved, InPlaceBecomes, Right DEF Assign
<1> QED  BY <1>2, <1>3

LEMMA AssignPartRight ==
  ASSUME Inv, RashStrings = {}, NEW s \in Strings, NEW u \in Strings, NEW k, NEW n,
         AssignPart(s, u, k, n)
  PROVE  Inv'
<1>1. /\ s \in Living /\ u \in Living /\ IsPart(Str(u), k, n)
      /\ s # u \/ ~ MustMove(s, n)
      /\ IsNow(s, PartOf(text[u], k, n))
  BY DEF AssignPart, Careful
<1> DEFINE v == PartOf(Str(u), k, n)
<1>2. /\ d[s] \in Cells /\ v \in Texts /\ Len(v) = n /\ text[u] = Str(u) /\ Sound
  BY <1>1, Readable, PartIs, InvIsSound
<1>3. CASE MustMove(s, n)
  <2>1. MovedAfter(s, v)
    BY <1>1, <1>3 DEF AssignPart
  <2> QED  BY <1>1, <1>2, <2>1, MovedAfterBecomes, Right
<1>4. CASE ~ MustMove(s, n)
  <2>1. InPlace(s, v)
    BY <1>4 DEF AssignPart
  <2>2. Turns(s, v)
    BY <1>2, <1>4, <2>1, TextFacts, AloneUnlessMoved, InPlaceBecomes
  <2> QED  BY <1>1, <1>2, <2>2, Right
<1> QED  BY <1>3, <1>4

LEMMA ReplaceRight ==
  ASSUME Inv, NEW s \in Strings, NEW k, NEW n, NEW w \in Literals, Replace(s, k, n, w)
  PROVE  Inv'
<1>1. /\ s \in Living /\ IsPart(Str(s), k, n)
      /\ Len(Str(s)) - n + Len(w) <= MaxLength
      /\ Change(s, Spliced(Str(s), k, n, w))
      /\ IsNow(s, Spliced(text[s], k, n, w))
  BY DEF Replace
<1>2. /\ d[s] \in Cells /\ text[s] = Str(s) /\ Sound
      /\ Spliced(Str(s), k, n, w) \in Texts
  BY <1>1, Readable, LiteralIs, SplicedIs, InvIsSound
<1> QED  BY <1>1, <1>2, ChangeBecomes, Right

LEMMA ReplacePartRight ==
  ASSUME Inv, RashStrings = {}, NEW s \in Strings, NEW k, NEW n,
         NEW u \in Strings, NEW j, NEW m, ReplacePart(s, k, n, u, j, m)
  PROVE  Inv'
<1> DEFINE w == PartOf(Str(u), j, m)
<1>1. /\ s \in Living /\ u \in Living /\ IsPart(Str(s), k, n) /\ IsPart(Str(u), j, m)
      /\ Len(Str(s)) - n + m <= MaxLength
      /\ IsNow(s, Spliced(text[s], k, n, PartOf(text[u], j, m)))
      /\ Change(s, Spliced(Str(s), k, n, w))
  BY DEF ReplacePart, Careful, Smeared
<1>2. /\ d[s] \in Cells /\ text[s] = Str(s) /\ text[u] = Str(u) /\ Sound
      /\ Str(s) \in Texts /\ w \in Texts /\ Len(w) = m
  BY <1>1, Readable, PartIs, InvIsSound
<1>3. Spliced(Str(s), k, n, w) \in Texts
  BY <1>1, <1>2, SplicedIs
<1> QED  BY <1>1, <1>2, <1>3, ChangeBecomes, Right

LEMMA SetCharRight ==
  ASSUME Inv, NEW s \in Strings, NEW k, NEW c \in Letters, SetChar(s, k, c)
  PROVE  Inv'
<1> DEFINE v == [Str(s) EXCEPT ![k] = c]
<1>1. s \in Living /\ k \in 1..Len(Str(s)) /\ IsNow(s, [text[s] EXCEPT ![k] = c])
  BY DEF SetChar
<1>2. d[s] \in Cells /\ Str(s) \in Texts /\ text[s] = Str(s) /\ Sound
  BY <1>1, Readable, InvIsSound
<1>3. v \in Texts /\ Len(v) = Len(Str(s))
  BY <1>1, <1>2, ExceptSeq DEF Texts
<1>4. CASE rep[d[s]].refc # 1
  <2>1. MovedAway(s, v)
    BY <1>4 DEF SetChar
  <2> QED  BY <1>1, <1>2, <1>3, <2>1, MovedAwayBecomes, Right
<1>5. CASE rep[d[s]].refc = 1
  <2>1. InPlace(s, v)
    BY <1>5 DEF SetChar
  <2>2. d[s] \in Reps
    BY <1>2, <1>5, FreeFacts DEF Sound, Cells
  <2>3. Len(v) < rep[d[s]].max_size
    BY <1>2, <1>3, <1>5, <2>2 DEF Sound, Roomy, Str
  <2> QED  BY <1>1, <1>2, <1>3, <1>5, <2>1, <2>2, <2>3, InPlaceBecomes, Right
<1> QED  BY <1>4, <1>5

(* A place that is made ready for s gets other characters.                 *)
LEMMA Overwritten ==
  ASSUME NEW mem, NEW r \in Reps, Prepared(mem, r), rep[r].refc = 0,
         NEW v \in Texts, Len(v) < mem[r].max_size
  PROVE  Prepared([mem EXCEPT ![r].str = v], r) /\ [mem EXCEPT ![r].str = v][r].str = v
<1> DEFINE cell == [max_size |-> mem[r].max_size, refc |-> mem[r].refc, str |-> v]
           new  == [mem EXCEPT ![r].str = v]
<1>1. mem \in Memory /\ mem[r] \in [max_size : Nat, refc : Nat, str : Seq(Letters)]
  BY DEF Prepared, Memory, Cells
<1>2. new = [mem EXCEPT ![r] = cell]
  <2>1. [mem[r] EXCEPT !.str = v] = cell
    BY <1>1
  <2>2. new = [mem EXCEPT ![r] = [mem[r] EXCEPT !.str = v]]
    OBVIOUS
  <2> QED  BY <2>1, <2>2
<1>3. cell \in [max_size : Nat, refc : Nat, str : Seq(Letters)]
  BY <1>1 DEF Texts
<1>4. new \in Memory /\ new[r] = cell /\ \A x \in Cells \ {r} : new[x] = mem[x]
  BY <1>1, <1>2, <1>3 DEF Memory, Cells
<1>5. /\ Len(cell.str) <= MaxLength /\ Roomy(cell) /\ cell.refc = mem[r].refc /\ cell.str = v
  BY DEF Texts, Roomy
<1> HIDE DEF cell, new
<1>6. Prepared(new, r)
  BY <1>4, <1>5, RepsAssumption DEF Prepared, Cells
<1> QED  BY <1>4, <1>5, <1>6 DEF new

LEMMA ReadIntoRight ==
  ASSUME Inv, NEW s \in Strings, NEW v \in Literals, ReadInto(s, v)
  PROVE  Inv'
<1>1. s \in Living /\ v # <<>> /\ IsNow(s, v)
  BY DEF ReadInto
<1>2. d[s] \in Cells /\ Str(s) \in Texts /\ v \in Texts /\ Sound /\ rep \in Memory
  BY <1>1, Readable, LiteralIs, InvIsSound DEF Sound
<1>3. CASE ~ rep[d[s]].refc > 1
  BY <1>1, <1>2, <1>3, ChangeBecomes, Right DEF ReadInto
<1>4. CASE rep[d[s]].refc > 1
  <2>1. PICK r \in Vacant(rep, Len(Str(s))) :
          LET old == NewRep(rep, r, Str(s)) IN
          IF Len(v) < old[r].max_size
          THEN /\ rep' = [Released(old, d[s]) EXCEPT ![r].str = v]
               /\ d' = [d EXCEPT ![s] = r]
          ELSE \E q \in Vacant(old, Len(v)) :
                 /\ rep' = Released(Released(NewRep(old, q, v), r), d[s])
                 /\ d' = [d EXCEPT ![s] = q]
    BY <1>4, Zenon DEF ReadInto
  <2> DEFINE old == NewRep(rep, r, Str(s))
  <2>2. /\ Prepared(old, r) /\ r \in Cells /\ r # Gone /\ old \in Memory
        /\ r # NullRep => rep[r].refc = 0
    BY <1>2, NewPrepared, RepsAssumption DEF Prepared, Cells
  <2> HIDE DEF old
  <2>3. r # d[s]
    BY <1>2, <1>4, <2>2, FreeFacts DEF Sound
  <2>4. CASE Len(v) < old[r].max_size
    <3> DEFINE new == [old EXCEPT ![r].str = v]
    <3>1. rep' = [Released(old, d[s]) EXCEPT ![r].str = v] /\ d' = [d EXCEPT ![s] = r]
      BY <2>1, <2>4 DEF old
    <3>2. r \in Reps
      BY <1>2, <2>2, <2>4, TextFacts DEF Prepared, Cells, Free
    <3>3. Prepared(new, r) /\ new[r].str = v
      BY <1>2, <2>2, <2>4, <3>2, RepsAssumption, Overwritten
    <3>4. old[d[s]].refc > 1 /\ new[d[s]] = old[d[s]]
      <4>1. d[s] \in Reps
        BY <1>2, <1>4, FreeFacts DEF Cells, Sound
      <4>2. old[d[s]].refc = rep[d[s]].refc + 0
        BY <2>2, <2>3, <4>1 DEF Prepared
      <4>3. new[d[s]] = old[d[s]]
        BY <1>2, <2>2, <2>3 DEF Memory
      <4> QED  BY <1>2, <1>4, <4>2, <4>3, RepFacts
    <3>5. Released(new, d[s]) = [Released(old, d[s]) EXCEPT ![r].str = v]
      <4>1. /\ Released(new, d[s]) = [new EXCEPT ![d[s]].refc = @ - 1]
            /\ Released(old, d[s]) = [old EXCEPT ![d[s]].refc = @ - 1]
        BY <3>4 DEF Released
      <4> QED  BY <1>2, <2>2, <2>3, <4>1 DEF Memory
    <3> HIDE DEF new
    <3>6. Turns(s, v)
      BY <1>2, <2>2, <3>1, <3>3, <3>5, Rehomed
    <3> QED  BY <1>1, <1>2, <3>6, Right
  <2>5. CASE ~ Len(v) < old[r].max_size
    <3>1. PICK q \in Vacant(old, Len(v)) :
            /\ rep' = Released(Released(NewRep(old, q, v), r), d[s])
            /\ d' = [d EXCEPT ![s] = q]
      BY <2>1, <2>5, Zenon DEF old
    <3> DEFINE both == NewRep(old, q, v)
               new  == Released(both, r)
               cell == [max_size |-> Room(Len(v)), refc |-> 1, str |-> v]
    <3>2. /\ both \in Memory /\ q \in Reps /\ old[q].refc = 0 /\ both[q] = cell
          /\ \A x \in Cells \ {q} : both[x] = old[x]
      BY <1>1, <1>2, <2>2, NewRepIs
    <3> HIDE DEF both
    <3>3. /\ new \in Memory /\ \A x \in Cells \ {r} : new[x] = both[x]
          /\ both[r].refc = 0 => new = both
          /\ both[r].refc = 1 => new[r] = Free
      BY <2>2, <3>2, ReleasedIs
    <3> HIDE DEF new
    <3>4. /\ q # r /\ q # NullRep /\ q # Gone
      <4>1. CASE r = NullRep
        BY <3>2, <4>1, RepsAssumption
      <4>2. CASE r # NullRep
        <5>1. old[r].refc = rep[r].refc + 1 /\ rep[r].refc = 0
          BY <2>2, <4>2 DEF Prepared, Cells
        <5> QED  BY <3>2, <5>1, RepsAssumption
      <4> QED  BY <4>1, <4>2
    <3>5. r = NullRep => new = both
      BY <2>2, <3>2, <3>3, <3>4, FreeFacts DEF Prepared, Cells
    <3>6. r # NullRep => new[r] = Free /\ rep[r].refc = 0
      <4> SUFFICES ASSUME r # NullRep PROVE new[r] = Free /\ rep[r].refc = 0
        OBVIOUS
      <4>1. both[r] = old[r] /\ old[r].refc = 1 /\ rep[r].refc = 0
        BY <2>2, <3>2, <3>4 DEF Prepared, Cells
      <4> QED  BY <3>3, <4>1
    <3>7. new[q] = cell /\ new[NullRep] = Free
      BY <2>2, <3>2, <3>3, <3>4, <3>5 DEF Prepared, Cells
    <3>8. Len(cell.str) <= MaxLength /\ Roomy(cell) /\ cell.refc = 1 /\ cell.str = v
      BY <1>2, TextFacts, RoomSuffices DEF Texts, Roomy
    <3> HIDE DEF cell
    <3>9. rep[q].refc = 0
      BY <1>2, <2>2, <3>2, <3>4, RepFacts DEF Prepared, Cells
    <3>10. ASSUME NEW x \in Reps \ {q}
           PROVE  /\ Len(new[x].str) <= MaxLength
                  /\ new[x].refc = rep[x].refc + 0
                  /\ Roomy(new[x])
                  /\ rep[x].refc # 0 => new[x].str = rep[x].str
      <4>1. CASE x = r
        BY <3>6, <4>1, FreeFacts, RepsAssumption
      <4>2. CASE x # r
        BY <1>2, <2>2, <3>2, <3>3, <4>2 DEF Prepared, Cells
      <4> QED  BY <4>1, <4>2
    <3>11. Prepared(new, q) /\ new[q].str = v
      BY <3>2, <3>3, <3>7, <3>8, <3>9, <3>10 DEF Prepared
    <3>12. Turns(s, v)
      BY <1>2, <3>1, <3>2, <3>11, Rehomed DEF new, both, Cells
    <3> QED  BY <1>1, <1>2, <3>12, Right
  <2> QED  BY <2>4, <2>5
<1> QED  BY <1>3, <1>4

LEMMA EnlargeRight ==
  ASSUME Inv, NEW s \in Strings, NEW n \in Lengths, Enlarge(s, n)
  PROVE  Inv'
<1>1. s \in Living /\ n >= rep[d[s]].max_size /\ text' = text
  BY DEF Enlarge
<1>2. /\ d[s] \in Cells /\ Str(s) \in Texts /\ text[s] = Str(s) /\ Sound /\ rep \in Memory
      /\ TextTypeOK
  BY <1>1, Readable, InvIsSound DEF Sound
<1> DEFINE cell == [max_size |-> Room(n), refc |-> 1, str |-> Str(s)]
<1>3. PICK r \in Vacant(rep, n) :
        /\ r # NullRep
        /\ rep' = Released([rep EXCEPT ![r] = cell], d[s])
        /\ d' = [d EXCEPT ![s] = r]
  BY Zenon DEF Enlarge
<1>4. r \in Reps /\ rep[r].refc = 0
  BY <1>3 DEF Vacant
<1>5. Len(Str(s)) <= n
  <2>1. CASE d[s] = NullRep
    BY <1>2, <2>1, FreeFacts, RoomAssumption DEF Sound, Str, Lengths
  <2>2. CASE d[s] \in Reps
    <3>1. Len(Str(s)) < rep[d[s]].max_size
      BY <1>2, <2>2, HeldBySomebody, RepsAssumption DEF Sound, Roomy, Str
    <3> QED  BY <1>1, <1>2, <3>1, RepFacts, TextFacts, RoomAssumption DEF Lengths
  <2> QED  BY <1>2, <2>1, <2>2 DEF Cells
<1>6. /\ cell \in [max_size : Nat, refc : Nat, str : Seq(Letters)]
      /\ Len(cell.str) <= MaxLength /\ Roomy(cell) /\ cell.refc = 1 /\ cell.str = Str(s)
  BY <1>2, <1>5, RoomSuffices, TextFacts, RoomAssumption DEF Texts, Roomy, Lengths
<1> DEFINE new == [rep EXCEPT ![r] = cell]
<1> HIDE DEF cell
<1>7. new \in Memory /\ new[r] = cell /\ \A x \in Cells \ {r} : new[x] = rep[x]
  BY <1>2, <1>4, <1>6 DEF Memory, Cells
<1> HIDE DEF new
<1>8. ASSUME NEW x \in Reps \ {r}
      PROVE  /\ Len(new[x].str) <= MaxLength /\ new[x].refc = rep[x].refc + 0
             /\ Roomy(new[x]) /\ new[x].str = rep[x].str
  BY <1>2, <1>7, RepFacts DEF Sound, Cells
<1>9. Prepared(new, r)
  BY <1>2, <1>3, <1>4, <1>6, <1>7, <1>8 DEF Prepared, Cells, Sound
<1>10. Turns(s, Str(s))
  <2>1. rep' = Released(new, d[s]) /\ d' = [d EXCEPT ![s] = r] /\ r \in Cells
    BY <1>3, <1>4 DEF new, Cells
  <2>2. new[r].str = Str(s)
    BY <1>6, <1>7
  <2> QED  BY <1>2, <1>9, <2>1, <2>2, Rehomed
<1>11. IsNow(s, Str(s))
  BY <1>1, <1>2 DEF IsNow, TextTypeOK
<1> QED  BY <1>2, <1>10, <1>11, Right

(* Two strings exchange what they have: every place keeps its count.       *)
LEMMA ExchangeRight ==
  ASSUME Inv, NEW s \in Strings, NEW u \in Strings, Exchange(s, u)
  PROVE  Inv'
<1>1. /\ s \in Living /\ u \in Living /\ rep' = rep
      /\ d' = [d EXCEPT ![s] = d[u], ![u] = d[s]]
      /\ text' = [text EXCEPT ![s] = text[u], ![u] = text[s]]
  BY DEF Exchange, Exchanged
<1>2. Sound /\ TextTypeOK /\ StringsAreValues
  BY InvIsSound
<1>3. /\ d' \in [Strings -> Cells \cup {Gone}]
      /\ \A w \in Strings : d'[w] = IF w = u THEN d[s] ELSE IF w = s THEN d[u] ELSE d[w]
      /\ \A w \in Strings : text'[w] = IF w = u THEN text[s] ELSE IF w = s THEN text[u]
                                                                      ELSE text[w]
  BY <1>1, <1>2 DEF Sound, TextTypeOK
<1>4. ASSUME NEW x \in Reps PROVE Cardinality(Holders(x)') = Cardinality(Holders(x))
  <2>1. CASE d[s] = d[u]
    <3>1. Holders(x)' = Holders(x)
      BY <1>3, <2>1 DEF Holders
    <3> QED  BY <3>1
  <2>2. CASE d[s] # d[u] /\ x = d[s]
    <3>1. Holders(x)' = OtherHolders(s, x) \cup {u} /\ u \notin OtherHolders(s, x)
      BY <1>3, <2>2 DEF Holders, OtherHolders
    <3>2. /\ IsFiniteSet(OtherHolders(s, x)) /\ Cardinality(OtherHolders(s, x)) \in Nat
          /\ Cardinality(Holders(x)) = Cardinality(OtherHolders(s, x)) + 1
      BY <1>2, <2>2, HoldersAre DEF Sound
    <3>3. Cardinality(OtherHolders(s, x) \cup {u}) = Cardinality(OtherHolders(s, x)) + 1
      BY <3>1, <3>2, FS_AddElement
    <3> QED  BY <3>1, <3>2, <3>3, Zenon
  <2>3. CASE d[s] # d[u] /\ x = d[u]
    <3>1. Holders(x)' = OtherHolders(u, x) \cup {s} /\ s \notin OtherHolders(u, x)
      BY <1>3, <2>3 DEF Holders, OtherHolders
    <3>2. /\ IsFiniteSet(OtherHolders(u, x)) /\ Cardinality(OtherHolders(u, x)) \in Nat
          /\ Cardinality(Holders(x)) = Cardinality(OtherHolders(u, x)) + 1
      BY <1>2, <2>3, HoldersAre DEF Sound
    <3>3. Cardinality(OtherHolders(u, x) \cup {s}) = Cardinality(OtherHolders(u, x)) + 1
      BY <3>1, <3>2, FS_AddElement
    <3> QED  BY <3>1, <3>2, <3>3, Zenon
  <2>4. CASE x # d[s] /\ x # d[u]
    <3>1. Holders(x)' = Holders(x)
      BY <1>3, <2>4 DEF Holders
    <3> QED  BY <3>1
  <2> QED  BY <2>1, <2>2, <2>3, <2>4
<1>5. Sound'
  BY <1>1, <1>2, <1>3, <1>4 DEF Sound, Roomy
<1>6. TextTypeOK'
  BY <1>1, <1>2 DEF TextTypeOK
<1>7. StringsAreValues'
  BY <1>1, <1>2, <1>3 DEF StringsAreValues, Str
<1> QED  BY <1>5, <1>6, <1>7, InvIsSound, PTL

-----------------------------------------------------------------------------
LEMMA InitRight == StringInit => Inv
<1> SUFFICES ASSUME StringInit PROVE Inv
  OBVIOUS
<1>1. Free \in [max_size : Nat, refc : Nat, str : Seq(Letters)]
  BY EmptySeq DEF Free
<1>2. ASSUME NEW r \in Reps PROVE Cardinality(Holders(r)) = 0
  <2>1. Holders(r) = {}
    BY RepsAssumption DEF StringInit, Holders
  <2> QED  BY <2>1, FS_EmptySet
<1>3. Sound
  BY <1>1, <1>2, FreeFacts DEF Sound, StringInit, Memory, Cells
<1>4. TextTypeOK /\ StringsAreValues
  BY DEF StringInit, TextInit, TextTypeOK, StringsAreValues
<1> QED  BY <1>3, <1>4, InvIsSound

LEMMA NextRight ==
  ASSUME Inv, RashStrings = {}, StringNext
  PROVE  Inv'
<1>1. CASE BirthsAndDeaths
  BY <1>1, ConstructRight, ConstructPartRight, SubStringRight, ConcatenateRight, DestroyRight,
     Zenon DEF BirthsAndDeaths
<1>2. CASE Assignments
  BY <1>2, AssignRight, AssignStringRight, ExchangeRight, AssignPartRight, Zenon
     DEF Assignments
<1>3. CASE Changes
  BY <1>3, ReplaceRight, ReplacePartRight, SetCharRight, ReadIntoRight, EnlargeRight, Zenon
     DEF Changes
<1> QED  BY <1>1, <1>2, <1>3 DEF StringNext

(* Strings of a program that is careful are values, however they share     *)
(* representations: StringTypeOK and SharingSound are inductive together.  *)
THEOREM StringsStaySound == RashStrings = {} => (StringSpec => [](StringTypeOK /\ SharingSound))
<1> SUFFICES ASSUME RashStrings = {} PROVE StringSpec => []Inv
  BY DEF Inv
<1>1. StringInit => Inv
  BY InitRight
<1>2. Inv /\ [StringNext]_stringVars => Inv'
  <2> SUFFICES ASSUME Inv, [StringNext]_stringVars PROVE Inv'
    OBVIOUS
  <2>1. CASE StringNext
    BY <2>1, NextRight
  <2>2. CASE UNCHANGED stringVars
    BY <2>2 DEF stringVars, Inv, StringTypeOK, TextTypeOK, SharingSound, StringsAreValues,
               HoldersCounted, Str
  <2> QED  BY <2>1, <2>2
<1> QED  BY <1>1, <1>2, PTL DEF StringSpec

-----------------------------------------------------------------------------
(***************************************************************************)
(* ArrMap.                                                                 *)
(*                                                                         *)
(* What insert() and remove() keep is Fits(busy, leaf): the items are a    *)
(* finite set of places, the parent of each is a node, busy_count is the   *)
(* number of children, two records stand below every node and every record *)
(* is above its key.  It says by itself where the search for a key ends    *)
(* (StopIs), so of the arrays it is enough that each has a record or the   *)
(* cache (Kept).  That an insertion and a removal keep it is a lemma of a  *)
(* trie [b, l] and what becomes of it, for each of their cases.            *)
(***************************************************************************)

\* Of the numbers of a set, one is the least.
LEMMA Least ==
  ASSUME NEW T \in SUBSET Nat, NEW n \in T
  PROVE  \E m \in T : \A k \in T : m <= k
<1>1. PICK m \in T : \A k \in T : ~ (<<k, m>> \in OpToRel(<, Nat))
  BY Zenon, NatLessThanWellFounded, WFMin
<1>2. \A k \in T : ~ (k < m)
  BY Zenon, <1>1 DEF OpToRel
<1>3. \A k \in T : m <= k
  BY <1>2
<1> QED  BY <1>3

\* Induction over 0 .. n, for the set of the numbers that have the property.
LEMMA UpTo ==
  ASSUME NEW n \in Nat, NEW T \in SUBSET (0 .. n), 0 \in T,
         \A k \in 1 .. n : k - 1 \in T => k \in T
  PROVE  T = 0 .. n
<1> SUFFICES ASSUME NEW x \in (0 .. n) \ T PROVE FALSE
  OBVIOUS
<1>1. (0 .. n) \ T \in SUBSET Nat
  OBVIOUS
<1>2. PICK m \in (0 .. n) \ T : \A k \in (0 .. n) \ T : m <= k
  BY <1>1, Least
<1>3. m \in 1 .. n /\ m - 1 \in 0 .. n /\ ~ (m <= m - 1)
  BY <1>2
<1>4. m - 1 \in T
  BY <1>2, <1>3
<1> QED  BY <1>2, <1>3, <1>4

(***************************************************************************)
(* Cells: the beginnings of a place are above it.                         *)
(***************************************************************************)
Paths == Seq(Nat)

Above(p, x) ==
  /\ p \in Paths /\ x \in Paths
  /\ Len(p) <= Len(x)
  /\ \A i \in 1 .. Len(p) : x[i] = p[i]

LEMMA PrefixIs ==
  ASSUME NEW k \in Paths, NEW h \in 0 .. Len(k)
  PROVE  /\ Prefix(k, h) \in Paths /\ Len(Prefix(k, h)) = h
         /\ \A i \in 1 .. h : Prefix(k, h)[i] = k[i]
         /\ Above(Prefix(k, h), k)
<1>1. h \in Int /\ 1 \in Int /\ Len(k) \in Nat /\ \A i \in 1 .. h : k[i] \in Nat
  BY LenProperties DEF Paths
<1>2. /\ SubSeq(k, 1, h) \in Seq(Nat)
      /\ Len(SubSeq(k, 1, h)) = IF 1 <= h THEN h - 1 + 1 ELSE 0
      /\ \A i \in 1 .. h - 1 + 1 : SubSeq(k, 1, h)[i] = k[1 + i - 1]
  BY <1>1, SubSeqProperties
<1>3. Len(Prefix(k, h)) = h /\ \A i \in 1 .. h : Prefix(k, h)[i] = k[i]
  BY <1>1, <1>2 DEF Prefix
<1> QED  BY <1>1, <1>2, <1>3 DEF Prefix, Above, Paths

LEMMA AboveFacts ==
  /\ \A p \in Paths : Above(p, p)
  /\ \A p, q, x : Above(p, q) /\ Above(q, x) => Above(p, x)
  /\ \A p, q, x : Above(p, x) /\ Above(q, x) /\ Len(p) <= Len(q) => Above(p, q)
  /\ \A p, q : Above(p, q) /\ Len(p) = Len(q) => p = q
  /\ \A p, x : Above(p, x) => p \in Paths /\ x \in Paths /\ Len(p) \in Nat /\ Len(x) \in Nat
                              /\ Len(p) <= Len(x)
<1>1. \A p \in Paths : Len(p) \in Nat
  BY LenProperties DEF Paths
<1>2. \A p \in Paths : Above(p, p)
  BY <1>1 DEF Above
<1>3. ASSUME NEW p, NEW q, NEW x, Above(p, q), Above(q, x) PROVE Above(p, x)
  BY <1>1, <1>3 DEF Above
<1>4. ASSUME NEW p, NEW q, NEW x, Above(p, x), Above(q, x), Len(p) <= Len(q) PROVE Above(p, q)
  BY <1>1, <1>4 DEF Above
<1>5. ASSUME NEW p, NEW q, Above(p, q), Len(p) = Len(q) PROVE p = q
  BY <1>5, SeqEqual DEF Above, Paths
<1> QED  BY <1>1, <1>2, <1>3, <1>4, <1>5 DEF Above

\* A place is a prefix of what it is above.
LEMMA AbovePrefix ==
  ASSUME NEW p, NEW x, Above(p, x)
  PROVE  Prefix(x, Len(p)) = p
<1>1. Len(p) \in 0 .. Len(x) /\ p \in Paths /\ x \in Paths
  BY AboveFacts
<1>2. Above(Prefix(x, Len(p)), x) /\ Len(Prefix(x, Len(p))) = Len(p)
  BY <1>1, PrefixIs
<1>3. Above(p, Prefix(x, Len(p)))
  BY <1>2, AboveFacts
<1> QED  BY <1>2, <1>3, AboveFacts

LEMMA PrefixAbove ==
  ASSUME NEW x \in Paths, NEW h \in 0 .. Len(x), NEW e \in 0 .. Len(x), h <= e
  PROVE  /\ Above(Prefix(x, h), Prefix(x, e)) /\ Prefix(Prefix(x, e), h) = Prefix(x, h)
         /\ h # e => Prefix(x, h) # Prefix(x, e)
<1>1. Above(Prefix(x, h), x) /\ Above(Prefix(x, e), x)
      /\ Len(Prefix(x, h)) = h /\ Len(Prefix(x, e)) = e
  BY PrefixIs
<1>2. Above(Prefix(x, h), Prefix(x, e))
  BY <1>1, AboveFacts
<1>3. Prefix(Prefix(x, e), h) = Prefix(x, h)
  BY <1>1, <1>2, AbovePrefix
<1> QED  BY <1>1, <1>2, <1>3

LEMMA RootIs ==
  /\ <<>> \in Paths /\ Len(<<>>) = 0
  /\ \A p \in Paths : /\ Len(p) \in Nat /\ (p # <<>> <=> Len(p) >= 1)
                      /\ Prefix(p, 0) = <<>> /\ Prefix(p, Len(p)) = p /\ Above(<<>>, p)
<1>1. <<>> \in Paths /\ Len(<<>>) = 0
  BY EmptySeq DEF Paths
<1>2. ASSUME NEW p \in Paths
      PROVE  Len(p) \in Nat /\ (p # <<>> <=> Len(p) >= 1) /\ Above(<<>>, p)
             /\ Prefix(p, 0) = <<>> /\ Prefix(p, Len(p)) = p
  <2>1. Len(p) \in Nat /\ (p # <<>> => Len(p) >= 1)
    BY LenProperties, EmptySeq DEF Paths
  <2>2. Above(<<>>, p) /\ Above(p, p)
    BY <1>1, <2>1, AboveFacts DEF Above
  <2>3. Prefix(p, 0) = <<>> /\ Prefix(p, Len(p)) = p
    BY <1>1, <2>2, AbovePrefix
  <2> QED  BY <1>1, <2>1, <2>2, <2>3
<1> QED  BY <1>1, <1>2

\* The parent is the nearest above.
LEMMA ParentIs ==
  ASSUME NEW p \in Paths, p # <<>>
  PROVE  /\ Parent(p) \in Paths /\ Len(Parent(p)) = Len(p) - 1 /\ Len(p) >= 1
         /\ Above(Parent(p), p) /\ Parent(p) # p
         /\ \A q : Above(q, p) /\ q # p => Above(q, Parent(p))
<1>1. Len(p) \in Nat /\ Len(p) >= 1
  BY RootIs
<1>2. Len(p) - 1 \in 0 .. Len(p)
  BY <1>1
<1>3. Parent(p) \in Paths /\ Len(Parent(p)) = Len(p) - 1 /\ Above(Parent(p), p)
  BY <1>2, PrefixIs DEF Parent
<1>4. ASSUME NEW q, Above(q, p), q # p PROVE Above(q, Parent(p))
  <2>1. Len(q) \in Nat /\ Len(q) <= Len(p) /\ Len(q) # Len(p)
    BY <1>4, AboveFacts
  <2> QED  BY <1>1, <1>3, <1>4, <2>1, AboveFacts
<1> QED  BY <1>1, <1>3, <1>4

LEMMA ParentOfPrefix ==
  ASSUME NEW x \in Paths, NEW h \in 1 .. Len(x)
  PROVE  Parent(Prefix(x, h)) = Prefix(x, h - 1) /\ Prefix(x, h) # <<>>
<1>1. Len(x) \in Nat
  BY RootIs
<1>2. h \in 0 .. Len(x) /\ h - 1 \in 0 .. Len(x) /\ h - 1 <= h
  BY <1>1
<1>3. Len(Prefix(x, h)) = h /\ Prefix(x, h) \in Paths
  BY <1>2, PrefixIs
<1>4. Prefix(Prefix(x, h), h - 1) = Prefix(x, h - 1)
  BY <1>2, PrefixAbove
<1> QED  BY <1>3, <1>4, RootIs DEF Parent

(***************************************************************************)
(* Tries.                                                                  *)
(***************************************************************************)
Items(b, l) == DOMAIN b \cup DOMAIN l

Kids(b, l, q) == {i \in Items(b, l) : i # <<>> /\ Parent(i) = q}

\* Two records stand below q.
Forked(l, q) == \E x, y \in DOMAIN l : x # y /\ Above(q, x) /\ Above(q, y)

Reached(b, l) ==
  /\ Items(b, l) \in SUBSET Paths
  /\ DOMAIN b \cap DOMAIN l = {}
  /\ \A x \in Items(b, l) : x # <<>> => Parent(x) \in DOMAIN b

Counted(b, l) == \A q \in DOMAIN b : b[q] = Cardinality(Kids(b, l, q))

Needed(b, l) == \A q \in DOMAIN b : Forked(l, q)

\* Record r may stand at place p.
Suits(r, p) == r.key \in Addresses /\ r.count \in Counts /\ Above(p, r.key)

Fits(b, l) ==
  /\ IsFiniteSet(Items(b, l))
  /\ Reached(b, l)
  /\ Counted(b, l)
  /\ Needed(b, l)
  /\ \A p \in DOMAIN l : Suits(l[p], p)

Has(l, a, n) == \E p \in DOMAIN l : l[p].key = a /\ l[p].count = n

\* What is above an item is a node.
LEMMA PrefixNodes ==
  ASSUME NEW b, NEW l, Reached(b, l), NEW x \in Items(b, l), NEW p, Above(p, x), p # x
  PROVE  p \in DOMAIN b
<1>1. x \in Paths /\ Len(x) \in Nat /\ Len(p) \in Nat /\ Len(p) <= Len(x) /\ Len(p) # Len(x)
  BY AboveFacts
<1> DEFINE n == Len(x) - 1
           T == {j \in 0 .. n : Prefix(x, n - j) \in DOMAIN b}
<1>2. n \in Nat /\ n - Len(p) \in 0 .. n /\ x # <<>>
  BY <1>1, RootIs
<1>3. 0 \in T
  <2>1. n - 0 = Len(x) - 1 /\ 0 \in 0 .. n
    BY <1>1, <1>2
  <2>2. Parent(x) \in DOMAIN b
    BY <1>2 DEF Reached
  <2> QED  BY <2>1, <2>2 DEF Parent
<1>4. ASSUME NEW k \in 1 .. n, k - 1 \in T PROVE k \in T
  <2>1. n - (k - 1) \in 1 .. Len(x) /\ n - (k - 1) - 1 = n - k /\ k \in 0 .. n
    BY <1>1, <1>2
  <2>2. Prefix(x, n - (k - 1)) \in DOMAIN b
    BY <1>4
  <2>3. Parent(Prefix(x, n - (k - 1))) = Prefix(x, n - k) /\ Prefix(x, n - (k - 1)) # <<>>
    BY <1>1, <2>1, ParentOfPrefix
  <2>4. Prefix(x, n - k) \in DOMAIN b
    BY <2>2, <2>3 DEF Reached, Items
  <2> QED  BY <2>1, <2>4
<1>5. T = 0 .. n
  <2>1. T \in SUBSET (0 .. n)
    OBVIOUS
  <2> HIDE DEF T, n
  <2> QED  BY <1>2, <1>3, <1>4, <2>1, UpTo
<1>6. Prefix(x, n - (n - Len(p))) \in DOMAIN b
  BY <1>2, <1>5
<1>7. n - (n - Len(p)) = Len(p)
  BY <1>1
<1>8. Prefix(x, Len(p)) = p
  BY AbovePrefix
<1> QED  BY <1>6, <1>7, <1>8

\* The leaves are apart: nothing stands below one.
LEMMA LeavesApart ==
  ASSUME NEW b, NEW l, Reached(b, l), NEW p \in DOMAIN l
  PROVE  /\ \A x \in Items(b, l) : Above(p, x) => x = p
         /\ \A q \in DOMAIN l : \A x : Above(p, x) /\ Above(q, x) => p = q
         /\ \A q \in DOMAIN b : \A x : Above(p, x) /\ Above(q, x) => Above(q, p)
<1>1. p \notin DOMAIN b
  BY DEF Reached
<1>2. \A x \in Items(b, l) : Above(p, x) => x = p
  BY <1>1, PrefixNodes
<1>3. ASSUME NEW q \in Items(b, l), NEW x, Above(p, x), Above(q, x)
      PROVE  Above(p, q) \/ Above(q, p)
  <2>1. Len(p) \in Nat /\ Len(q) \in Nat
    BY <1>3, AboveFacts
  <2>2. Len(p) <= Len(q) \/ Len(q) <= Len(p)
    BY <2>1
  <2> QED  BY <1>3, <2>2, AboveFacts
<1>4. ASSUME NEW q \in DOMAIN l, NEW x, Above(p, x), Above(q, x)
      PROVE  p = q
  <2>1. q \in Items(b, l) /\ p \in Items(b, l) /\ q \notin DOMAIN b
    BY DEF Items, Reached
  <2>2. CASE Above(p, q)
    BY <1>2, <2>1, <2>2
  <2>3. CASE Above(q, p)
    BY <2>1, <2>3, PrefixNodes
  <2> QED  BY <1>3, <1>4, <2>1, <2>2, <2>3
<1>5. ASSUME NEW q \in DOMAIN b, NEW x, Above(p, x), Above(q, x)
      PROVE  Above(q, p)
  <2>1. q \in Items(b, l) /\ q # p
    BY <1>1 DEF Items
  <2> QED  BY <1>2, <1>3, <1>5, <2>1
<1> QED  BY <1>2, <1>4, <1>5

\* A record stands at or below every item.
LEMMA RecordBelow ==
  ASSUME NEW b, NEW l, Reached(b, l), Needed(b, l), NEW c \in Items(b, l)
  PROVE  \E u \in DOMAIN l : Above(c, u)
<1>1. c \in Paths
  BY DEF Reached
<1>2. CASE c \in DOMAIN l
  BY <1>1, <1>2, AboveFacts
<1>3. CASE c \in DOMAIN b
  BY <1>3 DEF Needed, Forked
<1> QED  BY <1>2, <1>3 DEF Items

\* No key is a node, so a search ends before its key does.
LEMMA KeyIsNoNode ==
  ASSUME NEW b, NEW l, Fits(b, l), NEW k \in Addresses
  PROVE  k \notin DOMAIN b /\ k \in Paths /\ k # <<>> /\ Len(k) \in Nat
<1>1. k \in Paths /\ k # <<>> /\ Len(k) \in Nat
  BY AddressesAssumption, LenProperties DEF Paths
<1>2. SUFFICES ASSUME k \in DOMAIN b PROVE FALSE
  BY <1>1
<1>3. PICK x, y \in DOMAIN l : x # y /\ Above(k, x) /\ Above(k, y)
  BY <1>2 DEF Fits, Needed, Forked
<1>4. ASSUME NEW z \in DOMAIN l, Above(k, z) PROVE z = k
  <2>1. Above(z, l[z].key) /\ l[z].key \in Addresses
    BY DEF Fits, Suits
  <2>2. Len(l[z].key) = Len(k)
    BY <2>1, AddressesAssumption
  <2>3. Len(k) <= Len(z) /\ Len(z) <= Len(k) /\ Len(z) \in Nat
    BY <1>4, <2>1, <2>2, AboveFacts
  <2> QED  BY <1>1, <1>4, <2>3, AboveFacts
<1> QED  BY <1>3, <1>4

\* The search for k ends at the only item above k that is no node.
LEMMA StopIs ==
  ASSUME Fits(busy, leaf), NEW k \in Addresses
  PROVE  /\ Above(Stop(k), k) /\ Stop(k) \notin DOMAIN busy
         /\ Stop(k) # <<>> => Parent(Stop(k)) \in DOMAIN busy
         /\ \A x \in DOMAIN leaf : Above(x, k) => x = Stop(k)
<1>1. k \notin DOMAIN busy /\ k \in Paths /\ k # <<>> /\ Len(k) \in Nat
  BY KeyIsNoNode
<1> DEFINE D == {h \in 0 .. Len(k) : Prefix(k, h) \notin DOMAIN busy}
<1>2. Len(k) \in D /\ D \in SUBSET Nat
  BY <1>1, RootIs
<1>3. PICK h \in D : \A e \in D : h <= e
  BY <1>2, Least
<1>4. h \in 0 .. Len(k) /\ Prefix(k, h) \notin DOMAIN busy
  BY <1>3
<1>5. Prefix(k, h) # <<>> => Parent(Prefix(k, h)) \in DOMAIN busy
  <2> SUFFICES ASSUME Prefix(k, h) # <<>> PROVE Parent(Prefix(k, h)) \in DOMAIN busy
    OBVIOUS
  <2>1. h # 0
    BY <1>1, RootIs
  <2>2. h \in 1 .. Len(k) /\ h - 1 \in 0 .. Len(k) /\ ~ (h <= h - 1)
    BY <1>1, <1>4, <2>1
  <2>3. Prefix(k, h - 1) \in DOMAIN busy
    BY <1>3, <2>2
  <2> QED  BY <1>1, <2>2, <2>3, ParentOfPrefix
<1>6. /\ Stop(k) \in {Prefix(k, e) : e \in 0 .. Len(k)}
      /\ Stop(k) \notin DOMAIN busy
      /\ Stop(k) # <<>> => Parent(Stop(k)) \in DOMAIN busy
  <2>1. Prefix(k, h) \in {Prefix(k, e) : e \in 0 .. Len(k)}
    BY <1>4
  <2> QED  BY Zenon, <1>4, <1>5, <2>1 DEF Stop
<1>7. Above(Stop(k), k)
  BY <1>1, <1>6, PrefixIs
<1>8. ASSUME NEW x \in DOMAIN leaf, Above(x, k) PROVE x = Stop(k)
  <2>1. Reached(busy, leaf) /\ x \in Items(busy, leaf) /\ x \notin DOMAIN busy
    BY DEF Fits, Reached, Items
  <2>2. Len(x) \in Nat /\ Len(Stop(k)) \in Nat
    BY <1>7, <1>8, AboveFacts
  <2>3. CASE Len(Stop(k)) <= Len(x)
    <3>1. Above(Stop(k), x)
      BY <1>7, <1>8, <2>3, AboveFacts
    <3> QED  BY <1>6, <2>1, <3>1, PrefixNodes
  <2>4. CASE Len(x) < Len(Stop(k))
    <3>1. Above(x, Stop(k)) /\ x # Stop(k) /\ Stop(k) \in Paths
      BY <1>7, <1>8, <2>2, <2>4, AboveFacts
    <3>2. Stop(k) # <<>>
      BY <2>2, <2>4, <3>1, RootIs
    <3>3. Above(x, Parent(Stop(k))) /\ Parent(Stop(k)) \in Items(busy, leaf)
      BY <1>6, <3>1, <3>2, ParentIs DEF Items
    <3>4. Parent(Stop(k)) = x \/ x \in DOMAIN busy
      BY <2>1, <3>3, PrefixNodes
    <3> QED  BY <1>6, <2>1, <3>2, <3>4
  <2> QED  BY <2>2, <2>3, <2>4
<1> QED  BY <1>6, <1>7, <1>8

\* A record that the trie has is found.
LEMMA FoundIs ==
  ASSUME Fits(busy, leaf), NEW a \in Addresses, NEW n, Has(leaf, a, n)
  PROVE  InTrie(a) /\ leaf[Stop(a)].count = n
<1>1. PICK p \in DOMAIN leaf : leaf[p].key = a /\ leaf[p].count = n
  BY DEF Has
<1>2. Above(p, a)
  BY <1>1 DEF Fits, Suits
<1>3. p = Stop(a)
  BY <1>2, StopIs
<1> QED  BY <1>1, <1>3 DEF InTrie

(***************************************************************************)
(* Insertion.                                                              *)
(***************************************************************************)

\* The trie [b, l] stores record r and what the other keys had in leaf l0.
Stores(b, l, l0, r) ==
  /\ Fits(b, l)
  /\ Has(l, r.key, r.count)
  /\ \A a, n : a # r.key /\ Has(l0, a, n) => Has(l, a, n)

LEMMA WithIs ==
  ASSUME NEW f, NEW x, NEW v
  PROVE  /\ DOMAIN With(f, x, v) = DOMAIN f \cup {x}
         /\ With(f, x, v)[x] = v
         /\ \A y \in DOMAIN f : y # x => With(f, x, v)[y] = f[y]
BY DEF With

LEMMA WithoutIs ==
  ASSUME NEW f, NEW S
  PROVE  /\ DOMAIN Without(f, S) = DOMAIN f \ S
         /\ \A y \in DOMAIN f \ S : Without(f, S)[y] = f[y]
BY DEF Without, Restrict

\* A node is forked still when leaves are added.
LEMMA ForkedMore ==
  ASSUME NEW l, NEW l2, DOMAIN l \subseteq DOMAIN l2, NEW q, Forked(l, q)
  PROVE  Forked(l2, q)
BY DEF Forked

LEMMA ForkedAbove ==
  ASSUME NEW l, NEW q, NEW p, Above(p, q), Forked(l, q)
  PROVE  Forked(l, p)
<1>1. PICK x, y \in DOMAIN l : x # y /\ Above(q, x) /\ Above(q, y)
  BY DEF Forked
<1>2. Above(p, x) /\ Above(p, y)
  BY <1>1, AboveFacts
<1> QED  BY <1>1, <1>2 DEF Forked

\* A new leaf.
LEMMA AddFits ==
  ASSUME NEW b, NEW l, Fits(b, l), NEW r, NEW p, Suits(r, p),
         p \notin Items(b, l), p # <<>> => Parent(p) \in DOMAIN b,
         NEW b2, DOMAIN b2 = DOMAIN b,
         \A q \in DOMAIN b : b2[q] = IF p # <<>> /\ q = Parent(p) THEN b[q] + 1 ELSE b[q]
  PROVE  Fits(b2, With(l, p, r))
<1> DEFINE l2 == With(l, p, r)
<1>1. DOMAIN l2 = DOMAIN l \cup {p} /\ l2[p] = r /\ \A q \in DOMAIN l : l2[q] = l[q]
  BY DEF With, Items
<1> HIDE DEF l2
<1>2. Items(b2, l2) = Items(b, l) \cup {p}
  BY <1>1 DEF Items
<1>3. IsFiniteSet(Items(b2, l2))
  BY <1>2, FS_AddElement DEF Fits
<1>4. Reached(b2, l2)
  <2>1. p \in Paths
    BY AboveFacts DEF Suits
  <2> QED  BY <1>1, <1>2, <2>1 DEF Fits, Reached, Items
<1>5. ASSUME NEW q \in DOMAIN b2 PROVE b2[q] = Cardinality(Kids(b2, l2, q))
  <2>1. IsFiniteSet(Kids(b, l, q)) /\ p \notin Kids(b, l, q)
    <3>1. Kids(b, l, q) \in SUBSET Items(b, l)
      BY DEF Kids
    <3> QED  BY <3>1, FS_Subset DEF Fits
  <2>2. CASE p # <<>> /\ q = Parent(p)
    <3>1. Kids(b2, l2, q) = Kids(b, l, q) \cup {p}
      BY <1>2, <2>2 DEF Kids
    <3>2. Cardinality(Kids(b2, l2, q)) = Cardinality(Kids(b, l, q)) + 1
      BY <2>1, <3>1, FS_AddElement
    <3> QED  BY <2>2, <3>2 DEF Fits, Counted
  <2>3. CASE ~ (p # <<>> /\ q = Parent(p))
    <3>1. Kids(b2, l2, q) = Kids(b, l, q)
      BY <1>2, <2>3 DEF Kids
    <3> QED  BY <2>3, <3>1 DEF Fits, Counted
  <2> QED  BY <2>2, <2>3
<1>6. Needed(b2, l2)
  BY <1>1, ForkedMore DEF Fits, Needed
<1>7. \A q \in DOMAIN l2 : Suits(l2[q], q)
  BY <1>1 DEF Fits
<1> QED  BY <1>3, <1>4, <1>5, <1>6, <1>7 DEF Fits, Counted, l2

\* The new leaf's record is there, and the others are.
LEMMA AddHas ==
  ASSUME NEW b, NEW l, NEW r, NEW p, p \notin Items(b, l)
  PROVE  /\ Has(With(l, p, r), r.key, r.count)
         /\ \A a, n : Has(l, a, n) => Has(With(l, p, r), a, n)
<1>1. p \notin DOMAIN l
  BY DEF Items
<1>2. p \in DOMAIN With(l, p, r) /\ With(l, p, r)[p] = r
  BY DEF With
<1>3. ASSUME NEW q \in DOMAIN l PROVE q \in DOMAIN With(l, p, r) /\ With(l, p, r)[q] = l[q]
  BY <1>1 DEF With
<1> QED  BY <1>2, <1>3 DEF Has

\* The items count, not the identity of the functions.
LEMMA FitsSame ==
  ASSUME NEW b, NEW l, Fits(b, l),
         NEW b2, DOMAIN b2 = DOMAIN b, \A q \in DOMAIN b : b2[q] = b[q],
         NEW l2, DOMAIN l2 = DOMAIN l, \A q \in DOMAIN l : Suits(l2[q], q)
  PROVE  Fits(b2, l2)
<1>1. Items(b2, l2) = Items(b, l)
  BY DEF Items
<1>2. \A q : Kids(b2, l2, q) = Kids(b, l, q)
  BY <1>1 DEF Kids
<1>3. \A q \in DOMAIN b : Forked(l2, q)
  BY ForkedMore DEF Fits, Needed
<1> QED  BY <1>1, <1>2, <1>3 DEF Fits, Reached, Counted, Needed

\* A record instead of one with its key.
LEMMA ReplaceStores ==
  ASSUME NEW b, NEW l, Fits(b, l), NEW r, NEW p \in DOMAIN l, Suits(r, p), l[p].key = r.key
  PROVE  Stores(b, [l EXCEPT ![p] = r], l, r)
<1> DEFINE l2 == [l EXCEPT ![p] = r]
<1>1. DOMAIN l2 = DOMAIN l /\ l2[p] = r /\ \A q \in DOMAIN l : q # p => l2[q] = l[q]
  OBVIOUS
<1> HIDE DEF l2
<1>2. Fits(b, l2)
  <2>1. \A q \in DOMAIN l : Suits(l2[q], q)
    BY <1>1 DEF Fits
  <2> QED  BY <1>1, <2>1, FitsSame
<1>3. Has(l2, r.key, r.count)
  BY <1>1 DEF Has
<1>4. ASSUME NEW a, NEW n, a # r.key, Has(l, a, n) PROVE Has(l2, a, n)
  BY <1>1, <1>4 DEF Has
<1> QED  BY <1>2, <1>3, <1>4 DEF Stores, l2

\* The first digit in which two keys differ.
IsApart(k, m, h) == Prefix(k, h - 1) = Prefix(m, h - 1) /\ k[h] # m[h]

LEMMA ApartIs ==
  ASSUME NEW k \in Addresses, NEW m \in Addresses, k # m, NEW p, Above(p, k), Above(p, m)
  PROVE  /\ \E h \in 1 .. Len(k) : IsApart(k, m, h)
         /\ \A h \in 1 .. Len(k) : IsApart(k, m, h) =>
              h \in Len(p) + 1 .. Len(k) /\ Prefix(k, h) # Prefix(m, h)
<1>1. /\ k \in Paths /\ m \in Paths /\ Len(k) \in Nat /\ Len(m) = Len(k) /\ Len(p) \in Nat
      /\ k \in Seq(Nat) /\ m \in Seq(Nat)
  BY AddressesAssumption, LenProperties, AboveFacts DEF Paths
<1> DEFINE D == {h \in 1 .. Len(k) : k[h] # m[h]}
<1>2. PICK n \in D : TRUE
  BY <1>1, SeqEqual
<1>3. D \in SUBSET Nat
  BY <1>1
<1>4. PICK h \in D : \A e \in D : h <= e
  BY <1>2, <1>3, Least
<1>5. h \in 1 .. Len(k) /\ k[h] # m[h] /\ h - 1 \in 0 .. Len(k) /\ h - 1 \in 0 .. Len(m)
  BY <1>1, <1>4
<1>6. Prefix(k, h - 1) = Prefix(m, h - 1)
  <2>1. /\ Prefix(k, h - 1) \in Seq(Nat) /\ Len(Prefix(k, h - 1)) = h - 1
        /\ Prefix(m, h - 1) \in Seq(Nat) /\ Len(Prefix(m, h - 1)) = h - 1
        /\ \A i \in 1 .. h - 1 : Prefix(k, h - 1)[i] = k[i]
        /\ \A i \in 1 .. h - 1 : Prefix(m, h - 1)[i] = m[i]
    BY <1>1, <1>5, PrefixIs DEF Paths
  <2>2. \A i \in 1 .. h - 1 : k[i] = m[i]
    <3> SUFFICES ASSUME NEW i \in 1 .. h - 1, k[i] # m[i] PROVE FALSE
      OBVIOUS
    <3>1. i \in D /\ ~ (h <= i)
      BY <1>1, <1>5
    <3> QED  BY <1>4, <3>1
  <2>3. \A i \in 1 .. Len(Prefix(k, h - 1)) : Prefix(k, h - 1)[i] = Prefix(m, h - 1)[i]
    BY <2>1, <2>2
  <2> QED  BY <2>1, <2>3, SeqEqual
<1>7. \E f \in 1 .. Len(k) : IsApart(k, m, f)
  BY <1>5, <1>6 DEF IsApart
<1>8. ASSUME NEW f \in 1 .. Len(k), IsApart(k, m, f)
      PROVE  f \in Len(p) + 1 .. Len(k) /\ Prefix(k, f) # Prefix(m, f)
  <2>1. f \in 0 .. Len(k) /\ f \in 0 .. Len(m) /\ f \in 1 .. f
    BY <1>1
  <2>2. Prefix(k, f)[f] = k[f] /\ Prefix(m, f)[f] = m[f]
    BY <1>1, <2>1, PrefixIs
  <2>3. k[f] # m[f]
    BY <1>8 DEF IsApart
  <2>4. ~ (f <= Len(p))
    <3> SUFFICES ASSUME f \in 1 .. Len(p) PROVE FALSE
      BY <1>1
    <3>1. k[f] = p[f] /\ m[f] = p[f]
      BY DEF Above
    <3> QED  BY <2>3, <3>1
  <2>5. Prefix(k, f) # Prefix(m, f)
    BY <2>2, <2>3
  <2>6. f \in Len(p) + 1 .. Len(k)
    BY <1>1, <2>4
  <2> QED  BY <2>5, <2>6
<1> QED  BY <1>7, <1>8

\* The nodes from place p down to where k has e digits less one.
ChainOf(k, p, e) == {Prefix(k, h) : h \in Len(p) .. e - 1}

\* The trie [b2, l2] is [b, l] with the leaf p made a chain, which tells its
\* record from r in digit e.
IsSplit(b, l, p, r, e, b2, l2) ==
  LET C == ChainOf(r.key, p, e)
      deepest == Prefix(r.key, e - 1)
      x == Prefix(l[p].key, e)
      y == Prefix(r.key, e)
  IN  /\ e \in Len(p) + 1 .. Len(r.key)
      /\ deepest = Prefix(l[p].key, e - 1)
      /\ x # y
      /\ DOMAIN b2 = DOMAIN b \cup C
      /\ \A q \in C : b2[q] = Busy(q, deepest)
      /\ \A q \in DOMAIN b \ C : b2[q] = b[q]
      /\ DOMAIN l2 = (DOMAIN l \ {p}) \cup {x, y}
      /\ l2[x] = l[p] /\ l2[y] = r
      /\ \A q \in DOMAIN l \ {p, x, y} : l2[q] = l[q]

\* What stands in the trie anew: all of it below p.
LEMMA SplitPlaces ==
  ASSUME NEW b, NEW l, Fits(b, l), NEW p \in DOMAIN l, NEW r, Suits(r, p),
         NEW e, NEW b2, NEW l2, IsSplit(b, l, p, r, e, b2, l2),
         NEW C, C = ChainOf(r.key, p, e), NEW x, x = Prefix(l[p].key, e),
         NEW y, y = Prefix(r.key, e), NEW z, z = Prefix(r.key, e - 1)
  PROVE  /\ Len(p) \in Nat /\ e \in Nat /\ Len(p) < e /\ r.key \in Paths
         /\ \A q \in C : /\ q \in Paths /\ Above(p, q) /\ Above(q, z)
                         /\ Len(q) \in Len(p) .. e - 1 /\ q = Prefix(r.key, Len(q))
         /\ p \in C /\ z \in C /\ Len(z) = e - 1
         /\ \A w \in {x, y} : /\ w \in Paths /\ Above(p, w) /\ Above(z, w) /\ Len(w) = e
                              /\ w # <<>> /\ Parent(w) = z
         /\ \A q \in C : q # p => q # <<>> /\ Parent(q) \in C /\ Len(Parent(q)) = Len(q) - 1
         /\ \A h \in Len(p) .. e - 1 : Prefix(r.key, h) \in C
         /\ \A w \in C \cup {x, y} : w # p => w \notin Items(b, l)
         /\ p \notin {x, y} /\ x \notin C /\ y \notin C
<1> DEFINE k == r.key
           m == l[p].key
<1>1. /\ e \in Len(p) + 1 .. Len(k) /\ Prefix(k, e - 1) = Prefix(m, e - 1)
      /\ Above(p, k) /\ Above(p, m) /\ k \in Addresses /\ m \in Addresses
  BY DEF IsSplit, Fits, Suits
<1>2. Len(p) \in Nat /\ k \in Paths /\ m \in Paths /\ Len(k) \in Nat /\ Len(m) = Len(k)
  BY <1>1, AboveFacts, AddressesAssumption
<1> HIDE DEF k, m
<1>3. e \in Nat /\ Len(p) < e /\ e \in 1 .. Len(k) /\ e \in 0 .. Len(k) /\ e - 1 \in 0 .. Len(k)
  BY <1>1, <1>2
<1>4. Prefix(k, Len(p)) = p
  BY <1>1, AbovePrefix
<1>5. Len(p) \in 0 .. Len(k) /\ Len(p) \in Len(p) .. e - 1 /\ e - 1 \in Len(p) .. e - 1
  BY <1>2, <1>3
<1>6. z = Prefix(k, e - 1) /\ z = Prefix(m, e - 1) /\ x = Prefix(m, e) /\ y = Prefix(k, e)
      /\ C = {Prefix(k, h) : h \in Len(p) .. e - 1}
  BY <1>1 DEF ChainOf, k, m
<1>7. ASSUME NEW h \in Len(p) .. e - 1
      PROVE  /\ Prefix(k, h) \in Paths /\ Len(Prefix(k, h)) = h /\ Above(p, Prefix(k, h))
             /\ Above(Prefix(k, h), z)
             /\ h # Len(p) => Prefix(k, h) # <<>> /\ Parent(Prefix(k, h)) \in C
                              /\ Len(Parent(Prefix(k, h))) = h - 1
  <2>1. h \in 0 .. Len(k) /\ Len(p) <= h /\ h <= e - 1
    BY <1>2, <1>3
  <2>2. Prefix(k, h) \in Paths /\ Len(Prefix(k, h)) = h
    BY <1>2, <2>1, PrefixIs
  <2>3. Above(p, Prefix(k, h)) /\ Above(Prefix(k, h), z)
    BY <1>2, <1>3, <1>4, <1>5, <1>6, <2>1, PrefixAbove
  <2>4. ASSUME h # Len(p)
        PROVE  Prefix(k, h) # <<>> /\ Parent(Prefix(k, h)) \in C
               /\ Len(Parent(Prefix(k, h))) = h - 1
    <3>1. h \in 1 .. Len(k) /\ h - 1 \in Len(p) .. e - 1 /\ h - 1 \in 0 .. Len(k)
      BY <1>2, <1>3, <2>4
    <3>2. Parent(Prefix(k, h)) = Prefix(k, h - 1) /\ Prefix(k, h) # <<>>
      BY <1>2, <3>1, ParentOfPrefix
    <3>3. Len(Prefix(k, h - 1)) = h - 1
      BY <1>2, <3>1, PrefixIs
    <3> QED  BY <1>6, <3>1, <3>2, <3>3
  <2> QED  BY <2>2, <2>3, <2>4
<1>8. p \in C /\ z \in C /\ Len(z) = e - 1
  BY <1>4, <1>5, <1>6, <1>7
<1>9. ASSUME NEW w \in {x, y}
      PROVE  /\ w \in Paths /\ Above(p, w) /\ Above(z, w) /\ Len(w) = e
             /\ w # <<>> /\ Parent(w) = z
  <2>1. PICK j \in {k, m} : w = Prefix(j, e) /\ z = Prefix(j, e - 1)
    BY <1>6
  <2>2. j \in Paths /\ e \in 0 .. Len(j) /\ e \in 1 .. Len(j) /\ e - 1 \in 0 .. Len(j) /\ e - 1 <= e
    BY <1>2, <1>3
  <2>3. w \in Paths /\ Len(w) = e /\ w # <<>> /\ Parent(w) = z
    BY <2>1, <2>2, PrefixIs, ParentOfPrefix
  <2>4. Above(z, w)
    BY <2>1, <2>2, PrefixAbove
  <2>5. Above(p, z)
    BY <1>5, <1>6, <1>7
  <2> QED  BY <2>3, <2>4, <2>5, AboveFacts
<1>10. \A q \in C : /\ q \in Paths /\ Above(p, q) /\ Above(q, z)
                    /\ Len(q) \in Len(p) .. e - 1 /\ q = Prefix(k, Len(q))
  BY <1>6, <1>7
<1>11. ASSUME NEW q \in C, q # p
       PROVE  q # <<>> /\ Parent(q) \in C /\ Len(Parent(q)) = Len(q) - 1
  <2>1. PICK h \in Len(p) .. e - 1 : q = Prefix(k, h)
    BY <1>6
  <2>2. h # Len(p)
    BY <1>4, <1>11, <2>1
  <2>3. /\ Prefix(k, h) # <<>> /\ Parent(Prefix(k, h)) \in C /\ Len(Prefix(k, h)) = h
        /\ Len(Parent(Prefix(k, h))) = h - 1
    BY <1>7, <2>2
  <2> QED  BY <2>1, <2>3
<1>12. \A w \in C \cup {x, y} : w # p => w \notin Items(b, l)
  BY <1>9, <1>10, LeavesApart DEF Fits
<1>13. p \notin {x, y} /\ x \notin C /\ y \notin C
  BY <1>2, <1>3, <1>8, <1>9, <1>10
<1> QED
  BY <1>2, <1>3, <1>6, <1>8, <1>9, <1>10, <1>11, <1>12, <1>13 DEF k

LEMMA SplitStores ==
  ASSUME NEW b, NEW l, Fits(b, l), NEW p \in DOMAIN l, NEW r, Suits(r, p),
         NEW e, NEW b2, NEW l2, IsSplit(b, l, p, r, e, b2, l2)
  PROVE  Stores(b2, l2, l, r)
<1> DEFINE C == ChainOf(r.key, p, e)
           x == Prefix(l[p].key, e)
           y == Prefix(r.key, e)
           z == Prefix(r.key, e - 1)
<1>1. /\ Len(p) \in Nat /\ e \in Nat /\ Len(p) < e /\ r.key \in Paths
      /\ \A q \in C : /\ q \in Paths /\ Above(p, q) /\ Above(q, z)
                      /\ Len(q) \in Len(p) .. e - 1 /\ q = Prefix(r.key, Len(q))
      /\ p \in C /\ z \in C /\ Len(z) = e - 1
      /\ \A w \in {x, y} : /\ w \in Paths /\ Above(p, w) /\ Above(z, w) /\ Len(w) = e
                           /\ w # <<>> /\ Parent(w) = z
      /\ \A q \in C : q # p => q # <<>> /\ Parent(q) \in C /\ Len(Parent(q)) = Len(q) - 1
      /\ \A h \in Len(p) .. e - 1 : Prefix(r.key, h) \in C
      /\ \A w \in C \cup {x, y} : w # p => w \notin Items(b, l)
      /\ p \notin {x, y} /\ x \notin C /\ y \notin C
  BY SplitPlaces
<1>2. /\ x # y
      /\ DOMAIN b2 = DOMAIN b \cup C
      /\ \A q \in C : b2[q] = Busy(q, z)
      /\ \A q \in DOMAIN b \ C : b2[q] = b[q]
      /\ DOMAIN l2 = (DOMAIN l \ {p}) \cup {x, y}
      /\ l2[x] = l[p] /\ l2[y] = r
      /\ \A q \in DOMAIN l \ {p, x, y} : l2[q] = l[q]
      /\ e \in Len(p) + 1 .. Len(r.key)
  BY DEF IsSplit
<1>3. /\ Above(x, l[p].key) /\ Above(y, r.key)
  <2>1. /\ l[p].key \in Addresses /\ r.key \in Addresses
        /\ Above(p, l[p].key) /\ Above(p, r.key)
    BY DEF Fits, Suits
  <2>2. l[p].key \in Paths /\ r.key \in Paths /\ Len(l[p].key) = Len(r.key)
        /\ Len(r.key) \in Nat
    BY <2>1, AddressesAssumption, AboveFacts
  <2>3. e \in 0 .. Len(r.key)
    BY <1>1, <1>2, <2>2
  <2> QED  BY <2>2, <2>3, PrefixIs
<1>4. /\ IsFiniteSet(Items(b, l)) /\ Reached(b, l) /\ Counted(b, l) /\ Needed(b, l)
      /\ \A q \in DOMAIN l : Suits(l[q], q)
  BY DEF Fits
<1> HIDE DEF C, x, y, z
<1>5. Items(b2, l2) = Items(b, l) \cup C \cup {x, y}
  BY <1>1, <1>2 DEF Items
<1>6. IsFiniteSet(C)
  <2>1. C \in SUBSET {Prefix(r.key, h) : h \in Len(p) .. e - 1}
    BY DEF C, ChainOf
  <2>2. IsFiniteSet(Len(p) .. e - 1)
    BY <1>1, FS_Interval
  <2>3. IsFiniteSet({Prefix(r.key, h) : h \in Len(p) .. e - 1})
    <3> DEFINE f == [h \in Len(p) .. e - 1 |-> Prefix(r.key, h)]
               S == {Prefix(r.key, h) : h \in Len(p) .. e - 1}
    <3>1. f \in Surjection(Len(p) .. e - 1, S)
      BY DEF Surjection
    <3> HIDE DEF f
    <3> QED  BY <2>2, <3>1, FS_Surjection
  <2> QED  BY <2>1, <2>3, FS_Subset
<1>7. IsFiniteSet(Items(b2, l2))
  <2>1. IsFiniteSet({x, y})
    <3>1. IsFiniteSet({x} \cup {y})
      BY FS_Singleton, FS_AddElement
    <3>2. {x} \cup {y} = {x, y}
      OBVIOUS
    <3> QED  BY <3>1, <3>2
  <2>2. IsFiniteSet(Items(b, l) \cup C)
    BY <1>4, <1>6, FS_Union
  <2> QED  BY <1>5, <2>1, <2>2, FS_Union
<1>8. Reached(b2, l2)
  <2>1. Items(b2, l2) \in SUBSET Paths
    BY <1>1, <1>4, <1>5 DEF Reached
  <2>2. DOMAIN b2 \cap DOMAIN l2 = {}
    <3>1. ASSUME NEW w \in DOMAIN l \ {p} PROVE w \notin DOMAIN b2
      BY <1>1, <1>2, <1>4 DEF Reached, Items
    <3>2. x \notin DOMAIN b2 /\ y \notin DOMAIN b2
      BY <1>1, <1>2 DEF Items
    <3> QED  BY <1>2, <3>1, <3>2
  <2>3. ASSUME NEW w \in Items(b2, l2), w # <<>> PROVE Parent(w) \in DOMAIN b2
    <3>1. CASE w \in {x, y}
      BY <1>1, <1>2, <3>1
    <3>2. CASE w \in C /\ w # p
      BY <1>1, <1>2, <3>2
    <3>3. CASE w \in Items(b, l)
      BY <1>2, <1>4, <2>3, <3>3 DEF Reached
    <3>4. p \in Items(b, l)
      BY DEF Items
    <3> QED  BY <1>5, <3>1, <3>2, <3>3, <3>4
  <2> QED  BY <2>1, <2>2, <2>3 DEF Reached
<1>9. ASSUME NEW q \in DOMAIN b \ C PROVE b2[q] = Cardinality(Kids(b2, l2, q))
  <2>1. ASSUME NEW w \in Items(b2, l2), w \notin Items(b, l) PROVE Parent(w) \in C
    <3>1. w # p
      BY <2>1 DEF Items
    <3> QED  BY <1>1, <1>5, <2>1, <3>1
  <2>2. Kids(b2, l2, q) = Kids(b, l, q)
    BY <1>5, <2>1 DEF Kids
  <2> QED  BY <1>2, <1>4, <2>2 DEF Counted
<1>10. ASSUME NEW q \in C PROVE b2[q] = Cardinality(Kids(b2, l2, q))
  <2>1. q \notin DOMAIN b
    BY <1>1, <1>4 DEF Items, Reached
  <2>2. ASSUME NEW w \in Kids(b2, l2, q) PROVE w \in {x, y} \/ w \in C \ {p}
    <3>1. w \in Items(b2, l2) /\ w # <<>> /\ Parent(w) = q
      BY <2>2 DEF Kids
    <3>2. w \notin Items(b, l)
      BY <1>4, <2>1, <3>1 DEF Reached
    <3>3. w # p
      BY <3>2 DEF Items
    <3> QED  BY <1>5, <3>1, <3>2, <3>3
  <2>3. CASE q = z
    <3>1. Kids(b2, l2, q) = {x, y}
      <4>1. x \in Kids(b2, l2, q) /\ y \in Kids(b2, l2, q)
        BY <1>1, <1>5, <2>3 DEF Kids
      <4>2. ASSUME NEW w \in C \ {p} PROVE w \notin Kids(b2, l2, q)
        <5>1. Len(Parent(w)) = Len(w) - 1 /\ Len(w) \in Len(p) .. e - 1 /\ Len(q) = e - 1
          BY <1>1, <2>3
        <5> QED  BY <1>1, <5>1 DEF Kids
      <4> QED  BY <2>2, <4>1, <4>2
    <3>2. Cardinality({x} \cup {y}) = 2 /\ {x} \cup {y} = {x, y}
      <4>1. IsFiniteSet({x}) /\ Cardinality({x}) = 1 /\ y \notin {x}
        BY <1>2, FS_Singleton
      <4>2. Cardinality({x} \cup {y}) = 1 + 1
        BY <4>1, FS_AddElement
      <4> QED  BY <4>2
    <3>3. b2[q] = 2
      BY <1>2, <2>3 DEF Busy
    <3> QED  BY <3>1, <3>2, <3>3
  <2>4. CASE q # z
    <3> DEFINE w == Prefix(r.key, Len(q) + 1)
    <3>1. Len(q) \in Len(p) .. e - 1 /\ Len(z) = e - 1 /\ q \in Paths /\ Above(q, z)
          /\ q = Prefix(r.key, Len(q)) /\ z \in C
      BY <1>1
    <3>2. Len(q) # e - 1
      BY <2>4, <3>1, AboveFacts
    <3>3. Len(q) + 1 \in Len(p) .. e - 1 /\ Len(q) + 1 \in 1 .. Len(r.key)
          /\ Len(q) + 1 \in 0 .. Len(r.key) /\ Len(q) + 1 - 1 = Len(q)
      <4>1. Len(r.key) \in Nat /\ e <= Len(r.key)
        BY <1>1, <1>2, RootIs
      <4>2. Len(q) \in Nat /\ Len(p) <= Len(q) /\ Len(q) + 1 <= e - 1
        BY <1>1, <3>1, <3>2
      <4> QED  BY <1>1, <4>1, <4>2
    <3>4. w \in C /\ w # <<>> /\ Parent(w) = q /\ Len(w) = Len(q) + 1
      BY SMTT(30), <1>1, <3>1, <3>3, ParentOfPrefix, PrefixIs
    <3>5. w \in Kids(b2, l2, q)
      BY <1>5, <3>4 DEF Kids
    <3> HIDE DEF w
    <3>6. ASSUME NEW v \in Kids(b2, l2, q) PROVE v = w
      <4>1. Parent(v) = q
        BY <3>6 DEF Kids
      <4>2. v \notin {x, y}
        BY <1>1, <2>4, <4>1
      <4>3. v \in C \ {p}
        BY <2>2, <4>2
      <4>4. Len(q) = Len(v) - 1 /\ v = Prefix(r.key, Len(v)) /\ Len(v) \in Len(p) .. e - 1
        BY <1>1, <4>1, <4>3
      <4>5. Len(v) = Len(q) + 1
        BY <1>1, <4>4
      <4> QED  BY <4>4, <4>5 DEF w
    <3>7. Kids(b2, l2, q) = {w}
      BY <3>5, <3>6
    <3>8. b2[q] = 1
      BY <1>2, <2>4 DEF Busy
    <3> QED  BY <3>7, <3>8, FS_Singleton
  <2> QED  BY <2>3, <2>4
<1>11. Counted(b2, l2)
  BY <1>2, <1>9, <1>10 DEF Counted
<1>12. Needed(b2, l2)
  <2>1. ASSUME NEW q \in C PROVE Forked(l2, q)
    <3>1. Above(q, x) /\ Above(q, y)
      BY <1>1, AboveFacts
    <3> QED  BY <1>2, <3>1 DEF Forked
  <2>2. ASSUME NEW q \in DOMAIN b \ C PROVE Forked(l2, q)
    <3>1. PICK u, v \in DOMAIN l : u # v /\ Above(q, u) /\ Above(q, v)
      BY <1>4 DEF Needed, Forked
    <3>2. CASE u # p /\ v # p
      <4>1. u \in DOMAIN l2 /\ v \in DOMAIN l2
        BY <1>2, <3>2
      <4> QED  BY <3>1, <4>1 DEF Forked
    <3>3. CASE u = p \/ v = p
      <4>1. Above(q, p)
        BY <3>1, <3>3
      <4>2. Above(q, x) /\ Above(q, y)
        BY <1>1, <4>1, AboveFacts
      <4> QED  BY <1>2, <4>2 DEF Forked
    <3> QED  BY <3>2, <3>3
  <2> QED  BY <1>2, <2>1, <2>2 DEF Needed
<1>13. \A q \in DOMAIN l2 : Suits(l2[q], q)
  <2>1. Suits(l2[x], x) /\ Suits(l2[y], y)
    BY <1>2, <1>3, <1>4 DEF Suits
  <2>2. \A q \in DOMAIN l \ {p, x, y} : Suits(l2[q], q)
    BY <1>2, <1>4
  <2> QED  BY <1>2, <2>1, <2>2
<1>14. Has(l2, r.key, r.count)
  BY <1>2 DEF Has
<1>15. ASSUME NEW a, NEW n, Has(l, a, n) PROVE Has(l2, a, n)
  <2>1. PICK u \in DOMAIN l : l[u].key = a /\ l[u].count = n
    BY <1>15 DEF Has
  <2>2. CASE u = p
    BY <1>2, <2>1, <2>2 DEF Has
  <2>3. CASE u # p
    <3>1. u \notin {x, y}
      BY <1>1 DEF Items
    <3>2. u \in DOMAIN l2 /\ l2[u] = l[u]
      BY <1>2, <2>3, <3>1
    <3> QED  BY <2>1, <3>2 DEF Has
  <2> QED  BY <2>2, <2>3
<1> QED  BY <1>7, <1>8, <1>11, <1>12, <1>13, <1>14, <1>15 DEF Fits, Stores

Pools == [nodes : Nat, records : Nat]

LEMMA LeftIs ==
  ASSUME NEW s \in Nat, NEW n \in Nat, NEW block \in Nat \ {0}
  PROVE  Left(s, n, block) \in Nat
<1>1. (s - n) % block \in 0 .. block - 1
  OBVIOUS
<1> QED  BY <1>1 DEF Left

\* What holds of a trie that an insertion has left in pieces.
Torn(b, l) ==
  DOMAIN b \cap DOMAIN l = {} /\ \A p \in DOMAIN l : l[p].key \in Addresses /\ l[p].count \in Counts

\* Outcome o of the insertion of r: what it must be, if it succeeds, if it
\* fails at once and if it is cut off.
Inserted(o, r) ==
  /\ o.spare \in Pools /\ o.ok \in BOOLEAN /\ o.torn \in BOOLEAN
  /\ o.ok => ~ o.torn /\ Stores(o.busy, o.leaf, leaf, r)
  /\ ~ o.ok /\ ~ o.torn => /\ Fits(o.busy, o.leaf)
                           /\ \A a, n : Has(leaf, a, n) => Has(o.leaf, a, n)
  /\ o.torn => Torn(o.busy, o.leaf)

LEMMA FitsTorn ==
  ASSUME NEW b, NEW l, Fits(b, l)
  PROVE  Torn(b, l)
BY DEF Fits, Reached, Suits, Torn

LEMMA AddedIs ==
  ASSUME Fits(busy, leaf), NEW r, NEW p, Suits(r, p), IsNull(p),
         p # <<>> => Parent(p) \in DOMAIN busy, NEW s \in Pools
  PROVE  Inserted(Added(r, p, s), r)
<1> DEFINE b2 == IF p = <<>> THEN busy ELSE [busy EXCEPT ![Parent(p)] = @ + 1]
           l2 == With(leaf, p, r)
<1>1. DOMAIN b2 = DOMAIN busy
      /\ \A q \in DOMAIN busy :
           b2[q] = IF p # <<>> /\ q = Parent(p) THEN busy[q] + 1 ELSE busy[q]
  OBVIOUS
<1>2. p \notin Items(busy, leaf)
  BY DEF IsNull, Items
<1>3. Added(r, p, s) = Outcome(b2, l2, s, TRUE, FALSE)
  BY DEF Added
<1> HIDE DEF b2, l2
<1>4. Fits(b2, l2)
  BY <1>1, <1>2, AddFits DEF l2
<1>5. Has(l2, r.key, r.count) /\ \A a, n : Has(leaf, a, n) => Has(l2, a, n)
  BY <1>2, AddHas DEF l2
<1>6. Stores(b2, l2, leaf, r)
  BY <1>4, <1>5 DEF Stores
<1> QED  BY <1>3, <1>6 DEF Inserted, Outcome

LEMMA ReplacedIs ==
  ASSUME Fits(busy, leaf), NEW r, NEW p \in DOMAIN leaf, Suits(r, p), leaf[p].key = r.key,
         NEW s \in Pools, NEW o, o = Outcome(busy, [leaf EXCEPT ![p] = r], s, TRUE, FALSE)
  PROVE  Inserted(o, r)
<1> DEFINE l2 == [leaf EXCEPT ![p] = r]
<1>1. Stores(busy, l2, leaf, r)
  BY ReplaceStores
<1> HIDE DEF l2
<1>2. o.busy = busy /\ o.leaf = l2 /\ o.spare = s /\ o.ok = TRUE /\ o.torn = FALSE
  BY DEF Outcome, l2
<1> QED  BY <1>1, <1>2 DEF Inserted

LEMMA UnchangedIs ==
  ASSUME Fits(busy, leaf), NEW r, NEW s \in Pools, NEW o, o = Unchanged(s, FALSE)
  PROVE  Inserted(o, r)
<1>1. o.busy = busy /\ o.leaf = leaf /\ o.spare = s /\ o.ok = FALSE /\ o.torn = FALSE
  BY DEF Unchanged, Outcome
<1> QED  BY <1>1 DEF Inserted

LEMMA SplitIs ==
  ASSUME Fits(busy, leaf), NEW r, NEW p \in DOMAIN leaf, Suits(r, p), leaf[p].key # r.key,
         NEW s \in Pools, NEW o \in Split(r, p, s)
  PROVE  Inserted(o, r)
<1> DEFINE other == leaf[p]
           apart == CHOOSE h \in 1 .. Len(r.key) :
                      Prefix(r.key, h - 1) = Prefix(other.key, h - 1) /\ r.key[h] # other.key[h]
           Chain(n) == {Prefix(r.key, h) : h \in Len(p) .. Len(p) + n - 1}
           all == apart - Len(p)
           deepest == Prefix(r.key, apart - 1)
           Grown(n) == [q \in DOMAIN busy \cup Chain(n) |->
                          IF q \in Chain(n) THEN Busy(q, deepest) ELSE busy[q]]
           l2 == With(With(Without(leaf, {p}), Prefix(other.key, apart), other),
                      Prefix(r.key, apart), r)
           s2 == [s EXCEPT !.nodes = Left(@, all, NodeBlock)]
           s3 == [s EXCEPT !.nodes = 0]
<1>1. /\ r.key \in Addresses /\ other.key \in Addresses
      /\ Above(p, r.key) /\ Above(p, other.key) /\ r.key # other.key
  BY DEF Fits, Suits
<1>2. apart \in 1 .. Len(r.key) /\ IsApart(r.key, other.key, apart)
  <2>1. \E h \in 1 .. Len(r.key) : IsApart(r.key, other.key, h)
    BY <1>1, ApartIs
  <2> QED  BY <2>1 DEF IsApart
<1>3. \/ o = Outcome(Grown(all), l2, s2, TRUE, FALSE)
      \/ \E n \in Obtained(s.nodes, all, NodeBlock) :
           o = Outcome(Grown(n), IF n = 0 THEN leaf ELSE Without(leaf, {p}), s3, FALSE, n > 0)
  BY DEF Split
<1> HIDE DEF other, apart
<1>4. apart \in Len(p) + 1 .. Len(r.key) /\ Prefix(r.key, apart) # Prefix(other.key, apart)
  BY <1>1, <1>2, ApartIs
<1>5. Len(p) \in Nat /\ all \in Nat /\ Len(p) + all - 1 = apart - 1 /\ apart \in Nat
  <2>1. Len(p) \in Nat /\ Len(r.key) \in Nat
    BY <1>1, AboveFacts
  <2> QED  BY <1>4, <2>1
<1>6. s2 \in Pools /\ s3 \in Pools
  <2>1. s.nodes \in Nat
    BY DEF Pools
  <2>2. Left(s.nodes, all, NodeBlock) \in Nat
    BY <1>5, <2>1, LeftIs, BlocksAssumption
  <2> QED  BY <2>2 DEF Pools
<1>7. CASE o = Outcome(Grown(all), l2, s2, TRUE, FALSE)
  <2> DEFINE C == ChainOf(r.key, p, apart)
             x == Prefix(other.key, apart)
             y == Prefix(r.key, apart)
             b2 == Grown(all)
  <2>1. Chain(all) = C
    BY <1>5 DEF ChainOf
  <2>2. /\ DOMAIN b2 = DOMAIN busy \cup C
        /\ \A q \in C : b2[q] = Busy(q, deepest)
        /\ \A q \in DOMAIN busy \ C : b2[q] = busy[q]
    BY <2>1
  <2>3. /\ DOMAIN l2 = (DOMAIN leaf \ {p}) \cup {x, y}
        /\ l2[x] = other /\ l2[y] = r
        /\ \A q \in DOMAIN leaf \ {p, x, y} : l2[q] = leaf[q]
    <3>1. x # y
      BY <1>4
    <3> HIDE DEF x, y
    <3>2. /\ DOMAIN With(With(Without(leaf, {p}), x, other), y, r) = (DOMAIN leaf \ {p}) \cup {x, y}
          /\ With(With(Without(leaf, {p}), x, other), y, r)[x] = other
          /\ With(With(Without(leaf, {p}), x, other), y, r)[y] = r
          /\ \A q \in DOMAIN leaf \ {p, x, y} :
               With(With(Without(leaf, {p}), x, other), y, r)[q] = leaf[q]
      BY <3>1 DEF With, Without, Restrict
    <3> QED  BY <3>2 DEF x, y
  <2>4. IsSplit(busy, leaf, p, r, apart, b2, l2)
    <3>1. deepest = Prefix(other.key, apart - 1)
      BY <1>2 DEF IsApart
    <3> HIDE DEF b2, l2
    <3> QED  BY <1>4, <2>2, <2>3, <3>1 DEF IsSplit, other
  <2>5. Stores(b2, l2, leaf, r)
    <3> HIDE DEF b2, l2
    <3> QED  BY <2>4, SplitStores
  <2>6. o.busy = b2 /\ o.leaf = l2 /\ o.spare = s2 /\ o.ok = TRUE /\ o.torn = FALSE
    <3> HIDE DEF Grown, l2, s2
    <3> QED  BY <1>7 DEF Outcome
  <2> HIDE DEF b2, l2, s2
  <2> QED  BY <1>6, <2>5, <2>6 DEF Inserted
<1>8. ASSUME NEW n \in Obtained(s.nodes, all, NodeBlock),
             o = Outcome(Grown(n), IF n = 0 THEN leaf ELSE Without(leaf, {p}), s3, FALSE, n > 0)
      PROVE  Inserted(o, r)
  <2>1. n \in Nat /\ n <= all
    BY <1>5 DEF Obtained
  <2> DEFINE b3 == Grown(n)
             l3 == IF n = 0 THEN leaf ELSE Without(leaf, {p})
  <2>2. /\ o.busy = b3 /\ o.leaf = l3 /\ o.spare = s3 /\ o.ok = FALSE
        /\ n = 0 => o.torn = FALSE
        /\ n # 0 => o.torn = TRUE
    <3>1. (n = 0 => (n > 0) = FALSE) /\ (n # 0 => (n > 0) = TRUE)
      BY <2>1
    <3> HIDE DEF Grown, s3
    <3>2. o.torn = (n > 0)
      BY <1>8 DEF Outcome
    <3>3. o.busy = b3 /\ o.leaf = l3 /\ o.spare = s3 /\ o.ok = FALSE
      BY <1>8 DEF Outcome
    <3> QED  BY <3>1, <3>2, <3>3
  <2>3. CASE n = 0
    <3>1. Chain(n) = {}
      BY <1>5, <2>3
    <3>2. DOMAIN b3 = DOMAIN busy /\ \A q \in DOMAIN busy : b3[q] = busy[q]
      BY <3>1
    <3>3. l3 = leaf
      BY <2>3
    <3> HIDE DEF b3, l3, s3
    <3>4. Fits(b3, leaf)
      <4>1. \A q \in DOMAIN leaf : Suits(leaf[q], q)
        BY DEF Fits
      <4> QED  BY <3>2, <4>1, FitsSame
    <3>5. o.torn = FALSE /\ \A a, m : Has(leaf, a, m) => Has(o.leaf, a, m)
      BY <2>2, <2>3, <3>3
    <3> QED  BY <1>6, <2>2, <3>3, <3>4, <3>5 DEF Inserted
  <2>4. CASE n # 0
    <3>1. Chain(n) \subseteq ChainOf(r.key, p, apart)
      BY <1>5, <2>1 DEF ChainOf
    <3>2. DOMAIN b3 = DOMAIN busy \cup Chain(n)
      OBVIOUS
    <3>3. DOMAIN l3 = DOMAIN leaf \ {p} /\ \A q \in DOMAIN l3 : l3[q] = leaf[q]
      BY <2>4 DEF Without, Restrict
    <3> HIDE DEF b3, l3, s3, Chain
    <3>4. ASSUME NEW q \in Chain(n) PROVE q \notin DOMAIN leaf \ {p}
      <4>1. PICK h \in Len(p) .. apart - 1 : q = Prefix(r.key, h)
        BY <3>1 DEF ChainOf
      <4>2. r.key \in Paths /\ Len(r.key) \in Nat /\ Prefix(r.key, Len(p)) = p
        BY <1>1, AboveFacts, AbovePrefix
      <4>3. /\ Len(p) \in 0 .. Len(r.key) /\ h \in 0 .. Len(r.key) /\ Len(p) <= h
        BY <1>4, <1>5, <4>1, <4>2
      <4>4. Above(p, q)
        BY <4>1, <4>2, <4>3, PrefixAbove
      <4> QED  BY <4>4, LeavesApart DEF Fits, Items
    <3>5. DOMAIN b3 \cap DOMAIN l3 = {}
      BY <3>2, <3>3, <3>4 DEF Fits, Reached
    <3>6. \A q \in DOMAIN l3 : l3[q].key \in Addresses /\ l3[q].count \in Counts
      BY <3>3 DEF Fits, Suits
    <3>7. o.torn = TRUE
      BY <2>2, <2>4
    <3> QED  BY <1>6, <2>2, <3>5, <3>6, <3>7 DEF Inserted, Torn
  <2> QED  BY <2>3, <2>4
<1> HIDE DEF Grown, l2, s2, s3, all
<1> QED  BY <1>3, <1>7, <1>8

LEMMA Inserts ==
  ASSUME Fits(busy, leaf), spare \in Pools, NEW r, r.key \in Addresses, r.count \in Counts,
         NEW o \in Insert(r)
  PROVE  Inserted(o, r)
<1> DEFINE p == Stop(r.key)
           s == [spare EXCEPT !.records = Left(@, 1, RecordBlock)]
<1>1. Suits(r, p) /\ (p # <<>> => Parent(p) \in DOMAIN busy) /\ p \notin DOMAIN busy
  BY StopIs DEF Suits
<1>2. s \in Pools /\ [s EXCEPT !.records = @ + 1] \in Pools
  <2>1. spare.records \in Nat
    BY DEF Pools
  <2>2. Left(spare.records, 1, RecordBlock) \in Nat
    BY <2>1, LeftIs, BlocksAssumption
  <2>3. s \in Pools
    BY <2>2 DEF Pools
  <2> HIDE DEF s
  <2> QED  BY <2>3 DEF Pools
<1>3. \/ o = Unchanged(spare, FALSE)
      \/ IsNull(p) /\ o = Added(r, p, s)
      \/ /\ ~ IsNull(p) /\ leaf[p].key = r.key
         /\ o = Outcome(busy, [leaf EXCEPT ![p] = r], [s EXCEPT !.records = @ + 1], TRUE, FALSE)
      \/ ~ IsNull(p) /\ leaf[p].key # r.key /\ o \in Split(r, p, s)
  BY DEF Insert
<1> HIDE DEF p, s
<1>4. ~ IsNull(p) => p \in DOMAIN leaf
  BY <1>1 DEF IsNull
<1> QED  BY <1>1, <1>2, <1>3, <1>4, UnchangedIs, AddedIs, ReplacedIs, SplitIs

(***************************************************************************)
(* Removal.                                                                *)
(***************************************************************************)

\* The trie [b, l2] is without the record of key k and has what l had of the
\* others.
Drops(b, l2, l, k) ==
  Fits(b, l2) /\ \A a, n : a # k /\ Has(l, a, n) => Has(l2, a, n)

\* The last record, which is the root.
LEMMA RootRemoved ==
  ASSUME NEW b, NEW l, Fits(b, l), <<>> \in DOMAIN l,
         NEW l2, DOMAIN l2 = DOMAIN l \ {<<>>}
  PROVE  Drops(b, l2, l, l[<<>>].key)
<1>1. \A x \in Items(b, l) : x = <<>>
  BY LeavesApart, RootIs DEF Fits, Reached
<1>2. DOMAIN b = {} /\ DOMAIN l = {<<>>}
  BY <1>1 DEF Items, Fits, Reached
<1>3. DOMAIN l2 = {} /\ Items(b, l2) = {}
  BY <1>2 DEF Items
<1>4. Fits(b, l2)
  <2>1. IsFiniteSet(Items(b, l2))
    BY <1>3, FS_EmptySet
  <2> QED  BY <1>2, <1>3, <2>1 DEF Fits, Reached, Counted, Needed
<1> QED  BY <1>2, <1>4 DEF Drops, Has

\* The children of a node are apart.
LEMMA KidsApart ==
  ASSUME NEW b, NEW l, Reached(b, l), NEW q, NEW c \in Kids(b, l, q), NEW h \in Kids(b, l, q),
         NEW x, Above(c, x), Above(h, x)
  PROVE  c = h
<1>1. c \in Paths /\ h \in Paths /\ c # <<>> /\ h # <<>> /\ Parent(c) = q /\ Parent(h) = q
  BY DEF Kids, Reached
<1>2. Len(c) = Len(h) /\ Len(c) \in Nat
  <2>1. Len(q) = Len(c) - 1 /\ Len(q) = Len(h) - 1
    BY <1>1, ParentIs
  <2>2. Len(c) \in Nat /\ Len(h) \in Nat
    BY <1>1, RootIs
  <2> QED  BY <2>1, <2>2
<1>3. Above(c, h)
  BY <1>2, AboveFacts
<1> QED  BY <1>2, <1>3, AboveFacts

\* A node has two children or one that is a node.
LEMMA KidsOf ==
  ASSUME NEW b, NEW l, Fits(b, l), NEW q \in DOMAIN b
  PROVE  /\ IsFiniteSet(Kids(b, l, q)) /\ b[q] \in Nat /\ b[q] >= 1
         /\ \A p \in DOMAIN l : Kids(b, l, q) \ {p} # {}
<1>1. IsFiniteSet(Kids(b, l, q))
  <2>1. Kids(b, l, q) \in SUBSET Items(b, l)
    BY DEF Kids
  <2> QED  BY <2>1, FS_Subset DEF Fits
<1>2. PICK x, y \in DOMAIN l : x # y /\ Above(q, x) /\ Above(q, y)
  BY DEF Fits, Needed, Forked
<1>3. ASSUME NEW u \in DOMAIN l, Above(q, u)
      PROVE  \E c \in Kids(b, l, q) : Above(c, u)
  <2>1. u \in Paths /\ q \in Paths /\ u # q /\ u \in Items(b, l)
    BY DEF Fits, Reached, Items
  <2>2. Len(u) \in Nat /\ Len(q) \in Nat /\ Len(q) <= Len(u) /\ Len(q) # Len(u)
    BY <1>3, <2>1, AboveFacts
  <2> DEFINE e == Len(q) + 1
             c == Prefix(u, e)
  <2>3. e \in 1 .. Len(u) /\ e \in 0 .. Len(u) /\ e - 1 = Len(q)
    BY <2>2
  <2>4. Parent(c) = q /\ c # <<>> /\ Above(c, u)
    <3>1. Parent(c) = Prefix(u, e - 1) /\ c # <<>>
      BY <2>1, <2>3, ParentOfPrefix
    <3>2. Prefix(u, Len(q)) = q
      BY <1>3, AbovePrefix
    <3>3. Above(c, u)
      BY <2>1, <2>3, PrefixIs
    <3> QED  BY <2>3, <3>1, <3>2, <3>3
  <2> HIDE DEF c
  <2>5. c \in Items(b, l)
    BY <2>1, <2>4, PrefixNodes DEF Fits, Items
  <2> QED  BY <2>4, <2>5 DEF Kids
<1>4. PICK c \in Kids(b, l, q) : Above(c, x)
  BY <1>2, <1>3
<1>5. b[q] \in Nat /\ b[q] >= 1
  <2>1. b[q] = Cardinality(Kids(b, l, q))
    BY DEF Fits, Counted
  <2>2. Cardinality(Kids(b, l, q)) \in Nat /\ Cardinality(Kids(b, l, q)) # 0
    BY <1>1, <1>4, FS_CardinalityType, FS_EmptySet
  <2> QED  BY <2>1, <2>2
<1>6. ASSUME NEW p \in DOMAIN l PROVE Kids(b, l, q) \ {p} # {}
  <2>1. PICK u \in DOMAIN l : u # p /\ Above(q, u)
    BY <1>2
  <2>2. PICK k \in Kids(b, l, q) : Above(k, u)
    BY <1>3, <2>1
  <2>3. k # p
    <3>1. u \in Items(b, l)
      BY DEF Items
    <3> QED  BY <2>1, <2>2, <3>1, LeavesApart DEF Fits
  <2> QED  BY <2>2, <2>3
<1> QED  BY <1>1, <1>5, <1>6

\* A set of more than one has two.
LEMMA TwoOf ==
  ASSUME NEW S, IsFiniteSet(S), Cardinality(S) > 1
  PROVE  \E c, h \in S : c # h
<1>1. Cardinality(S) \in Nat
  BY FS_CardinalityType
<1>2. Cardinality(S) # 0 /\ Cardinality(S) # 1
  BY <1>1
<1>3. PICK c \in S : TRUE
  BY <1>2, FS_EmptySet
<1>4. S # {c}
  BY <1>2, FS_Singleton
<1> QED  BY <1>3, <1>4

\* Leaf p goes, and node q, its parent, keeps two children or a node.
LeafGoes(b, l, p, q, b2, l2) ==
  /\ b[q] - 1 > 1 \/ \E i \in Kids(b, l, q) : i # p /\ i \in DOMAIN b
  /\ DOMAIN b2 = DOMAIN b /\ b2[q] = b[q] - 1
  /\ \A g \in DOMAIN b : g # q => b2[g] = b[g]
  /\ DOMAIN l2 = DOMAIN l \ {p} /\ \A u \in DOMAIN l2 : l2[u] = l[u]

\* The node remains needed.
LEMMA LeafRemoved ==
  ASSUME NEW b, NEW l, Fits(b, l), NEW p \in DOMAIN l, p # <<>>,
         NEW q, q = Parent(p),
         NEW b2, NEW l2, LeafGoes(b, l, p, q, b2, l2)
  PROVE  Drops(b2, l2, l, l[p].key)
<1> USE DEF LeafGoes
<1>1. /\ IsFiniteSet(Items(b, l)) /\ Reached(b, l) /\ Counted(b, l) /\ Needed(b, l)
      /\ \A u \in DOMAIN l : Suits(l[u], u)
  BY DEF Fits
<1>2. q \in DOMAIN b /\ p \in Kids(b, l, q) /\ p \notin DOMAIN b /\ p \in Items(b, l)
  BY <1>1 DEF Reached, Items, Kids
<1>3. Items(b2, l2) = Items(b, l) \ {p}
  BY <1>2 DEF Items
<1>4. IsFiniteSet(Items(b2, l2))
  BY <1>1, <1>3, FS_RemoveElement
<1>5. Reached(b2, l2)
  BY <1>1, <1>3 DEF Reached, Items
<1>6. Counted(b2, l2)
  <2> SUFFICES ASSUME NEW g \in DOMAIN b PROVE b2[g] = Cardinality(Kids(b2, l2, g))
    BY DEF Counted
  <2>1. Kids(b2, l2, g) = Kids(b, l, g) \ {p}
    BY <1>3 DEF Kids
  <2>2. CASE g = q
    <3>1. Cardinality(Kids(b, l, g) \ {p}) = Cardinality(Kids(b, l, g)) - 1
      BY <1>2, <2>2, KidsOf, FS_RemoveElement
    <3> QED  BY <1>1, <2>1, <2>2, <3>1 DEF Counted
  <2>3. CASE g # q
    <3>1. Kids(b, l, g) \ {p} = Kids(b, l, g)
      BY <2>3 DEF Kids
    <3> QED  BY <1>1, <2>1, <2>3, <3>1 DEF Counted
  <2> QED  BY <2>2, <2>3
<1>7. Forked(l2, q)
  <2>1. \A c \in Kids(b, l, q) : Above(q, c)
    BY <1>1, ParentIs DEF Kids, Reached
  <2>2. CASE b[q] - 1 > 1
    <3>1. IsFiniteSet(Kids(b, l, q) \ {p}) /\ Cardinality(Kids(b, l, q) \ {p}) > 1
      <4>1. IsFiniteSet(Kids(b, l, q)) /\ b[q] = Cardinality(Kids(b, l, q))
        BY <1>1, <1>2, KidsOf DEF Counted
      <4> QED  BY <1>2, <2>2, <4>1, FS_RemoveElement
    <3>2. PICK c, h \in Kids(b, l, q) \ {p} : c # h
      BY <3>1, TwoOf
    <3>3. ASSUME NEW k \in Kids(b, l, q) \ {p} PROVE \E u \in DOMAIN l2 : Above(k, u)
      <4>1. PICK u \in DOMAIN l : Above(k, u)
        BY <1>1, RecordBelow DEF Kids
      <4>2. Above(p, p)
        BY <1>1, <1>2, AboveFacts DEF Reached
      <4>3. u # p
        BY <1>1, <1>2, <4>1, <4>2, KidsApart
      <4> QED  BY <4>1, <4>3
    <3>4. PICK u \in DOMAIN l2 : Above(c, u)
      BY <3>2, <3>3
    <3>5. PICK v \in DOMAIN l2 : Above(h, v)
      BY <3>2, <3>3
    <3>6. u # v
      BY <1>1, <3>2, <3>4, <3>5, KidsApart
    <3>7. Above(q, u) /\ Above(q, v)
      BY <2>1, <3>2, <3>4, <3>5, AboveFacts
    <3> QED  BY <3>6, <3>7 DEF Forked
  <2>3. CASE \E i \in Kids(b, l, q) : i # p /\ i \in DOMAIN b
    <3>1. PICK i \in Kids(b, l, q) : i # p /\ i \in DOMAIN b
      BY <2>3
    <3>2. PICK u, v \in DOMAIN l : u # v /\ Above(i, u) /\ Above(i, v)
      BY <1>1, <3>1 DEF Needed, Forked
    <3>3. Above(p, p)
      BY <1>1, <1>2, AboveFacts DEF Reached
    <3>4. u # p /\ v # p
      BY <1>1, <1>2, <3>1, <3>2, <3>3, KidsApart
    <3>5. Above(q, u) /\ Above(q, v)
      BY <2>1, <3>2, AboveFacts
    <3> QED  BY <3>2, <3>4, <3>5 DEF Forked
  <2> QED  BY <2>2, <2>3
<1>8. Needed(b2, l2)
  <2> SUFFICES ASSUME NEW g \in DOMAIN b PROVE Forked(l2, g)
    BY DEF Needed
  <2>1. PICK u, v \in DOMAIN l : u # v /\ Above(g, u) /\ Above(g, v)
    BY <1>1 DEF Needed, Forked
  <2>2. CASE u # p /\ v # p
    BY <2>1, <2>2 DEF Forked
  <2>3. CASE u = p \/ v = p
    <3>1. Above(g, p) /\ g # p /\ p \in Paths
      BY <1>1, <1>2, <2>1, <2>3 DEF Reached
    <3>2. Above(g, q)
      BY <3>1, ParentIs
    <3> QED  BY <1>7, <3>2, ForkedAbove
  <2> QED  BY <2>2, <2>3
<1>9. \A u \in DOMAIN l2 : Suits(l2[u], u)
  BY <1>1
<1>10. ASSUME NEW a, NEW n, a # l[p].key, Has(l, a, n) PROVE Has(l2, a, n)
  BY <1>10 DEF Has
<1> QED  BY <1>4, <1>5, <1>6, <1>8, <1>9, <1>10 DEF Fits, Drops

\* Between top and q no node has another child; above top one has.
CollapsedAt(b, q, top) ==
  /\ Above(top, q)
  /\ \A h \in Len(top) .. Len(q) - 1 : b[Prefix(q, h)] = 1
  /\ top # <<>> => b[Parent(top)] > 1

LEMMA CollapsedIs ==
  ASSUME Fits(busy, leaf), NEW q \in DOMAIN busy
  PROVE  CollapsedAt(busy, q, Collapsed(q))
<1>1. q \in Paths /\ Len(q) \in Nat /\ q \in Items(busy, leaf) /\ Reached(busy, leaf)
  BY RootIs DEF Fits, Reached, Items
<1> DEFINE D == {h \in 0 .. Len(q) : \A e \in h .. Len(q) - 1 : busy[Prefix(q, e)] = 1}
<1>2. Len(q) \in D /\ D \in SUBSET Nat
  BY <1>1
<1>3. PICK h \in D : \A e \in D : h <= e
  BY <1>2, Least
<1>4. h \in 0 .. Len(q) /\ \A e \in h .. Len(q) - 1 : busy[Prefix(q, e)] = 1
  BY <1>3
<1> DEFINE top == Prefix(q, h)
<1>5. Len(top) = h /\ top \in Paths /\ Above(top, q)
  BY <1>1, <1>4, PrefixIs
<1>6. ASSUME top # <<>> PROVE busy[Parent(top)] > 1
  <2>1. h # 0
    BY <1>1, <1>6, RootIs
  <2>2. h \in 1 .. Len(q) /\ h - 1 \in 0 .. Len(q) /\ ~ (h <= h - 1)
    BY <1>1, <1>4, <2>1
  <2>3. Parent(top) = Prefix(q, h - 1)
    BY <1>1, <2>2, ParentOfPrefix
  <2>4. busy[Prefix(q, h - 1)] # 1
    <3> SUFFICES ASSUME busy[Prefix(q, h - 1)] = 1 PROVE FALSE
      OBVIOUS
    <3>1. \A e \in h - 1 .. Len(q) - 1 : e = h - 1 \/ e \in h .. Len(q) - 1
      BY <1>1, <2>2
    <3>2. \A e \in h - 1 .. Len(q) - 1 : busy[Prefix(q, e)] = 1
      BY <1>4, <3>1
    <3>3. h - 1 \in D
      BY <2>2, <3>2
    <3> QED  BY <1>3, <2>2, <3>3
  <2>5. Prefix(q, h - 1) \in DOMAIN busy
    <3>1. Above(Prefix(q, h - 1), q)
      BY <1>1, <2>2, PrefixIs
    <3> QED  BY <1>1, <3>1, PrefixNodes
  <2>6. busy[Prefix(q, h - 1)] \in Nat /\ busy[Prefix(q, h - 1)] >= 1
    BY <2>5, KidsOf
  <2> QED  BY <2>3, <2>4, <2>6
<1>7. /\ top \in {Prefix(q, e) : e \in 0 .. Len(q)}
      /\ \A e \in Len(top) .. Len(q) - 1 : busy[Prefix(q, e)] = 1
      /\ top # <<>> => busy[Parent(top)] > 1
  BY <1>4, <1>5, <1>6
<1> HIDE DEF top
<1>8. /\ Collapsed(q) \in {Prefix(q, e) : e \in 0 .. Len(q)}
      /\ \A e \in Len(Collapsed(q)) .. Len(q) - 1 : busy[Prefix(q, e)] = 1
      /\ Collapsed(q) # <<>> => busy[Parent(Collapsed(q))] > 1
  BY Zenon, <1>7 DEF Collapsed
<1>9. Above(Collapsed(q), q)
  BY <1>1, <1>8, PrefixIs
<1> QED  BY <1>8, <1>9 DEF CollapsedAt

\* The nodes from top to q.
Going(q, top) == {Prefix(q, h) : h \in Len(top) .. Len(q)}

\* The last two records of q, of which p goes, and the nodes that go with it.
IsLast(b, l, p, i, q, top) ==
  /\ q \in DOMAIN b /\ Kids(b, l, q) = {p, i} /\ p # i
  /\ p \in DOMAIN l /\ i \in DOMAIN l
  /\ CollapsedAt(b, q, top)

LEMMA GoneIs ==
  ASSUME NEW b, NEW l, Fits(b, l), NEW p, NEW i, NEW q, NEW top, IsLast(b, l, p, i, q, top)
  PROVE  /\ q \in Paths /\ top \in Paths /\ Above(top, q)
         /\ q \in Going(q, top) /\ top \in Going(q, top)
         /\ \A g \in Going(q, top) : g \in DOMAIN b /\ Above(g, q) /\ Above(top, g)
         /\ \A g \in DOMAIN b : Above(g, q) /\ Above(top, g) => g \in Going(q, top)
         /\ \A g \in Going(q, top) : g # top => Parent(g) \in Going(q, top)
         /\ top # <<>> => Parent(top) \in DOMAIN b /\ Parent(top) \notin Going(q, top)
<1>1. q \in DOMAIN b /\ q \in Items(b, l) /\ q \in Paths /\ Len(q) \in Nat /\ Reached(b, l)
  BY RootIs DEF IsLast, Items, Fits, Reached
<1>2. Above(top, q) /\ Len(top) \in Nat /\ Len(top) <= Len(q) /\ top \in Paths
  BY AboveFacts DEF IsLast, CollapsedAt
<1>3. Prefix(q, Len(q)) = q /\ Prefix(q, Len(top)) = top
  BY <1>1, <1>2, RootIs, AbovePrefix
<1>4. Len(top) \in Len(top) .. Len(q) /\ Len(q) \in Len(top) .. Len(q) /\ Len(top) \in 0 .. Len(q)
  BY <1>1, <1>2
<1>5. q \in Going(q, top) /\ top \in Going(q, top)
  BY <1>3, <1>4 DEF Going
<1>6. ASSUME NEW g \in Going(q, top) PROVE g \in DOMAIN b /\ Above(g, q) /\ Above(top, g)
  <2>1. PICK h \in Len(top) .. Len(q) : g = Prefix(q, h)
    BY DEF Going
  <2>2. h \in 0 .. Len(q) /\ Len(top) <= h
    BY <1>1, <1>2
  <2>3. Above(g, q) /\ Above(top, g)
    BY <1>1, <1>3, <1>4, <2>1, <2>2, PrefixIs, PrefixAbove
  <2>4. g \in DOMAIN b
    BY <1>1, <2>3, PrefixNodes
  <2> QED  BY <2>3, <2>4
<1>7. ASSUME NEW g \in DOMAIN b, Above(g, q), Above(top, g) PROVE g \in Going(q, top)
  <2>1. Len(g) \in Len(top) .. Len(q)
    BY <1>1, <1>2, <1>7, AboveFacts
  <2>2. Prefix(q, Len(g)) = g
    BY <1>7, AbovePrefix
  <2> QED  BY <2>1, <2>2 DEF Going
<1>8. ASSUME NEW g \in Going(q, top), g # top PROVE Parent(g) \in Going(q, top)
  <2>1. g \in Items(b, l) /\ g \in Paths /\ Above(g, q) /\ Above(top, g)
    BY <1>6, AboveFacts DEF Items
  <2>2. g # <<>>
    <3> SUFFICES ASSUME g = <<>> PROVE FALSE
      OBVIOUS
    <3>1. Len(g) = 0 /\ Len(top) <= Len(g)
      BY <2>1, RootIs, AboveFacts
    <3>2. Len(top) = Len(g)
      BY <1>2, <3>1
    <3> QED  BY <1>8, <2>1, <3>2, AboveFacts
  <2>3. Above(top, Parent(g)) /\ Above(Parent(g), g)
    BY <1>8, <2>1, <2>2, ParentIs
  <2>4. Above(Parent(g), q)
    BY <2>1, <2>3, AboveFacts
  <2>5. Parent(g) \in DOMAIN b
    BY <1>1, <2>1, <2>2 DEF Reached
  <2> QED  BY <1>7, <2>3, <2>4, <2>5
<1>9. ASSUME top # <<>> PROVE Parent(top) \in DOMAIN b /\ Parent(top) \notin Going(q, top)
  <2>1. top \in DOMAIN b
    BY <1>5, <1>6
  <2>2. Parent(top) \in DOMAIN b
    BY <1>1, <1>9, <2>1 DEF Reached, Items
  <2>3. ~ Above(top, Parent(top))
    <3>1. Len(Parent(top)) = Len(top) - 1
      BY <1>2, <1>9, ParentIs
    <3>2. ~ (Len(top) <= Len(Parent(top)))
      BY <1>2, <3>1
    <3> QED  BY <3>2, AboveFacts
  <2> QED  BY <1>6, <2>2, <2>3
<1> QED  BY <1>1, <1>2, <1>5, <1>6, <1>7, <1>8, <1>9

\* There is nothing else below top.
LEMMA BelowGone ==
  ASSUME NEW b, NEW l, Fits(b, l), NEW p, NEW i, NEW q, NEW top, IsLast(b, l, p, i, q, top),
         NEW x \in Items(b, l), Above(top, x)
  PROVE  x \in Going(q, top) \cup {p, i}
<1>1. /\ q \in Paths /\ top \in Paths /\ Above(top, q)
      /\ q \in Going(q, top) /\ top \in Going(q, top)
      /\ \A g \in Going(q, top) : g \in DOMAIN b /\ Above(g, q) /\ Above(top, g)
  BY GoneIs
<1>2. Reached(b, l) /\ Counted(b, l) /\ x \in Paths
  BY AboveFacts DEF Fits
<1>3. Len(x) \in Nat /\ Len(top) \in Nat /\ Len(top) <= Len(x) /\ Len(q) \in Nat
  BY <1>1, <1>2, RootIs, AboveFacts
<1>4. ASSUME NEW g \in Going(q, top), NEW c \in Kids(b, l, g) PROVE c \in Going(q, top) \cup {p, i}
  <2>1. CASE g = q
    BY <1>4, <2>1 DEF IsLast
  <2>2. CASE g # q
    <3>1. Above(g, q) /\ Above(top, g) /\ Len(g) \in Nat /\ Len(g) <= Len(q) /\ Len(top) <= Len(g)
      BY <1>1, AboveFacts
    <3>2. Len(g) # Len(q)
      BY <2>2, <3>1, AboveFacts
    <3>3. Len(g) \in Len(top) .. Len(q) - 1 /\ Len(g) + 1 \in 1 .. Len(q)
          /\ Len(g) + 1 \in 0 .. Len(q) /\ Len(g) \in 0 .. Len(q)
          /\ Len(g) + 1 \in Len(top) .. Len(q) /\ Len(g) + 1 - 1 = Len(g)
      BY <1>3, <3>1, <3>2
    <3>4. Prefix(q, Len(g)) = g
      BY <3>1, AbovePrefix
    <3>5. b[g] = 1
      BY <3>3, <3>4 DEF IsLast, CollapsedAt
    <3> DEFINE w == Prefix(q, Len(g) + 1)
    <3>6. Parent(w) = g /\ w # <<>>
      BY <1>1, <3>3, <3>4, ParentOfPrefix
    <3>7. w \in Going(q, top)
      BY <3>3 DEF Going
    <3> HIDE DEF w
    <3>8. w \in Kids(b, l, g)
      BY <1>1, <3>6, <3>7 DEF Kids, Items
    <3>9. Cardinality(Kids(b, l, g)) = 1 /\ IsFiniteSet(Kids(b, l, g))
      BY <1>1, <1>2, <3>5, KidsOf DEF Counted
    <3>10. PICK k : Kids(b, l, g) = {k}
      BY <3>9, FS_Singleton
    <3> QED  BY <1>4, <3>7, <3>8, <3>10
  <2> QED  BY <2>1, <2>2
<1> DEFINE n == Len(x) - Len(top)
           T == {j \in 0 .. n : Prefix(x, Len(top) + j) \in Going(q, top) \cup {p, i}}
<1>5. n \in Nat /\ n \in 0 .. n /\ Len(top) + n = Len(x) /\ Len(top) + 0 = Len(top) /\ 0 \in 0 .. n
  BY <1>3
<1>6. 0 \in T
  BY <1>1, <1>5, AbovePrefix
<1>7. ASSUME NEW j \in 1 .. n, j - 1 \in T PROVE j \in T
  <2>1. j \in 0 .. n /\ Len(top) + j \in 1 .. Len(x) /\ Len(top) + j \in 0 .. Len(x)
        /\ Len(top) + (j - 1) = Len(top) + j - 1 /\ Len(top) + j - 1 \in 0 .. Len(x)
        /\ Len(top) + j - 1 < Len(x)
    BY <1>3
  <2> DEFINE c == Prefix(x, Len(top) + j)
             g == Prefix(x, Len(top) + j - 1)
  <2>2. g \in Going(q, top) \cup {p, i}
    BY <1>7, <2>1
  <2>3. Parent(c) = g /\ c # <<>> /\ Above(c, x) /\ Above(g, x) /\ g # x
    BY <1>2, <1>3, <2>1, ParentOfPrefix, PrefixIs
  <2> HIDE DEF c, g
  <2>4. g \in DOMAIN b
    BY <1>2, <2>3, PrefixNodes
  <2>5. g \notin {p, i}
    BY <1>2, <2>4 DEF IsLast, Reached
  <2>6. c \in Items(b, l)
    BY <1>2, <2>3, PrefixNodes DEF Items
  <2>7. c \in Kids(b, l, g)
    BY <2>3, <2>6 DEF Kids
  <2>8. c \in Going(q, top) \cup {p, i}
    BY <1>4, <2>2, <2>5, <2>7
  <2> QED  BY <2>1, <2>8 DEF c
<1>8. T = 0 .. n
  <2>1. T \in SUBSET (0 .. n)
    OBVIOUS
  <2> HIDE DEF T, n
  <2> QED  BY <1>5, <1>6, <1>7, <2>1, UpTo
<1>9. Prefix(x, Len(x)) \in Going(q, top) \cup {p, i}
  BY <1>5, <1>8
<1> QED  BY <1>2, <1>9, RootIs

\* The record at p goes with its node q and the nodes above that held nothing
\* else: the other record of q takes the place of the highest.
NodesGo(b, l, p, i, q, top, b2, l2) ==
  /\ DOMAIN b2 = DOMAIN b \ Going(q, top)
  /\ \A g \in DOMAIN b2 : b2[g] = b[g]
  /\ DOMAIN l2 = (DOMAIN l \ {p, i}) \cup {top} /\ l2[top] = l[i]
  /\ \A u \in DOMAIN l \ {p, i, top} : l2[u] = l[u]

LEMMA NodesRemoved ==
  ASSUME NEW b, NEW l, Fits(b, l), NEW p, NEW i, NEW q, NEW top, IsLast(b, l, p, i, q, top),
         NEW b2, NEW l2, NodesGo(b, l, p, i, q, top, b2, l2)
  PROVE  Drops(b2, l2, l, l[p].key)
<1> USE DEF NodesGo
<1> DEFINE G == Going(q, top)
<1>1. /\ q \in Paths /\ top \in Paths /\ Above(top, q)
      /\ q \in G /\ top \in G
      /\ \A g \in G : g \in DOMAIN b /\ Above(g, q) /\ Above(top, g)
      /\ \A g \in DOMAIN b : Above(g, q) /\ Above(top, g) => g \in G
      /\ \A g \in G : g # top => Parent(g) \in G
      /\ top # <<>> => Parent(top) \in DOMAIN b /\ Parent(top) \notin G
  BY GoneIs
<1>2. /\ IsFiniteSet(Items(b, l)) /\ Reached(b, l) /\ Counted(b, l) /\ Needed(b, l)
      /\ \A u \in DOMAIN l : Suits(l[u], u)
  BY DEF Fits
<1>3. /\ q \in DOMAIN b /\ Kids(b, l, q) = {p, i} /\ p # i /\ p \in DOMAIN l /\ i \in DOMAIN l
      /\ (top # <<>> => b[Parent(top)] > 1)
  BY DEF IsLast, CollapsedAt
<1>4. \A x \in Items(b, l) : Above(top, x) => x \in G \cup {p, i}
  BY BelowGone
<1>5. /\ top \in Items(b, l) /\ top \notin DOMAIN l /\ top \notin DOMAIN b2 /\ top # p /\ top # i
      /\ DOMAIN b2 = DOMAIN b \ G
  BY <1>1, <1>2, <1>3 DEF Items, Reached
<1>6. /\ Parent(p) = q /\ Parent(i) = q /\ Above(q, p) /\ Above(q, i) /\ p # <<>> /\ i # <<>>
  BY <1>2, <1>3, ParentIs DEF Kids, Reached
<1>7. Above(top, p) /\ Above(top, i)
  BY <1>1, <1>6, AboveFacts
<1> HIDE DEF G
<1>8. /\ Items(b2, l2) \subseteq Items(b, l)
      /\ \A x \in Items(b2, l2) : x = top \/ x \notin G \cup {p, i}
      /\ top \in Items(b2, l2)
      /\ \A x \in Items(b, l) : x \notin G \cup {p, i} => x \in Items(b2, l2)
  <2>1. /\ G \subseteq DOMAIN b /\ p \notin DOMAIN b /\ i \notin DOMAIN b
        /\ G \cap DOMAIN l = {} /\ top \in DOMAIN b
    BY <1>1, <1>2, <1>3 DEF Reached
  <2>2. DOMAIN l2 = (DOMAIN l \ {p, i}) \cup {top}
    OBVIOUS
  <2>3. ASSUME NEW x \in Items(b2, l2)
        PROVE  x \in Items(b, l) /\ (x = top \/ x \notin G \cup {p, i})
    <3>1. CASE x \in DOMAIN b \ G
      BY <2>1, <3>1 DEF Items
    <3>2. CASE x \in DOMAIN l \ {p, i}
      BY <2>1, <3>2 DEF Items
    <3>3. CASE x = top
      BY <2>1, <3>3 DEF Items
    <3> QED  BY <1>5, <2>2, <3>1, <3>2, <3>3 DEF Items
  <2>4. top \in Items(b2, l2)
    BY <2>2 DEF Items
  <2>5. ASSUME NEW x \in Items(b, l), x \notin G \cup {p, i}
        PROVE  x \in Items(b2, l2)
    BY <1>5, <2>2, <2>5 DEF Items
  <2> QED  BY <2>3, <2>4, <2>5
<1>9. IsFiniteSet(Items(b2, l2))
  BY <1>2, <1>8, FS_Subset
<1>10. Reached(b2, l2)
  <2>1. DOMAIN b2 \cap DOMAIN l2 = {}
    BY <1>2, <1>5 DEF Reached
  <2>2. ASSUME NEW x \in Items(b2, l2), x # <<>> PROVE Parent(x) \in DOMAIN b2
    <3>1. CASE x = top
      BY <1>1, <1>5, <2>2, <3>1
    <3>2. CASE x # top
      <4>1. x \in Items(b, l) /\ x \notin G \cup {p, i} /\ x \in Paths
        BY <1>2, <1>8, <3>2 DEF Reached
      <4>2. Parent(x) \in DOMAIN b
        BY <1>2, <2>2, <4>1 DEF Reached
      <4>3. Parent(x) \notin G
        <5> SUFFICES ASSUME Parent(x) \in G PROVE FALSE
          OBVIOUS
        <5>1. Above(top, Parent(x)) /\ Above(Parent(x), x)
          BY <1>1, <2>2, <4>1, ParentIs
        <5>2. Above(top, x)
          BY <5>1, AboveFacts
        <5> QED  BY <1>4, <4>1, <5>2
      <4> QED  BY <1>5, <4>2, <4>3
    <3> QED  BY <3>1, <3>2
  <2> QED  BY <1>2, <1>8, <2>1, <2>2 DEF Reached
<1>11. Counted(b2, l2)
  <2> SUFFICES ASSUME NEW g \in DOMAIN b2 PROVE b2[g] = Cardinality(Kids(b2, l2, g))
    BY DEF Counted
  <2>1. g \in DOMAIN b /\ g \notin G /\ b2[g] = b[g]
    BY <1>5
  <2>2. Kids(b2, l2, g) \subseteq Kids(b, l, g)
    BY <1>8 DEF Kids
  <2>3. ASSUME NEW x \in Kids(b, l, g) PROVE x \in Kids(b2, l2, g)
    <3>1. x \in Items(b, l) /\ x # <<>> /\ Parent(x) = g
      BY DEF Kids
    <3>2. x \notin {p, i}
      BY <1>1, <1>6, <2>1, <3>1
    <3>3. x = top \/ x \notin G
      BY <1>1, <2>1, <3>1
    <3>4. x = top \/ x \notin G \cup {p, i}
      BY <3>2, <3>3
    <3>5. x \in Items(b2, l2)
      BY <1>8, <3>1, <3>4
    <3> QED  BY <3>1, <3>5 DEF Kids
  <2>4. Kids(b2, l2, g) = Kids(b, l, g)
    BY <2>2, <2>3
  <2> QED  BY <1>2, <2>1, <2>4 DEF Counted
<1>12. Needed(b2, l2)
  <2> SUFFICES ASSUME NEW g \in DOMAIN b2 PROVE Forked(l2, g)
    BY DEF Needed
  <2>1. g \in DOMAIN b /\ g \notin G
    BY <1>5
  <2>2. PICK u, v \in DOMAIN l : u # v /\ Above(g, u) /\ Above(g, v)
    BY <1>2, <2>1 DEF Needed, Forked
  <2>3. CASE u \notin {p, i} /\ v \notin {p, i}
    BY <2>2, <2>3 DEF Forked
  <2>4. CASE u \in {p, i} \/ v \in {p, i}
    <3>1. PICK w \in {p, i} : Above(g, w) /\ w \in DOMAIN l
      BY <1>3, <2>2, <2>4
    <3>2. Above(top, w) /\ Above(q, w) /\ g # w /\ w \in Items(b, l)
      BY <1>2, <1>6, <1>7, <2>1, <3>1 DEF Reached, Items
    <3>3. ~ Above(top, g)
      <4> SUFFICES ASSUME Above(top, g) PROVE FALSE
        OBVIOUS
      <4>1. g \in {p, i}
        BY <1>4, <2>1 DEF Items
      <4> QED  BY <1>2, <1>3, <2>1, <4>1 DEF Reached
    <3>4. Above(g, top) /\ g # top
      <4>1. Len(g) \in Nat /\ Len(top) \in Nat
        BY <3>1, <3>2, AboveFacts
      <4>2. ~ (Len(top) <= Len(g))
        BY <3>1, <3>2, <3>3, AboveFacts
      <4> QED  BY <3>1, <3>2, <4>1, <4>2, AboveFacts
    <3>5. top # <<>>
      <4>1. Len(g) \in Nat /\ Len(top) \in Nat /\ Len(g) <= Len(top) /\ Len(g) # Len(top)
        BY <3>4, AboveFacts
      <4> QED  BY <4>1, RootIs
    <3>6. Above(g, Parent(top)) /\ Above(Parent(top), top)
      BY <1>1, <3>4, <3>5, ParentIs
    <3>7. Parent(top) \in DOMAIN b /\ b[Parent(top)] > 1
      BY <1>1, <1>3, <3>5
    <3>8. IsFiniteSet(Kids(b, l, Parent(top))) /\ Cardinality(Kids(b, l, Parent(top))) > 1
      BY <1>2, <3>7, KidsOf DEF Counted
    <3>9. PICK c \in Kids(b, l, Parent(top)) : c # top
      BY <3>8, TwoOf
    <3>10. PICK z \in DOMAIN l : Above(c, z)
      BY <1>2, RecordBelow DEF Kids
    <3>11. top \in Kids(b, l, Parent(top))
      BY <1>5, <3>5 DEF Kids
    <3>12. ~ Above(top, z)
      BY <1>2, <3>9, <3>10, <3>11, KidsApart
    <3>13. z \notin {p, i} /\ z # top
      BY <1>5, <1>7, <3>12
    <3>14. Above(Parent(top), c)
      BY <1>2, ParentIs DEF Kids, Reached
    <3>15. Above(g, top) /\ Above(g, z)
      BY <3>4, <3>6, <3>10, <3>14, AboveFacts
    <3>16. top \in DOMAIN l2 /\ z \in DOMAIN l2
      BY <3>13
    <3> QED  BY <3>13, <3>15, <3>16 DEF Forked
  <2> QED  BY <2>3, <2>4
<1>13. \A u \in DOMAIN l2 : Suits(l2[u], u)
  <2>1. Suits(l2[top], top)
    <3>1. Above(top, l[i].key)
      BY <1>2, <1>3, <1>7, AboveFacts DEF Suits
    <3> QED  BY <1>2, <1>3, <3>1 DEF Suits
  <2>2. \A u \in DOMAIN l \ {p, i, top} : Suits(l2[u], u)
    BY <1>2
  <2> QED  BY <2>1, <2>2
<1>14. ASSUME NEW a, NEW n, a # l[p].key, Has(l, a, n) PROVE Has(l2, a, n)
  <2>1. PICK u \in DOMAIN l : l[u].key = a /\ l[u].count = n
    BY <1>14 DEF Has
  <2>2. CASE u = i
    BY <2>1, <2>2 DEF Has
  <2>3. CASE u # i
    <3>1. u \in DOMAIN l \ {p, i, top}
      BY <1>5, <1>14, <2>1, <2>3
    <3>2. u \in DOMAIN l2 /\ l2[u] = l[u]
      BY <3>1
    <3> QED  BY <2>1, <3>2 DEF Has
  <2> QED  BY <2>2, <2>3
<1> QED  BY <1>9, <1>10, <1>11, <1>12, <1>13, <1>14 DEF Fits, Drops

LEMMA Removes ==
  ASSUME Fits(busy, leaf), spare \in Pools, NEW p \in DOMAIN leaf, NEW o, o = Removed(p)
  PROVE  /\ Drops(o.busy, o.leaf, leaf, leaf[p].key)
         /\ o.spare \in Pools /\ o.torn = FALSE
<1> DEFINE q == Parent(p)
           fewer == [busy EXCEPT ![q] = @ - 1]
           i == CHOOSE i \in Others(q, p) : TRUE
           top == Collapsed(q)
           G == Going(q, top)
           s == [spare EXCEPT !.records = @ + 1]
           s2 == [s EXCEPT !.nodes = @ + Cardinality(G)]
<1>1. /\ p \notin DOMAIN busy /\ p \in Items(busy, leaf) /\ Reached(busy, leaf)
      /\ s \in Pools
  BY DEF Fits, Reached, Items, Pools
<1>2. CASE p = <<>>
  <2> DEFINE l2 == Without(leaf, {p})
  <2>1. o.busy = busy /\ o.leaf = l2 /\ o.spare = s /\ o.torn = FALSE
    BY <1>2 DEF Removed, Outcome
  <2>2. DOMAIN l2 = DOMAIN leaf \ {<<>>}
    BY <1>2 DEF Without, Restrict
  <2> HIDE DEF l2, s
  <2>3. Drops(busy, l2, leaf, leaf[<<>>].key)
    BY <1>2, <2>2, RootRemoved
  <2> QED  BY <1>1, <1>2, <2>1, <2>3
<1>3. CASE p # <<>>
  <2>1. q \in DOMAIN busy
    BY <1>1, <1>3 DEF Reached
  <2>2. Others(q, p) = Kids(busy, leaf, q) \ {p} /\ p \in Kids(busy, leaf, q)
    BY <1>1, <1>3 DEF Others, Kids, Items
  <2>3. i \in Kids(busy, leaf, q) /\ i # p
    <3>1. Others(q, p) # {}
      BY <2>1, <2>2, KidsOf
    <3>2. i \in Others(q, p)
      BY <3>1
    <3> QED  BY <2>2, <3>2
  <2>4. /\ IsFiniteSet(Kids(busy, leaf, q)) /\ busy[q] \in Nat
        /\ busy[q] = Cardinality(Kids(busy, leaf, q))
    BY <2>1, KidsOf DEF Fits, Counted
  <2>5. DOMAIN fewer = DOMAIN busy /\ fewer[q] = busy[q] - 1
        /\ \A g \in DOMAIN busy : g # q => fewer[g] = busy[g]
    BY <2>1
  <2>6. CASE fewer[q] > 1 \/ i \in DOMAIN busy
    <3> DEFINE l2 == Without(leaf, {p})
    <3>1. o.busy = fewer /\ o.leaf = l2 /\ o.spare = s /\ o.torn = FALSE
      <4> HIDE DEF l2
      <4> QED  BY <1>3, <2>6 DEF Removed, Outcome, l2
    <3>2. DOMAIN l2 = DOMAIN leaf \ {p} /\ \A u \in DOMAIN l2 : l2[u] = leaf[u]
      BY DEF Without, Restrict
    <3> HIDE DEF l2, s, fewer, i
    <3>3. Drops(fewer, l2, leaf, leaf[p].key)
      <4>1. busy[q] - 1 > 1 \/ \E c \in Kids(busy, leaf, q) : c # p /\ c \in DOMAIN busy
        BY <2>3, <2>5, <2>6
      <4>2. LeafGoes(busy, leaf, p, q, fewer, l2)
        BY <2>5, <3>2, <4>1 DEF LeafGoes
      <4>3. q = Parent(p)
        OBVIOUS
      <4> HIDE DEF q
      <4> QED  BY <1>3, <4>2, <4>3, LeafRemoved
    <3> QED  BY <1>1, <3>1, <3>3
  <2>7. CASE ~ (fewer[q] > 1 \/ i \in DOMAIN busy)
    <3> DEFINE b2 == Without(busy, G)
               l2 == With(Without(leaf, {p, i}), top, leaf[i])
    <3>1. o.busy = b2 /\ o.leaf = l2 /\ o.spare = s2 /\ o.torn = FALSE
      <4> HIDE DEF b2, l2, s2
      <4> QED  BY <1>3, <2>7 DEF Removed, Outcome, b2, l2, s2, Going
    <3>2. DOMAIN b2 = DOMAIN busy \ G /\ \A g \in DOMAIN b2 : b2[g] = busy[g]
      <4> HIDE DEF G
      <4> QED  BY DEF Without, Restrict
    <3>3. /\ DOMAIN l2 = (DOMAIN leaf \ {p, i}) \cup {top} /\ l2[top] = leaf[i]
          /\ \A u \in DOMAIN leaf \ {p, i, top} : l2[u] = leaf[u]
      <4> HIDE DEF i, top
      <4> QED  BY DEF Without, With, Restrict
    <3> HIDE DEF b2, l2, s, i, top, fewer
    <3>4. i \in DOMAIN leaf
      BY <2>3, <2>7 DEF Kids, Items
    <3>5. Kids(busy, leaf, q) = {p, i}
      <4> DEFINE K == Kids(busy, leaf, q) \ {p}
      <4>1. IsFiniteSet(K) /\ Cardinality(K) = busy[q] - 1
        BY <2>2, <2>4, FS_RemoveElement
      <4>2. ~ (Cardinality(K) > 1)
        BY <2>5, <2>7, <4>1
      <4>3. i \in K
        BY <2>3
      <4>4. K \subseteq {i}
        <5> HIDE DEF K
        <5> SUFFICES ASSUME NEW c \in K, c # i PROVE FALSE
          OBVIOUS
        <5>1. IsFiniteSet({c, i}) /\ Cardinality({c, i}) = 2
          <6>1. IsFiniteSet({c}) /\ Cardinality({c}) = 1 /\ i \notin {c}
            BY FS_Singleton
          <6>2. IsFiniteSet({c} \cup {i}) /\ Cardinality({c} \cup {i}) = 1 + 1
            BY <6>1, FS_AddElement
          <6>3. {c} \cup {i} = {c, i}
            OBVIOUS
          <6> QED  BY <6>2, <6>3
        <5>2. Cardinality({c, i}) <= Cardinality(K) /\ Cardinality(K) \in Nat
          BY <4>1, <4>3, FS_Subset, FS_CardinalityType
        <5> QED  BY <4>2, <5>1, <5>2
      <4> QED  BY <2>2, <4>3, <4>4
    <3>6. IsLast(busy, leaf, p, i, q, top)
      <4>1. CollapsedAt(busy, q, top)
        BY <2>1, CollapsedIs DEF top
      <4> QED  BY <2>1, <2>3, <3>4, <3>5, <4>1 DEF IsLast
    <3>7. Drops(b2, l2, leaf, leaf[p].key)
      <4>1. NodesGo(busy, leaf, p, i, q, top, b2, l2)
        BY <3>2, <3>3 DEF NodesGo
      <4> HIDE DEF q
      <4> QED  BY <3>6, <4>1, NodesRemoved
    <3>8. s2 \in Pools
      <4>1. \A g \in G : g \in Items(busy, leaf)
        BY <3>6, GoneIs DEF Items
      <4>2. IsFiniteSet(G)
        <5>1. G \in SUBSET Items(busy, leaf)
          BY <4>1
        <5> HIDE DEF G
        <5> QED  BY <5>1, FS_Subset DEF Fits
      <4>3. Cardinality(G) \in Nat
        BY <4>2, FS_CardinalityType
      <4> HIDE DEF G
      <4> QED  BY <1>1, <4>3 DEF Pools
    <3> HIDE DEF s2
    <3> QED  BY <3>1, <3>7, <3>8
  <2> QED  BY <2>6, <2>7
<1> QED  BY <1>2, <1>3

(***************************************************************************)
(* The invariant.                                                          *)
(***************************************************************************)
CacheOK == cache = NoArray \/ (cache.key \in Addresses /\ cache.count \in Counts)

\* Of the array at a, the number of elements is in the cache or the trie.
Kept(a) == IF cache.key = a THEN cache.count = array[a] ELSE Has(leaf, a, array[a])

ArrInv ==
  /\ spare \in Pools /\ CacheOK /\ torn \in BOOLEAN
  /\ torn => Torn(busy, leaf)
  /\ ~ torn => Fits(busy, leaf) /\ \A a \in DOMAIN array : a \in Addresses /\ Kept(a)

LEMMA ArrInits == ArrInit => ArrInv
<1> SUFFICES ASSUME ArrInit PROVE ArrInv
  OBVIOUS
<1>1. DOMAIN busy = {} /\ DOMAIN leaf = {} /\ DOMAIN array = {}
  BY DEF ArrInit
<1>2. Items(busy, leaf) = {}
  BY <1>1 DEF Items
<1>3. IsFiniteSet(Items(busy, leaf))
  BY <1>2, FS_EmptySet
<1>4. Fits(busy, leaf)
  BY <1>1, <1>2, <1>3 DEF Fits, Reached, Counted, Needed
<1>5. spare \in Pools /\ CacheOK /\ torn = FALSE
  BY DEF ArrInit, Pools, CacheOK
<1> QED  BY <1>1, <1>4, <1>5 DEF ArrInv

\* The address 0 has no array.
LEMMA NoArrayIs == <<>> \notin Addresses /\ NoArray.key = <<>>
BY AddressesAssumption DEF NoArray

LEMMA VecNewKeeps ==
  ASSUME ArrInv, NEW a \in Addresses, NEW n \in Counts, VecNew(a, n)
  PROVE  ArrInv'
<1>1. /\ ~ torn /\ a \notin DOMAIN array /\ spare \in Pools /\ CacheOK /\ Fits(busy, leaf)
      /\ \A c \in DOMAIN array : c \in Addresses /\ Kept(c)
  BY DEF VecNew, ArrInv
<1>2. PICK o \in IF cache = NoArray THEN {Unchanged(spare, TRUE)} ELSE Insert(cache) :
        /\ Becomes(o)
        /\ IF o.ok THEN /\ cache' = [key |-> a, count |-> n]
                        /\ array' = With(array, a, n)
           ELSE UNCHANGED <<cache, array>>
  BY Zenon DEF VecNew
<1>3. /\ busy' = o.busy /\ leaf' = o.leaf /\ spare' = o.spare
      /\ torn' = (torn \/ o.torn)
  BY <1>2 DEF Becomes
<1>4. /\ o.spare \in Pools /\ o.ok \in BOOLEAN /\ o.torn \in BOOLEAN
      /\ o.ok => /\ ~ o.torn /\ Fits(o.busy, o.leaf)
                 /\ \A c \in DOMAIN array : Has(o.leaf, c, array[c])
      /\ ~ o.ok /\ ~ o.torn => /\ Fits(o.busy, o.leaf)
                               /\ \A c, m : Has(leaf, c, m) => Has(o.leaf, c, m)
      /\ o.torn => Torn(o.busy, o.leaf)
  <2>1. CASE cache = NoArray
    <3>1. o.busy = busy /\ o.leaf = leaf /\ o.spare = spare /\ o.ok = TRUE /\ o.torn = FALSE
      BY <1>2, <2>1 DEF Unchanged, Outcome
    <3>2. \A c \in DOMAIN array : c # cache.key
      BY <1>1, <2>1, NoArrayIs
    <3>3. \A c \in DOMAIN array : Has(leaf, c, array[c])
      BY <1>1, <3>2 DEF Kept
    <3> QED  BY <1>1, <3>1, <3>3
  <2>2. CASE cache # NoArray
    <3>1. cache.key \in Addresses /\ cache.count \in Counts /\ o \in Insert(cache)
      BY <1>1, <1>2, <2>2 DEF CacheOK
    <3>2. Inserted(o, cache)
      BY <1>1, <3>1, Inserts
    <3>3. ASSUME o.ok, NEW c \in DOMAIN array PROVE Has(o.leaf, c, array[c])
      <4>1. Stores(o.busy, o.leaf, leaf, cache)
        BY <3>2, <3>3 DEF Inserted
      <4>2. CASE cache.key = c
        BY <1>1, <4>1, <4>2 DEF Kept, Stores
      <4>3. CASE cache.key # c
        BY <1>1, <4>1, <4>3 DEF Kept, Stores
      <4> QED  BY <4>2, <4>3
    <3> QED  BY <3>2, <3>3 DEF Inserted, Stores
  <2> QED  BY <2>1, <2>2
<1>5. CASE o.ok
  <2>1. cache' = [key |-> a, count |-> n] /\ array' = With(array, a, n)
    BY <1>2, <1>5
  <2>2. CacheOK' /\ cache'.key = a /\ cache'.count = n
    BY <2>1 DEF CacheOK
  <2>3. /\ DOMAIN array' = DOMAIN array \cup {a} /\ array'[a] = n
        /\ \A c \in DOMAIN array : c # a => array'[c] = array[c]
    BY <2>1 DEF With
  <2>4. torn' = FALSE
    BY <1>1, <1>3, <1>4, <1>5
  <2>5. \A c \in DOMAIN array' : c \in Addresses /\ Kept(c)'
    BY <1>1, <1>3, <1>4, <1>5, <2>2, <2>3 DEF Kept
  <2> QED  BY <1>3, <1>4, <1>5, <2>2, <2>4, <2>5 DEF ArrInv
<1>6. CASE ~ o.ok
  <2>1. cache' = cache /\ array' = array
    BY <1>2, <1>6
  <2>2. CacheOK' /\ torn' \in BOOLEAN /\ (torn' <=> o.torn)
    BY <1>1, <1>3, <1>4, <2>1 DEF CacheOK
  <2>3. ~ torn' => \A c \in DOMAIN array' : c \in Addresses /\ Kept(c)'
    BY <1>1, <1>3, <1>4, <1>6, <2>1, <2>2 DEF Kept
  <2> QED  BY <1>3, <1>4, <1>6, <2>1, <2>2, <2>3 DEF ArrInv
<1> QED  BY <1>4, <1>5, <1>6

LEMMA VecDeleteKeeps ==
  ASSUME ArrInv, NEW a \in Addresses, VecDelete(a)
  PROVE  ArrInv'
<1>1. /\ ~ torn /\ torn \in BOOLEAN /\ spare \in Pools /\ CacheOK /\ Fits(busy, leaf)
      /\ \A c \in DOMAIN array : c \in Addresses /\ Kept(c)
  BY DEF VecDelete, ArrInv
<1>2. /\ array' = Without(array, {a})
      /\ IF Cached(a) THEN cache' = NoArray /\ UNCHANGED <<busy, leaf, spare, torn>>
         ELSE /\ cache' = cache
              /\ IF InTrie(a) THEN Becomes(Removed(Stop(a)))
                 ELSE UNCHANGED <<busy, leaf, spare, torn>>
  BY DEF VecDelete
<1>3. DOMAIN array' = DOMAIN array \ {a} /\ \A c \in DOMAIN array' : array'[c] = array[c]
  BY <1>2 DEF Without, Restrict
<1>4. CASE Cached(a)
  <2>1. cache' = NoArray /\ busy' = busy /\ leaf' = leaf /\ spare' = spare /\ torn' = torn
    BY <1>2, <1>4
  <2>2. CacheOK' /\ cache'.key = <<>>
    BY <2>1, NoArrayIs DEF CacheOK
  <2>3. ASSUME NEW c \in DOMAIN array' PROVE c \in Addresses /\ Kept(c)'
    <3>1. c \in DOMAIN array /\ c # a /\ array'[c] = array[c] /\ cache.key # c
      BY <1>3, <1>4 DEF Cached
    <3>2. c \in Addresses /\ Has(leaf, c, array[c])
      BY <1>1, <3>1 DEF Kept
    <3>3. cache'.key # c
      BY <2>2, <3>2, NoArrayIs
    <3> QED  BY <2>1, <3>1, <3>2, <3>3 DEF Kept
  <2> QED  BY <1>1, <2>1, <2>2, <2>3 DEF ArrInv
<1>5. CASE ~ Cached(a) /\ ~ InTrie(a)
  <2>1. cache' = cache /\ busy' = busy /\ leaf' = leaf /\ spare' = spare /\ torn' = torn
    BY <1>2, <1>5
  <2>2. CacheOK'
    BY <1>1, <2>1 DEF CacheOK
  <2>3. \A c \in DOMAIN array' : c \in Addresses /\ Kept(c)'
    BY <1>1, <1>3, <2>1 DEF Kept
  <2> QED  BY <1>1, <2>1, <2>2, <2>3 DEF ArrInv
<1>6. CASE ~ Cached(a) /\ InTrie(a)
  <2> DEFINE p == Stop(a)
             o == Removed(p)
  <2>1. cache' = cache /\ busy' = o.busy /\ leaf' = o.leaf /\ spare' = o.spare
        /\ torn' = (torn \/ o.torn)
    BY <1>2, <1>6 DEF Becomes
  <2>2. p \in DOMAIN leaf /\ leaf[p].key = a
    BY <1>6 DEF InTrie
  <2> HIDE DEF p, o
  <2>3. Drops(o.busy, o.leaf, leaf, a) /\ o.spare \in Pools /\ o.torn = FALSE
    BY <1>1, <2>2, Removes DEF o
  <2>4. torn' = FALSE /\ CacheOK'
    BY <1>1, <2>1, <2>3 DEF CacheOK
  <2>5. ASSUME NEW c \in DOMAIN array' PROVE c \in Addresses /\ Kept(c)'
    <3>1. c \in DOMAIN array /\ c # a /\ array'[c] = array[c] /\ c \in Addresses /\ Kept(c)
      BY <1>1, <1>3
    <3>2. CASE cache.key = c
      BY <2>1, <3>1, <3>2 DEF Kept
    <3>3. CASE cache.key # c
      <4>1. Has(o.leaf, c, array[c])
        BY <2>3, <3>1, <3>3 DEF Kept, Drops
      <4> QED  BY <2>1, <3>1, <3>3, <4>1 DEF Kept
    <3> QED  BY <3>1, <3>2, <3>3
  <2> QED  BY <2>1, <2>3, <2>4, <2>5 DEF ArrInv, Drops
<1> QED  BY <1>4, <1>5, <1>6

LEMMA AbandonKeeps ==
  ASSUME ArrInv, NEW a \in Addresses, Abandon(a)
  PROVE  ArrInv'
<1>1. /\ array' = Without(array, {a}) /\ ~ torn
      /\ busy' = busy /\ leaf' = leaf /\ spare' = spare /\ cache' = cache /\ torn' = torn
  BY DEF Abandon
<1>2. DOMAIN array' = DOMAIN array \ {a} /\ \A c \in DOMAIN array' : array'[c] = array[c]
  BY <1>1 DEF Without, Restrict
<1>3. \A c \in DOMAIN array' : c \in Addresses /\ Kept(c)'
  BY <1>1, <1>2 DEF ArrInv, Kept
<1> QED  BY <1>1, <1>3 DEF ArrInv, CacheOK

LEMMA ArrInvariant == ArrSpec => []ArrInv
<1>1. ASSUME ArrInv, [ArrNext]_arrVars PROVE ArrInv'
  <2>1. CASE UNCHANGED arrVars
    BY <1>1, <2>1 DEF arrVars, ArrInv, CacheOK, Kept
  <2>2. CASE ArrNext
    BY <1>1, <2>2, VecNewKeeps, VecDeleteKeeps, AbandonKeeps DEF ArrNext
  <2> QED  BY <1>1, <2>1, <2>2
<1> QED  BY ArrInits, <1>1, PTL DEF ArrSpec

LEMMA TypedIn == ArrInv => ArrTypeOK
<1> SUFFICES ASSUME ArrInv PROVE ArrTypeOK
  OBVIOUS
<1>1. Torn(busy, leaf)
  BY FitsTorn DEF ArrInv
<1>2. spare.nodes \in Nat /\ spare.records \in Nat
  BY DEF ArrInv, Pools
<1> QED  BY <1>1, <1>2 DEF ArrTypeOK, ArrInv, CacheOK, Torn

LEMMA SoundIn == ArrInv => TrieSound
<1> SUFFICES ASSUME ArrInv, ~ torn PROVE TrieSound
  BY DEF TrieSound
<1>1. Fits(busy, leaf)
  BY DEF ArrInv
<1>2. /\ IsFiniteSet(Items(busy, leaf)) /\ Reached(busy, leaf) /\ Counted(busy, leaf)
      /\ Needed(busy, leaf) /\ \A p \in DOMAIN leaf : Suits(leaf[p], p)
  BY <1>1 DEF Fits
<1>3. \A p \in (DOMAIN busy \cup DOMAIN leaf) \ {<<>>} : Parent(p) \in DOMAIN busy
  BY <1>2 DEF Reached, Items
<1>4. ASSUME NEW q \in DOMAIN busy PROVE busy[q] = Cardinality(Others(q, q))
  <2>1. \A i \in Items(busy, leaf) : i # <<>> => Parent(i) # i
    BY <1>2, ParentIs DEF Reached
  <2>2. Others(q, q) = Kids(busy, leaf, q)
    BY <2>1 DEF Others, Kids, Items
  <2> QED  BY <1>2, <2>2 DEF Counted
<1>5. ASSUME NEW q \in DOMAIN busy PROVE Cardinality(Below(q)) > 1
  <2>1. PICK x, y \in DOMAIN leaf : x # y /\ Above(q, x) /\ Above(q, y)
    BY <1>2 DEF Needed, Forked
  <2>2. \A z \in DOMAIN leaf : Above(q, z) => Len(z) >= Len(q) /\ Prefix(z, Len(q)) = q
    BY AbovePrefix, AboveFacts
  <2>3. x \in Below(q) /\ y \in Below(q)
    BY <2>1, <2>2 DEF Below
  <2>4. IsFiniteSet(Below(q))
    <3>1. Below(q) \in SUBSET Items(busy, leaf)
      BY DEF Below, Items
    <3> QED  BY <1>2, <3>1, FS_Subset
  <2>5. Cardinality(Below(q)) \in Nat
    BY <2>4, FS_CardinalityType
  <2>6. Cardinality(Below(q)) # 0 /\ Cardinality(Below(q)) # 1
    BY <2>1, <2>3, <2>4, FS_EmptySet, FS_Singleton
  <2> QED  BY <2>5, <2>6
<1>6. \A p \in DOMAIN leaf : Prefix(leaf[p].key, Len(p)) = p
  BY <1>2, AbovePrefix DEF Suits
<1> QED  BY <1>3, <1>4, <1>5, <1>6 DEF TrieSound

LEMMA FoundIn == ArrInv => CountsFound
<1> SUFFICES ASSUME ArrInv, ~ torn, NEW a \in DOMAIN array PROVE Ans(a) = array[a]
  BY DEF CountsFound
<1>1. Fits(busy, leaf) /\ a \in Addresses /\ Kept(a)
  BY DEF ArrInv
<1>2. CASE cache.key = a
  BY <1>1, <1>2 DEF Ans, Cached, Kept
<1>3. CASE cache.key # a
  BY <1>1, <1>3, FoundIs DEF Ans, Cached, Kept
<1> QED  BY <1>2, <1>3

\* Whatever is made, deleted and abandoned, and wherever an allocation fails,
\* no place of the trie of _arr_map.C is a node and a record, its records and
\* the cache of _vec.C are of addresses, and the pools never count below zero.
THEOREM ArrTypes == ArrSpec => []ArrTypeOK
BY ArrInvariant, TypedIn, PTL

\* As long as no insertion is cut off, every node that insert() and remove()
\* leave is reached, its busy_count is the number of its items, two records
\* at least stand below it, and every record is where the digits of its key
\* lead: for addresses of any length and digits of any size.
THEOREM TrieIsSound == ArrSpec => []TrieSound
BY ArrInvariant, SoundIn, PTL

\* As long as no insertion is cut off, __vec_delete() is told the number of
\* elements that __vec_new() was given, of every array there is.
THEOREM CountsAreFound == ArrSpec => []CountsFound
BY ArrInvariant, FoundIn, PTL

-----------------------------------------------------------------------------
(***************************************************************************)
(* IterList.                                                               *)
(***************************************************************************)

\* The place after k and the place before k in a ring of n links.
Succ(n, k) == IF k = n THEN 1 ELSE k + 1
Pre(n, k)  == IF k = 1 THEN n ELSE k - 1

\* The links of the ring, from the head to the tail, are those of s.
InRing(s) ==
  /\ sz \in Nat
  /\ s \in [1 .. sz -> Links]
  /\ \A j, k \in 1 .. sz : s[j] = s[k] => j = k
  /\ nxt \in [Links -> Links \cup {NoLink}]
  /\ prv \in [Links -> Links \cup {NoLink}]
  /\ \A k \in 1 .. sz : nxt[s[k]] = s[Succ(sz, k)] /\ prv[s[k]] = s[Pre(sz, k)]
  /\ t = IF sz = 0 THEN NoLink ELSE s[sz]

\* The link before the place behind k links: for the front the tail.
Before(s, k) == IF k = 0 THEN t ELSE s[k]

\* The iterators stand where they think they are.
Standing(s) ==
  /\ Attached \in SUBSET Iters
  /\ index \in [Attached -> 0 .. sz]
  /\ DOMAIN pred = Attached
  /\ \A i \in Attached : pred[i] = Before(s, index[i])

Stand(s) == InRing(s) /\ Standing(s)

Ins(s, n, k, x) ==
  [j \in 1 .. n + 1 |-> IF j <= k THEN s[j] ELSE IF j = k + 1 THEN x ELSE s[j - 1]]
Rem(s, n, k) == [j \in 1 .. n - 1 |-> IF j < k THEN s[j] ELSE s[j + 1]]

JoinedAs(r, a, c, m, n) ==
  /\ r \in Seq(Links) /\ Len(r) = m + n
  /\ \A j \in 1 .. m : r[j] = a[j]
  /\ \A j \in 1 .. n : r[m + j] = c[j]

LEMMA Joined ==
  ASSUME NEW m \in Nat, NEW n \in Nat,
         NEW a \in Seq(Links), Len(a) = m, NEW c \in Seq(Links), Len(c) = n
  PROVE  JoinedAs(a \o c, a, c, m, n)
<1>1. /\ a \o c \in Seq(Links) /\ Len(a \o c) = Len(a) + Len(c)
      /\ \A i \in 1 .. Len(a) + Len(c) :
            (a \o c)[i] = IF i <= Len(a) THEN a[i] ELSE c[i - Len(a)]
  BY ConcatProperties
<1>2. PICK r : r = a \o c
  OBVIOUS
<1>3. /\ r \in Seq(Links) /\ Len(r) = m + n
      /\ \A i \in 1 .. m + n : r[i] = IF i <= m THEN a[i] ELSE c[i - m]
  BY <1>1, <1>2
<1>4. \A j \in 1 .. m : r[j] = a[j]
  BY <1>3
<1>5. ASSUME NEW j \in 1 .. n PROVE r[m + j] = c[j]
  <2>1. m + j \in 1 .. m + n /\ ~ (m + j <= m) /\ (m + j) - m = j
    OBVIOUS
  <2> QED  BY <1>3, <2>1
<1> QED  BY <1>2, <1>3, <1>4, <1>5 DEF JoinedAs

LEMMA Cut ==
  ASSUME NEW n \in Nat, NEW s \in [1 .. n -> Links], NEW a \in 1 .. n + 1, NEW b \in a - 1 .. n
  PROVE  /\ SubSeq(s, a, b) \in Seq(Links) /\ Len(SubSeq(s, a, b)) = b - a + 1
         /\ \A j \in 1 .. b - a + 1 : SubSeq(s, a, b)[j] = s[a + j - 1]
<1>1. a \in Int /\ b \in Int /\ \A i \in a .. b : s[i] \in Links
  OBVIOUS
<1>2. /\ SubSeq(s, a, b) \in Seq(Links)
      /\ Len(SubSeq(s, a, b)) = IF a <= b THEN b - a + 1 ELSE 0
      /\ \A i \in 1 .. b - a + 1 : SubSeq(s, a, b)[i] = s[a + i - 1]
  BY <1>1, SubSeqProperties
<1>3. (IF a <= b THEN b - a + 1 ELSE 0) = b - a + 1
  OBVIOUS
<1> QED  BY <1>2, <1>3

LEMMA SameSequence ==
  ASSUME NEW n \in Nat, NEW r \in Seq(Links), Len(r) = n,
         NEW f, f = [j \in 1 .. n |-> f[j]], \A j \in 1 .. n : r[j] = f[j]
  PROVE  r = f
<1>1. r = [j \in 1 .. n |-> r[j]]
  OBVIOUS
<1> QED  BY <1>1

LEMMA InsertedIs ==
  ASSUME NEW n \in Nat, NEW s \in [1 .. n -> Links], NEW k \in 0 .. n, NEW x \in Links
  PROVE  SubSeq(s, 1, k) \o <<x>> \o SubSeq(s, k + 1, Len(s)) = Ins(s, n, k, x)
<1>1. s \in Seq(Links) /\ Len(s) = n /\ k \in Nat /\ n - k \in Nat /\ 1 \in Nat /\ k + 1 \in Nat
  OBVIOUS
<1>2. PICK a : a = SubSeq(s, 1, k)
  OBVIOUS
<1>3. PICK c : c = SubSeq(s, k + 1, n)
  OBVIOUS
<1>4. a \in Seq(Links) /\ Len(a) = k /\ \A j \in 1 .. k : a[j] = s[j]
  <2>1. 1 \in 1 .. n + 1 /\ k \in 1 - 1 .. n /\ k - 1 + 1 = k /\ \A j \in 1 .. k : 1 + j - 1 = j
    OBVIOUS
  <2> QED  BY <1>2, <2>1, Cut
<1>5. c \in Seq(Links) /\ Len(c) = n - k /\ \A j \in 1 .. n - k : c[j] = s[k + j]
  <2>1. /\ k + 1 \in 1 .. n + 1 /\ n \in (k + 1) - 1 .. n /\ n - (k + 1) + 1 = n - k
        /\ \A j \in 1 .. n - k : (k + 1) + j - 1 = k + j
    OBVIOUS
  <2> QED  BY <1>3, <2>1, Cut
<1>6. <<x>> \in Seq(Links) /\ Len(<<x>>) = 1 /\ <<x>>[1] = x
  OBVIOUS
<1>7. PICK b : b = a \o <<x>>
  OBVIOUS
<1>8. /\ b \in Seq(Links) /\ Len(b) = k + 1
      /\ \A j \in 1 .. k : b[j] = a[j]
      /\ \A j \in 1 .. 1 : b[k + j] = <<x>>[j]
  <2>1. k \in Nat /\ 1 \in Nat
    OBVIOUS
  <2>2. JoinedAs(b, a, <<x>>, k, 1)
    BY <2>1, <1>4, <1>6, <1>7, Joined
  <2> QED  BY <2>2 DEF JoinedAs
<1>9. PICK r : r = b \o c
  OBVIOUS
<1>10. /\ r \in Seq(Links) /\ Len(r) = (k + 1) + (n - k)
       /\ \A j \in 1 .. k + 1 : r[j] = b[j]
       /\ \A j \in 1 .. n - k : r[(k + 1) + j] = c[j]
  <2>1. k + 1 \in Nat /\ n - k \in Nat
    OBVIOUS
  <2>2. JoinedAs(r, b, c, k + 1, n - k)
    BY <2>1, <1>5, <1>8, <1>9, Joined
  <2> QED  BY <2>2 DEF JoinedAs
<1>11. (k + 1) + (n - k) = n + 1
  OBVIOUS
<1>12. ASSUME NEW j \in 1 .. n + 1 PROVE r[j] = Ins(s, n, k, x)[j]
  <2>1. CASE j <= k
    <3>1. j \in 1 .. k /\ j \in 1 .. k + 1
      BY <2>1
    <3>2. r[j] = s[j]
      BY <1>4, <1>8, <1>10, <3>1
    <3> QED  BY <2>1, <3>2 DEF Ins
  <2>2. CASE j = k + 1
    <3>1. k + 1 \in 1 .. k + 1 /\ 1 \in 1 .. 1 /\ ~ (k + 1 <= k)
      OBVIOUS
    <3>2. r[k + 1] = x
      BY <1>6, <1>8, <1>10, <3>1
    <3> QED  BY <2>2, <3>1, <3>2 DEF Ins
  <2>3. CASE j > k + 1
    <3>1. /\ j - (k + 1) \in 1 .. n - k /\ k + (j - (k + 1)) = j - 1 /\ (k + 1) + (j - (k + 1)) = j
          /\ ~ (j <= k) /\ j # k + 1
      BY <2>3
    <3>2. r[j] = s[j - 1]
      BY <1>5, <1>10, <3>1
    <3> QED  BY <3>1, <3>2 DEF Ins
  <2> QED  BY <2>1, <2>2, <2>3
<1>13. Ins(s, n, k, x) = [j \in 1 .. n + 1 |-> Ins(s, n, k, x)[j]]
  BY DEF Ins
<1>14. n + 1 \in Nat /\ Len(r) = n + 1
  BY <1>10, <1>11
<1>15. r = Ins(s, n, k, x)
  BY <1>10, <1>12, <1>13, <1>14, SameSequence
<1> QED  BY <1>1, <1>2, <1>3, <1>7, <1>9, <1>15

LEMMA RemovedIs ==
  ASSUME NEW n \in Nat, NEW s \in [1 .. n -> Links], NEW k \in 1 .. n
  PROVE  SubSeq(s, 1, k - 1) \o SubSeq(s, k + 1, Len(s)) = Rem(s, n, k)
<1>1. s \in Seq(Links) /\ Len(s) = n /\ k - 1 \in Nat /\ n - k \in Nat /\ n - 1 \in Nat
  OBVIOUS
<1>2. PICK a : a = SubSeq(s, 1, k - 1)
  OBVIOUS
<1>3. PICK c : c = SubSeq(s, k + 1, n)
  OBVIOUS
<1>4. a \in Seq(Links) /\ Len(a) = k - 1 /\ \A j \in 1 .. k - 1 : a[j] = s[j]
  <2>1. /\ 1 \in 1 .. n + 1 /\ k - 1 \in 1 - 1 .. n /\ (k - 1) - 1 + 1 = k - 1
        /\ \A j \in 1 .. k - 1 : 1 + j - 1 = j
    OBVIOUS
  <2> QED  BY <1>2, <2>1, Cut
<1>5. c \in Seq(Links) /\ Len(c) = n - k /\ \A j \in 1 .. n - k : c[j] = s[k + j]
  <2>1. /\ k + 1 \in 1 .. n + 1 /\ n \in (k + 1) - 1 .. n /\ n - (k + 1) + 1 = n - k
        /\ \A j \in 1 .. n - k : (k + 1) + j - 1 = k + j
    OBVIOUS
  <2> QED  BY <1>3, <2>1, Cut
<1>6. PICK r : r = a \o c
  OBVIOUS
<1>7. /\ r \in Seq(Links) /\ Len(r) = (k - 1) + (n - k)
      /\ \A j \in 1 .. k - 1 : r[j] = a[j]
      /\ \A j \in 1 .. n - k : r[(k - 1) + j] = c[j]
  <2>1. k - 1 \in Nat /\ n - k \in Nat
    OBVIOUS
  <2>2. JoinedAs(r, a, c, k - 1, n - k)
    BY <2>1, <1>4, <1>5, <1>6, Joined
  <2> QED  BY <2>2 DEF JoinedAs
<1>8. (k - 1) + (n - k) = n - 1
  OBVIOUS
<1>9. ASSUME NEW j \in 1 .. n - 1 PROVE r[j] = Rem(s, n, k)[j]
  <2>1. CASE j < k
    <3>1. j \in 1 .. k - 1
      BY <2>1
    <3>2. r[j] = s[j]
      BY <1>4, <1>7, <3>1
    <3> QED  BY <2>1, <3>2 DEF Rem
  <2>2. CASE j >= k
    <3>1. /\ j - (k - 1) \in 1 .. n - k /\ k + (j - (k - 1)) = j + 1 /\ (k - 1) + (j - (k - 1)) = j
          /\ ~ (j < k)
      BY <2>2
    <3>2. r[j] = s[j + 1]
      <4>1. PICK i \in 1 .. n - k : k + i = j + 1 /\ (k - 1) + i = j
        BY <3>1
      <4>2. r[(k - 1) + i] = c[i] /\ c[i] = s[k + i]
        BY <1>5, <1>7
      <4> QED  BY <4>1, <4>2
    <3> QED  BY <3>1, <3>2 DEF Rem
  <2> QED  BY <2>1, <2>2
<1>10. Rem(s, n, k) = [j \in 1 .. n - 1 |-> Rem(s, n, k)[j]]
  BY DEF Rem
<1>11. r = Rem(s, n, k)
  BY <1>1, <1>7, <1>8, <1>9, <1>10, SameSequence
<1> QED  BY <1>1, <1>2, <1>3, <1>6, <1>11

\* What Forward and Backward are, without recursion.
Behind(s, j) == IF j = sz THEN t ELSE s[sz - j]
Along(f)  == [k \in 0 .. sz |-> IF k = 0 THEN t ELSE nxt[f[k - 1]]]
Against(f) == [k \in 0 .. sz |-> IF k = 0 THEN t ELSE prv[f[k - 1]]]

LEMMA RingFacts ==
  ASSUME NEW s, InRing(s)
  PROVE  /\ sz \in Nat
         /\ sz = 0 => t = NoLink
         /\ \A k \in 1 .. sz : /\ s[k] \in Links /\ s[k] # NoLink
                               /\ nxt[s[k]] = s[Succ(sz, k)] /\ prv[s[k]] = s[Pre(sz, k)]
                               /\ Succ(sz, k) \in 1 .. sz /\ Pre(sz, k) \in 1 .. sz
         /\ \A j, k \in 1 .. sz : s[j] = s[k] => j = k
         /\ sz > 0 => t = s[sz] /\ t # NoLink /\ t \in Links
<1>1. \A k \in 1 .. sz : Succ(sz, k) \in 1 .. sz /\ Pre(sz, k) \in 1 .. sz
  BY DEF InRing, Succ, Pre
<1>2. sz \in Nat /\ (sz = 0 => t = NoLink) /\ \A j, k \in 1 .. sz : s[j] = s[k] => j = k
  BY DEF InRing
<1>3. \A k \in 1 .. sz : /\ s[k] \in Links /\ s[k] # NoLink
                         /\ nxt[s[k]] = s[Succ(sz, k)] /\ prv[s[k]] = s[Pre(sz, k)]
  BY LinksAssumption DEF InRing
<1>4. sz > 0 => t = s[sz] /\ sz \in 1 .. sz
  BY DEF InRing
<1> QED  BY <1>1, <1>2, <1>3, <1>4

LEMMA ForwardIs ==
  ASSUME NEW s, InRing(s)
  PROVE  \A k \in 0 .. sz : Forward[k] = Before(s, k)
<1>1. PICK w : w = [k \in 0 .. sz |-> Before(s, k)]
  OBVIOUS
<1>2. ASSUME NEW k \in 0 .. sz PROVE w[k] = IF k = 0 THEN t ELSE nxt[w[k - 1]]
  <2>1. CASE k = 0
    BY <1>1, <2>1 DEF Before
  <2>2. CASE k = 1
    <3>1. w[0] = s[sz] /\ w[1] = s[1]
      BY SMTT(30), <1>1, <2>2, RingFacts DEF Before
    <3>2. Succ(sz, sz) = 1 /\ sz \in 1 .. sz
      BY <2>2, RingFacts DEF Succ
    <3> QED  BY <2>2, <3>1, <3>2, RingFacts
  <2>3. CASE k > 1
    <3>1. w[k - 1] = s[k - 1] /\ w[k] = s[k]
      <4>1. sz \in Nat /\ k - 1 \in 0 .. sz /\ k - 1 # 0 /\ k # 0
        BY <2>3, RingFacts
      <4> QED  BY <1>1, <4>1 DEF Before
    <3>2. Succ(sz, k - 1) = k /\ k - 1 \in 1 .. sz
      BY <2>3, RingFacts DEF Succ
    <3> QED  BY <2>3, <3>1, <3>2, RingFacts
  <2> QED  BY <2>1, <2>2, <2>3, RingFacts
<1>3. w = Along(w)
  <2>1. w = [k \in 0 .. sz |-> w[k]]
    BY <1>1
  <2> QED  BY <1>2, <2>1 DEF Along
<1>4. Forward = CHOOSE f : f = Along(f)
  BY Zenon DEF Forward, Along
<1>5. Forward = Along(Forward)
  BY Zenon, <1>3, <1>4
<1>6. \A k \in 0 .. sz : Forward[k] = IF k = 0 THEN t ELSE nxt[Forward[k - 1]]
  BY <1>5 DEF Along
<1> DEFINE T == {k \in 0 .. sz : Forward[k] = w[k]}
<1>7. T = 0 .. sz
  <2>1. T \in SUBSET (0 .. sz) /\ 0 \in T
    BY <1>2, <1>6, RingFacts
  <2>2. ASSUME NEW k \in 1 .. sz, k - 1 \in T PROVE k \in T
    <3>1. k \in 0 .. sz /\ k # 0 /\ Forward[k - 1] = w[k - 1]
      BY <2>2, RingFacts
    <3> QED  BY <1>2, <1>6, <3>1
  <2> HIDE DEF T
  <2> QED  BY <2>1, <2>2, UpTo, RingFacts
<1> QED  BY <1>1, <1>7

LEMMA BackwardIs ==
  ASSUME NEW s, InRing(s)
  PROVE  \A k \in 0 .. sz : Backward[k] = Behind(s, k)
<1>1. PICK w : w = [k \in 0 .. sz |-> Behind(s, k)]
  OBVIOUS
<1>2. ASSUME NEW k \in 0 .. sz PROVE w[k] = IF k = 0 THEN t ELSE prv[w[k - 1]]
  <2>1. CASE k = 0
    BY <1>1, <2>1, RingFacts DEF Behind
  <2>2. CASE k > 0
    <3>1. w[k - 1] = s[sz - (k - 1)] /\ sz - (k - 1) \in 1 .. sz
      <4>1. sz \in Nat /\ k - 1 \in 0 .. sz /\ k - 1 # sz /\ sz - (k - 1) \in 1 .. sz
        BY <2>2, RingFacts
      <4> QED  BY <1>1, <4>1 DEF Behind
    <3>2. w[k] = s[Pre(sz, sz - (k - 1))]
      <4>1. CASE k = sz
        <5>1. w[k] = s[sz] /\ Pre(sz, sz - (k - 1)) = sz
          BY <1>1, <2>2, <4>1, RingFacts DEF Behind, Pre
        <5> QED  BY <5>1
      <4>2. CASE k # sz
        <5>1. w[k] = s[sz - k] /\ Pre(sz, sz - (k - 1)) = sz - k
          BY <1>1, <2>2, <4>2, RingFacts DEF Behind, Pre
        <5> QED  BY <5>1
      <4> QED  BY <4>1, <4>2
    <3> QED  BY <2>2, <3>1, <3>2, RingFacts
  <2> QED  BY <2>1, <2>2, RingFacts
<1>3. w = Against(w)
  <2>1. w = [k \in 0 .. sz |-> w[k]]
    BY <1>1
  <2> QED  BY <1>2, <2>1 DEF Against
<1>4. Backward = CHOOSE f : f = Against(f)
  BY Zenon DEF Backward, Against
<1>5. Backward = Against(Backward)
  BY Zenon, <1>3, <1>4
<1>6. \A k \in 0 .. sz : Backward[k] = IF k = 0 THEN t ELSE prv[Backward[k - 1]]
  BY <1>5 DEF Against
<1> DEFINE T == {k \in 0 .. sz : Backward[k] = w[k]}
<1>7. T = 0 .. sz
  <2>1. T \in SUBSET (0 .. sz) /\ 0 \in T
    BY <1>2, <1>6, RingFacts
  <2>2. ASSUME NEW k \in 1 .. sz, k - 1 \in T PROVE k \in T
    <3>1. k \in 0 .. sz /\ k # 0 /\ Backward[k - 1] = w[k - 1]
      BY <2>2, RingFacts
    <3> QED  BY <1>2, <1>6, <3>1
  <2> HIDE DEF T
  <2> QED  BY <2>1, <2>2, UpTo, RingFacts
<1> QED  BY <1>1, <1>7

\* What the iterators report is what they keep.
ListRead == \A s : Stand(s) => Contents = s /\ Places = index /\ Len(s) = sz /\ s \in Seq(Links)

LEMMA ListIsRead == ListRead
<1> SUFFICES ASSUME NEW s, Stand(s)
             PROVE  Contents = s /\ Places = index /\ Len(s) = sz /\ s \in Seq(Links)
  BY DEF ListRead
<1>1. InRing(s) /\ Standing(s) /\ sz \in Nat
  BY RingFacts DEF Stand
<1>2. \A k \in 0 .. sz : Forward[k] = Before(s, k)
  BY <1>1, ForwardIs
<1>3. Contents = s
  <2>1. \A k \in 1 .. sz : Forward[k] = s[k]
    BY <1>1, <1>2 DEF Before
  <2>2. s = [k \in 1 .. sz |-> s[k]]
    BY <1>1 DEF InRing
  <2> QED  BY <2>1, <2>2 DEF Contents
<1>4. Places = index
  <2>1. \A i \in Attached : index[i] \in 0 .. sz /\ index[i] <= sz /\ pred[i] = Forward[index[i]]
    BY <1>1, <1>2 DEF Standing
  <2>2. index = [i \in Attached |-> index[i]]
    BY <1>1 DEF Standing
  <2> QED  BY <2>1, <2>2 DEF Places
<1>5. Len(s) = sz /\ s \in Seq(Links)
  BY <1>1 DEF InRing
<1> QED  BY <1>3, <1>4, <1>5

-----------------------------------------------------------------------------
(* Links come and go.                                                      *)

Grown(r, s, n, k, x) ==
  /\ r \in [1 .. n + 1 -> Links] /\ r[k + 1] = x
  /\ \A j \in 1 .. k : r[j] = s[j]
  /\ \A j \in k + 1 .. n : r[j + 1] = s[j]

LEMMA InsFacts ==
  ASSUME NEW n \in Nat, NEW s \in [1 .. n -> Links], NEW k \in 0 .. n, NEW x \in Links,
         NEW r, r = Ins(s, n, k, x)
  PROVE  Grown(r, s, n, k, x)
<1>1. \A j \in 1 .. n + 1 : r[j] = IF j <= k THEN s[j] ELSE IF j = k + 1 THEN x ELSE s[j - 1]
  BY DEF Ins
<1>2. r \in [1 .. n + 1 -> Links]
  BY DEF Ins
<1>3. r[k + 1] = x
  BY <1>1
<1>4. \A j \in 1 .. k : r[j] = s[j]
  BY <1>1
<1>5. ASSUME NEW j \in k + 1 .. n PROVE r[j + 1] = s[j]
  <2>1. j + 1 \in 1 .. n + 1 /\ ~ (j + 1 <= k) /\ j + 1 # k + 1 /\ (j + 1) - 1 = j
    OBVIOUS
  <2> QED  BY <1>1, <2>1
<1> QED  BY <1>2, <1>3, <1>4, <1>5 DEF Grown

LEMMA RemFacts ==
  ASSUME NEW n \in Nat, NEW s \in [1 .. n -> Links], NEW k \in 1 .. n,
         NEW r, r = Rem(s, n, k)
  PROVE  /\ r \in [1 .. n - 1 -> Links]
         /\ \A j \in 1 .. k - 1 : r[j] = s[j]
         /\ \A j \in k .. n - 1 : r[j] = s[j + 1]
BY DEF Rem

LEMMA RingInserts ==
  ASSUME NEW s, InRing(s), NEW k \in 0 .. sz, NEW x \in NewLinks,
         LinkBehind(Before(s, k), x), t' = IF k = sz THEN x ELSE t, sz' = sz + 1,
         NEW r, r = Ins(s, sz, k, x)
  PROVE  InRing(r)'
<1>1. /\ sz \in Nat /\ s \in [1 .. sz -> Links] /\ x \in Links
      /\ nxt \in [Links -> Links \cup {NoLink}] /\ prv \in [Links -> Links \cup {NoLink}]
  BY DEF InRing, NewLinks
<1>2. /\ r \in [1 .. sz + 1 -> Links] /\ r[k + 1] = x
      /\ \A j \in 1 .. k : r[j] = s[j]
      /\ \A j \in k + 1 .. sz : r[j + 1] = s[j]
  <2>1. Grown(r, s, sz, k, x)
    BY <1>1, InsFacts
  <2> QED  BY <2>1 DEF Grown
<1>3. \A j \in 1 .. sz : s[j] \in Links /\ s[j] # x
  <2>1. \A j \in 1 .. sz : /\ s[j] \in Links /\ nxt[s[j]] = s[Succ(sz, j)]
                            /\ Succ(sz, j) \in 1 .. sz
    BY RingFacts
  <2>2. \A j \in 1 .. sz : nxt[s[j]] # NoLink
    BY <2>1, LinksAssumption
  <2>3. nxt[x] = NoLink
    BY DEF NewLinks
  <2> QED  BY <2>1, <2>2, <2>3
<1>4. \A j, m \in 1 .. sz + 1 : r[j] = r[m] => j = m
  <2> SUFFICES ASSUME NEW j \in 1 .. sz + 1, NEW m \in 1 .. sz + 1, r[j] = r[m], j < m PROVE FALSE
    BY <1>1
  <2>1. j - 1 \in k + 1 .. sz \/ j \in 1 .. k \/ j = k + 1
    BY <1>1
  <2>2. m - 1 \in k + 1 .. sz \/ m \in 1 .. k \/ m = k + 1
    BY <1>1
  <2>3. \A i \in 1 .. sz + 1 : i - 1 \in k + 1 .. sz => r[i] = s[i - 1] /\ i - 1 \in 1 .. sz
    <3> SUFFICES ASSUME NEW i \in 1 .. sz + 1, i - 1 \in k + 1 .. sz
                 PROVE  r[i] = s[i - 1] /\ i - 1 \in 1 .. sz
      OBVIOUS
    <3>1. (i - 1) + 1 = i
      OBVIOUS
    <3> QED  BY <1>1, <1>2, <3>1
  <2>4. \A a, b \in 1 .. sz : s[a] = s[b] => a = b
    BY DEF InRing
  <2>5. CASE j = k + 1
    <3>1. m - 1 \in k + 1 .. sz
      BY <1>1, <2>2, <2>5
    <3> QED  BY <1>2, <1>3, <2>3, <2>5, <3>1
  <2>6. CASE j \in 1 .. k
    <3>1. r[j] = s[j] /\ j \in 1 .. sz
      BY <1>1, <1>2, <2>6
    <3>2. CASE m \in 1 .. k
      <4>1. r[m] = s[m] /\ m \in 1 .. sz
        BY <1>1, <1>2, <3>2
      <4>2. s[j] = s[m]
        BY <3>1, <4>1
      <4>3. j = m
        BY <2>4, <3>1, <4>1, <4>2
      <4> QED  BY <1>1, <4>3
    <3>3. CASE m = k + 1
      BY <1>2, <1>3, <3>1, <3>3
    <3>4. CASE m - 1 \in k + 1 .. sz
      <4>1. r[m] = s[m - 1] /\ m - 1 \in 1 .. sz
        BY <2>3, <3>4
      <4>2. s[j] = s[m - 1]
        BY <3>1, <4>1
      <4>3. j = m - 1
        BY <2>4, <3>1, <4>1, <4>2
      <4> QED  BY <1>1, <2>6, <3>4, <4>3
    <3> QED  BY <2>2, <3>2, <3>3, <3>4
  <2>7. CASE j - 1 \in k + 1 .. sz
    <3>1. m - 1 \in k + 1 .. sz
      BY <1>1, <2>7
    <3>2. j - 1 = m - 1
      BY <2>3, <2>4, <2>7, <3>1
    <3> QED  BY <1>1, <3>2
  <2> QED  BY <2>1, <2>5, <2>6, <2>7
<1>5. t' = r[sz + 1]
  <2>1. CASE k = sz
    BY <1>2, <2>1
  <2>2. CASE k # sz
    <3>1. sz \in k + 1 .. sz /\ t = s[sz]
      BY <1>1, <2>2, RingFacts
    <3> QED  BY <1>2, <2>2, <3>1
  <2> QED  BY <2>1, <2>2
<1>6. CASE sz = 0
  <2>1. k = 0 /\ Before(s, k) = NoLink
    BY <1>6, RingFacts DEF Before
  <2>2. nxt' = [nxt EXCEPT ![x] = x] /\ prv' = [prv EXCEPT ![x] = x]
    BY <2>1 DEF LinkBehind
  <2>3. /\ nxt' \in [Links -> Links \cup {NoLink}] /\ prv' \in [Links -> Links \cup {NoLink}]
        /\ nxt'[x] = x /\ prv'[x] = x
    BY <1>1, <2>2
  <2>4. sz' = 1 /\ r[1] = x /\ \A j \in 1 .. 1 : Succ(1, j) = 1 /\ Pre(1, j) = 1 /\ j = 1
    BY <1>2, <1>6, <2>1 DEF Succ, Pre
  <2>5. /\ sz' \in Nat /\ r \in [1 .. sz' -> Links]
        /\ \A j, m \in 1 .. sz' : r[j] = r[m] => j = m
        /\ t' = IF sz' = 0 THEN NoLink ELSE r[sz']
    BY <1>1, <1>2, <1>4, <1>5, <1>6
  <2>6. \A j \in 1 .. sz' : nxt'[r[j]] = r[Succ(sz', j)] /\ prv'[r[j]] = r[Pre(sz', j)]
    BY <2>3, <2>4
  <2> QED  BY <2>3, <2>5, <2>6 DEF InRing
<1>7. CASE sz > 0
  <2> DEFINE q == IF k = 0 THEN sz ELSE k
             p == s[q]
             a == Succ(sz, q)
  <2>1. q \in 1 .. sz /\ Before(s, k) = p /\ p \in Links /\ p # NoLink
    <3>1. q \in 1 .. sz
      BY <1>1, <1>7
    <3>2. Before(s, k) = p
      BY <1>1, <1>7, RingFacts DEF Before
    <3> HIDE DEF q
    <3> QED  BY <3>1, <3>2, RingFacts
  <2>2. a \in 1 .. sz /\ nxt[p] = s[a] /\ s[a] \in Links /\ Pre(sz, a) = q
    <3>1. a \in 1 .. sz /\ nxt[p] = s[a] /\ s[a] \in Links
      BY <2>1, RingFacts
    <3>2. Pre(sz, a) = q
      BY <1>1, <2>1 DEF Succ, Pre
    <3> QED  BY <3>1, <3>2
  <2>3. /\ nxt' = [nxt EXCEPT ![x] = s[a], ![p] = x]
        /\ prv' = [prv EXCEPT ![x] = p, ![s[a]] = x]
    BY <2>1, <2>2 DEF LinkBehind
  <2>4. p # x /\ s[a] # x
    BY <1>3, <2>1, <2>2
  <2>5. a = IF k = 0 \/ k = sz THEN 1 ELSE k + 1
    BY <1>1, <1>7 DEF Succ
  <2>6. PICK qq, aa : qq = q /\ aa = a
    OBVIOUS
  <2>7. /\ nxt' \in [Links -> Links \cup {NoLink}] /\ prv' \in [Links -> Links \cup {NoLink}]
        /\ \A y \in Links : nxt'[y] = IF y = p THEN x ELSE IF y = x THEN s[a] ELSE nxt[y]
        /\ \A y \in Links : prv'[y] = IF y = s[a] THEN x ELSE IF y = x THEN p ELSE prv[y]
    BY <1>1, <2>1, <2>2, <2>3
  <2>8. /\ nxt'[x] = s[aa] /\ prv'[x] = s[qq]
        /\ \A j \in 1 .. sz : nxt'[s[j]] = IF j = qq THEN x ELSE s[Succ(sz, j)]
        /\ \A j \in 1 .. sz : prv'[s[j]] = IF j = aa THEN x ELSE s[Pre(sz, j)]
    <3>1. nxt'[x] = s[a] /\ prv'[x] = p
      BY <1>1, <2>4, <2>7
    <3>2. ASSUME NEW j \in 1 .. sz
          PROVE  /\ nxt'[s[j]] = IF j = q THEN x ELSE s[Succ(sz, j)]
                 /\ prv'[s[j]] = IF j = a THEN x ELSE s[Pre(sz, j)]
      <4>1. s[j] \in Links /\ s[j] # x /\ nxt[s[j]] = s[Succ(sz, j)] /\ prv[s[j]] = s[Pre(sz, j)]
        BY <1>3, RingFacts
      <4>2. (s[j] = s[q] <=> j = q) /\ (s[j] = s[a] <=> j = a)
        BY <2>1, <2>2 DEF InRing
      <4> HIDE DEF q, a
      <4> QED  BY <2>7, <4>1, <4>2
    <3> HIDE DEF q, a
    <3> QED  BY <2>6, <3>1, <3>2
  <2>9. qq = (IF k = 0 THEN sz ELSE k) /\ aa = IF k = 0 \/ k = sz THEN 1 ELSE k + 1
    BY <2>5, <2>6
  <2> HIDE DEF q, p, a
  <2>10. ASSUME NEW j \in 1 .. sz + 1
         PROVE  nxt'[r[j]] = r[Succ(sz + 1, j)] /\ prv'[r[j]] = r[Pre(sz + 1, j)]
    <3>1. CASE j = k + 1
      <4>1. nxt'[r[j]] = s[aa] /\ prv'[r[j]] = s[qq]
        BY <1>2, <2>8, <3>1
      <4>2. s[aa] = r[Succ(sz + 1, j)]
        <5>1. CASE k = 0
          <6>1. aa = 1 /\ Succ(sz + 1, j) = 2 /\ 1 \in k + 1 .. sz /\ 1 + 1 = 2
            BY <1>1, <1>7, <2>9, <3>1, <5>1 DEF Succ
          <6> QED  BY <1>2, <6>1
        <5>2. CASE k = sz
          <6>1. aa = 1 /\ Succ(sz + 1, j) = 1 /\ 1 \in 1 .. k
            BY <1>1, <1>7, <2>9, <3>1, <5>2 DEF Succ
          <6> QED  BY <1>2, <6>1
        <5>3. CASE k # 0 /\ k # sz
          <6>1. aa = k + 1 /\ Succ(sz + 1, j) = (k + 1) + 1 /\ k + 1 \in k + 1 .. sz
            BY <1>1, <1>7, <2>9, <3>1, <5>3 DEF Succ
          <6> QED  BY <1>2, <6>1
        <5> QED  BY <5>1, <5>2, <5>3
      <4>3. s[qq] = r[Pre(sz + 1, j)]
        <5>1. CASE k = 0
          <6>1. qq = sz /\ Pre(sz + 1, j) = sz + 1 /\ sz \in k + 1 .. sz
            BY <1>1, <1>7, <2>9, <3>1, <5>1 DEF Pre
          <6> QED  BY <1>2, <6>1
        <5>2. CASE k # 0
          <6>1. qq = k /\ Pre(sz + 1, j) = k /\ k \in 1 .. k
            BY <1>1, <1>7, <2>9, <3>1, <5>2 DEF Pre
          <6> QED  BY <1>2, <6>1
        <5> QED  BY <5>1, <5>2
      <4> QED  BY <4>1, <4>2, <4>3
    <3>2. CASE j \in 1 .. k
      <4>1. r[j] = s[j] /\ j \in 1 .. sz
        BY <1>1, <1>2, <3>2
      <4>2. nxt'[s[j]] = r[Succ(sz + 1, j)]
        <5>1. CASE j = k
          <6>1. qq = j /\ Succ(sz + 1, j) = k + 1
            BY <1>1, <2>9, <3>2, <5>1 DEF Succ
          <6> QED  BY <1>2, <2>8, <4>1, <6>1
        <5>2. CASE j # k
          <6>1. qq # j /\ Succ(sz + 1, j) = j + 1 /\ Succ(sz, j) = j + 1 /\ j + 1 \in 1 .. k
            BY <1>1, <2>9, <3>2, <5>2 DEF Succ
          <6> QED  BY <1>2, <2>8, <4>1, <6>1
        <5> QED  BY <5>1, <5>2
      <4>3. prv'[s[j]] = r[Pre(sz + 1, j)]
        <5>1. CASE j = 1 /\ k = sz
          <6>1. aa = 1 /\ Pre(sz + 1, j) = k + 1
            BY <1>1, <2>9, <5>1 DEF Pre
          <6> QED  BY <1>2, <2>8, <4>1, <5>1, <6>1
        <5>2. CASE j = 1 /\ k # sz
          <6>1. aa # 1 /\ Pre(sz + 1, j) = sz + 1 /\ Pre(sz, j) = sz /\ sz \in k + 1 .. sz
            BY <1>1, <2>9, <3>2, <5>2 DEF Pre
          <6> QED  BY <1>2, <2>8, <4>1, <5>2, <6>1
        <5>3. CASE j # 1
          <6>1. aa # j /\ Pre(sz + 1, j) = j - 1 /\ Pre(sz, j) = j - 1 /\ j - 1 \in 1 .. k
            BY <1>1, <2>9, <3>2, <5>3 DEF Pre
          <6> QED  BY <1>2, <2>8, <4>1, <6>1
        <5> QED  BY <5>1, <5>2, <5>3
      <4> QED  BY <4>1, <4>2, <4>3
    <3>3. CASE j > k + 1
      <4>1. r[j] = s[j - 1] /\ j - 1 \in 1 .. sz /\ j - 1 \in k + 1 .. sz
        <5>1. j - 1 \in k + 1 .. sz /\ (j - 1) + 1 = j /\ j - 1 \in 1 .. sz
          BY <1>1, <3>3
        <5> QED  BY <1>2, <5>1
      <4>2. nxt'[s[j - 1]] = r[Succ(sz + 1, j)]
        <5>1. CASE j = sz + 1 /\ k = 0
          <6>1. qq = j - 1 /\ Succ(sz + 1, j) = k + 1
            BY <1>1, <2>9, <5>1 DEF Succ
          <6> QED  BY <1>2, <2>8, <4>1, <6>1
        <5>2. CASE j = sz + 1 /\ k # 0
          <6>1. qq # j - 1 /\ Succ(sz + 1, j) = 1 /\ Succ(sz, j - 1) = 1 /\ 1 \in 1 .. k
            BY <1>1, <2>9, <3>3, <5>2 DEF Succ
          <6> QED  BY <1>2, <2>8, <4>1, <6>1
        <5>3. CASE j # sz + 1
          <6>1. qq # j - 1 /\ Succ(sz + 1, j) = j + 1 /\ Succ(sz, j - 1) = j /\ j \in k + 1 .. sz
            BY <1>1, <2>9, <3>3, <5>3 DEF Succ
          <6> QED  BY <1>2, <2>8, <4>1, <6>1
        <5> QED  BY <5>1, <5>2, <5>3
      <4>3. prv'[s[j - 1]] = r[Pre(sz + 1, j)]
        <5>0. Pre(sz + 1, j) = j - 1
          BY <1>1, <3>3 DEF Pre
        <5>1. CASE j - 1 = k + 1
          <6>1. aa = j - 1
            BY <1>1, <2>9, <3>3, <5>1
          <6> QED  BY <1>2, <2>8, <4>1, <5>0, <5>1, <6>1
        <5>2. CASE j - 1 # k + 1
          <6>1. /\ aa # j - 1 /\ Pre(sz, j - 1) = j - 2 /\ j - 2 \in k + 1 .. sz
                /\ (j - 2) + 1 = j - 1
            BY <1>1, <2>9, <3>3, <5>2 DEF Pre
          <6> QED  BY <1>2, <2>8, <4>1, <5>0, <6>1
        <5> QED  BY <5>1, <5>2
      <4> QED  BY <4>1, <4>2, <4>3
    <3> QED  BY <1>1, <3>1, <3>2, <3>3
  <2>11. /\ sz' = sz + 1 /\ sz' \in Nat /\ t' = (IF sz' = 0 THEN NoLink ELSE r[sz'])
         /\ nxt' \in [Links -> Links \cup {NoLink}] /\ prv' \in [Links -> Links \cup {NoLink}]
    BY <1>1, <1>5, <2>7
  <2> QED  BY <1>2, <1>4, <2>10, <2>11 DEF InRing
<1> QED  BY <1>1, <1>6, <1>7

LEMMA TailGoes ==
  ASSUME NEW s, InRing(s), NEW k \in 1 .. sz, NEW r, r = Rem(s, sz, k)
  PROVE  TailWithout(s[k]) = IF sz = 1 THEN NoLink ELSE r[sz - 1]
<1>1. /\ sz \in Nat /\ s \in [1 .. sz -> Links] /\ t = s[sz] /\ sz \in 1 .. sz
      /\ \A j, m \in 1 .. sz : s[j] = s[m] => j = m
      /\ nxt[s[k]] = s[Succ(sz, k)] /\ prv[s[k]] = s[Pre(sz, k)] /\ Succ(sz, k) \in 1 .. sz
  BY RingFacts DEF InRing
<1>2. nxt[s[k]] = s[k] <=> sz = 1
  <2>1. Succ(sz, k) = k <=> sz = 1
    BY <1>1 DEF Succ
  <2> QED  BY <1>1, <2>1
<1>3. t = s[k] <=> k = sz
  BY <1>1
<1>4. CASE sz = 1
  BY <1>2, <1>4 DEF TailWithout
<1>5. CASE sz # 1 /\ k = sz
  <2>1. Pre(sz, k) = sz - 1 /\ sz - 1 \in 1 .. k - 1
    BY <1>1, <1>5 DEF Pre
  <2>2. r[sz - 1] = s[sz - 1]
    BY <1>1, <2>1, RemFacts
  <2> QED  BY <1>1, <1>2, <1>3, <1>5, <2>1, <2>2 DEF TailWithout
<1>6. CASE sz # 1 /\ k # sz
  <2>1. sz - 1 \in k .. sz - 1 /\ (sz - 1) + 1 = sz
    BY <1>1, <1>6
  <2>2. r[sz - 1] = s[sz]
    BY <1>1, <2>1, RemFacts
  <2> QED  BY <1>1, <1>2, <1>3, <1>6, <2>2 DEF TailWithout
<1> QED  BY <1>4, <1>5, <1>6

LEMMA RingRemoves ==
  ASSUME NEW s, InRing(s), NEW k \in 1 .. sz,
         LinkOut(s[k]), t' = TailWithout(s[k]),
         NEW r, r = Rem(s, sz, k)
  PROVE  InRing(r)'
<1>1. /\ sz \in Nat /\ s \in [1 .. sz -> Links] /\ s[k] \in Links
      /\ nxt \in [Links -> Links \cup {NoLink}] /\ prv \in [Links -> Links \cup {NoLink}]
      /\ \A j, m \in 1 .. sz : s[j] = s[m] => j = m
  BY DEF InRing
<1>2. /\ r \in [1 .. sz - 1 -> Links]
      /\ \A j \in 1 .. k - 1 : r[j] = s[j]
      /\ \A j \in k .. sz - 1 : r[j] = s[j + 1]
  BY <1>1, RemFacts
<1>3. /\ sz' = sz - 1 /\ sz' \in Nat
      /\ t' = IF sz' = 0 THEN NoLink ELSE r[sz']
  <2>1. sz' = sz - 1 /\ sz' \in Nat /\ (sz' = 0 <=> sz = 1)
    BY <1>1 DEF LinkOut
  <2> QED  BY <2>1, TailGoes
<1>4. \A j, m \in 1 .. sz - 1 : r[j] = r[m] => j = m
  <2> SUFFICES ASSUME NEW j \in 1 .. sz - 1, NEW m \in 1 .. sz - 1, r[j] = r[m], j < m PROVE FALSE
    BY <1>1
  <2>1. CASE m < k
    <3>1. j \in 1 .. k - 1 /\ m \in 1 .. k - 1 /\ j \in 1 .. sz /\ m \in 1 .. sz
      BY <1>1, <2>1
    <3> QED  BY <1>1, <1>2, <3>1
  <2>2. CASE j < k /\ m >= k
    <3>1. j \in 1 .. k - 1 /\ m \in k .. sz - 1 /\ j \in 1 .. sz /\ m + 1 \in 1 .. sz /\ j # m + 1
      BY <1>1, <2>2
    <3> QED  BY <1>1, <1>2, <3>1
  <2>3. CASE j >= k
    <3>1. j \in k .. sz - 1 /\ m \in k .. sz - 1 /\ j + 1 \in 1 .. sz /\ m + 1 \in 1 .. sz /\ j + 1 # m + 1
      BY <1>1, <2>3
    <3> QED  BY <1>1, <1>2, <3>1
  <2> QED  BY <1>1, <2>1, <2>2, <2>3
<1>5. PICK a, b : a = Pre(sz, k) /\ b = Succ(sz, k)
  OBVIOUS
<1>6. /\ a \in 1 .. sz /\ b \in 1 .. sz
      /\ prv[s[k]] = s[a] /\ nxt[s[k]] = s[b]
      /\ s[a] \in Links /\ s[b] \in Links
  BY <1>5, RingFacts
<1>7. /\ nxt' = [[nxt EXCEPT ![s[a]] = s[b]] EXCEPT ![s[k]] = NoLink]
      /\ prv' = [[prv EXCEPT ![s[b]] = s[a]] EXCEPT ![s[k]] = NoLink]
  BY <1>6 DEF LinkOut
<1>8. /\ nxt' \in [Links -> Links \cup {NoLink}] /\ prv' \in [Links -> Links \cup {NoLink}]
      /\ \A y \in Links : y # s[k] => nxt'[y] = IF y = s[a] THEN s[b] ELSE nxt[y]
      /\ \A y \in Links : y # s[k] => prv'[y] = IF y = s[b] THEN s[a] ELSE prv[y]
  BY <1>1, <1>6, <1>7
<1>9. ASSUME NEW j \in 1 .. sz, j # k
      PROVE  /\ nxt'[s[j]] = IF j = a THEN s[b] ELSE s[Succ(sz, j)]
             /\ prv'[s[j]] = IF j = b THEN s[a] ELSE s[Pre(sz, j)]
  <2>1. s[j] \in Links /\ s[j] # s[k] /\ (s[j] = s[a] <=> j = a) /\ (s[j] = s[b] <=> j = b)
    BY <1>1, <1>6, <1>9
  <2>2. nxt[s[j]] = s[Succ(sz, j)] /\ prv[s[j]] = s[Pre(sz, j)]
    BY RingFacts
  <2> QED  BY <1>8, <2>1, <2>2
<1>10. a = (IF k = 1 THEN sz ELSE k - 1) /\ b = IF k = sz THEN 1 ELSE k + 1
  BY <1>5 DEF Succ, Pre
<1>11. ASSUME NEW j \in 1 .. sz - 1
       PROVE  nxt'[r[j]] = r[Succ(sz - 1, j)] /\ prv'[r[j]] = r[Pre(sz - 1, j)]
  <2>1. CASE j < k
    <3>1. r[j] = s[j] /\ j \in 1 .. sz /\ j # k /\ j \in 1 .. k - 1
      BY <1>1, <1>2, <2>1
    <3>2. nxt'[s[j]] = r[Succ(sz - 1, j)]
      <4>1. CASE j = k - 1
        <5>1. a = j
          BY <1>1, <1>10, <2>1, <4>1
        <5>2. nxt'[s[j]] = s[b]
          BY <1>9, <3>1, <5>1
        <5>3. CASE k = sz
          <6>1. b = 1 /\ Succ(sz - 1, j) = 1 /\ 1 \in 1 .. k - 1
            BY <1>1, <1>10, <4>1, <5>3 DEF Succ
          <6> QED  BY <1>2, <5>2, <6>1
        <5>4. CASE k # sz
          <6>1. b = k + 1 /\ Succ(sz - 1, j) = k /\ k \in k .. sz - 1
            BY <1>1, <1>10, <4>1, <5>4 DEF Succ
          <6> QED  BY <1>2, <5>2, <6>1
        <5> QED  BY <5>3, <5>4
      <4>2. CASE j # k - 1
        <5>1. Succ(sz - 1, j) = j + 1 /\ Succ(sz, j) = j + 1 /\ j + 1 \in 1 .. k - 1 /\ j # a
          BY <1>1, <1>10, <2>1, <4>2 DEF Succ
        <5> QED  BY <1>2, <1>9, <3>1, <5>1
      <4> QED  BY <4>1, <4>2
    <3>3. prv'[s[j]] = r[Pre(sz - 1, j)]
      <4>1. CASE j = 1 /\ k = sz
        <5>1. b = j /\ a = sz - 1 /\ Pre(sz - 1, j) = sz - 1 /\ sz - 1 \in 1 .. k - 1
          BY <1>1, <1>10, <2>1, <4>1 DEF Pre
        <5> QED  BY <1>2, <1>9, <3>1, <5>1
      <4>2. CASE j = 1 /\ k # sz
        <5>1. /\ b # j /\ Pre(sz, j) = sz /\ Pre(sz - 1, j) = sz - 1
              /\ sz - 1 \in k .. sz - 1 /\ (sz - 1) + 1 = sz
          BY <1>1, <1>10, <2>1, <4>2 DEF Pre
        <5> QED  BY <1>2, <1>9, <3>1, <5>1
      <4>3. CASE j # 1
        <5>1. b # j /\ Pre(sz, j) = j - 1 /\ Pre(sz - 1, j) = j - 1 /\ j - 1 \in 1 .. k - 1
          BY <1>1, <1>10, <2>1, <4>3 DEF Pre
        <5> QED  BY <1>2, <1>9, <3>1, <5>1
      <4> QED  BY <4>1, <4>2, <4>3
    <3> QED  BY <3>1, <3>2, <3>3
  <2>2. CASE j >= k
    <3>1. r[j] = s[j + 1] /\ j + 1 \in 1 .. sz /\ j + 1 # k /\ j \in k .. sz - 1
      BY <1>1, <1>2, <2>2
    <3>2. nxt'[s[j + 1]] = r[Succ(sz - 1, j)]
      <4>1. CASE j = sz - 1 /\ k = 1
        <5>1. a = j + 1 /\ b = 2 /\ Succ(sz - 1, j) = 1 /\ 1 \in k .. sz - 1 /\ 1 + 1 = 2
          BY <1>1, <1>10, <2>2, <4>1 DEF Succ
        <5> QED  BY <1>2, <1>9, <3>1, <5>1
      <4>2. CASE j = sz - 1 /\ k # 1
        <5>1. a # j + 1 /\ Succ(sz, j + 1) = 1 /\ Succ(sz - 1, j) = 1 /\ 1 \in 1 .. k - 1
          BY <1>1, <1>10, <2>2, <4>2 DEF Succ
        <5> QED  BY <1>2, <1>9, <3>1, <5>1
      <4>3. CASE j # sz - 1
        <5>1. /\ a # j + 1 /\ Succ(sz, j + 1) = (j + 1) + 1 /\ Succ(sz - 1, j) = j + 1
              /\ j + 1 \in k .. sz - 1
          BY <1>1, <1>10, <2>2, <4>3 DEF Succ
        <5> QED  BY <1>2, <1>9, <3>1, <5>1
      <4> QED  BY <4>1, <4>2, <4>3
    <3>3. prv'[s[j + 1]] = r[Pre(sz - 1, j)]
      <4>1. CASE j = k /\ k = 1
        <5>1. b = j + 1 /\ a = sz /\ Pre(sz - 1, j) = sz - 1 /\ sz - 1 \in k .. sz - 1 /\ (sz - 1) + 1 = sz
          BY <1>1, <1>10, <2>2, <4>1 DEF Pre
        <5> QED  BY <1>2, <1>9, <3>1, <5>1
      <4>2. CASE j = k /\ k # 1
        <5>1. b = j + 1 /\ a = k - 1 /\ Pre(sz - 1, j) = k - 1 /\ k - 1 \in 1 .. k - 1
          BY <1>1, <1>10, <2>2, <4>2 DEF Pre
        <5> QED  BY <1>2, <1>9, <3>1, <5>1
      <4>3. CASE j # k
        <5>1. /\ b # j + 1 /\ Pre(sz, j + 1) = j /\ Pre(sz - 1, j) = j - 1 /\ j - 1 \in k .. sz - 1
              /\ (j - 1) + 1 = j
          BY <1>1, <1>10, <2>2, <4>3 DEF Pre
        <5> QED  BY <1>2, <1>9, <3>1, <5>1
      <4> QED  BY <4>1, <4>2, <4>3
    <3> QED  BY <3>1, <3>2, <3>3
  <2> QED  BY <1>1, <2>1, <2>2
<1>12. \A j \in 1 .. sz' : nxt'[r[j]] = r[Succ(sz', j)] /\ prv'[r[j]] = r[Pre(sz', j)]
  BY <1>3, <1>11
<1>13. r \in [1 .. sz' -> Links] /\ \A j, m \in 1 .. sz' : r[j] = r[m] => j = m
  BY <1>2, <1>3, <1>4
<1> QED  BY <1>3, <1>8, <1>12, <1>13 DEF InRing

LEMMA RingMade ==
  ASSUME NEW n \in Nat, NEW r \in [1 .. n -> Links], \A j, m \in 1 .. n : r[j] = r[m] => j = m,
         RingOf(r)
  PROVE  InRing(r)'
<1>1. Len(r) = n
  OBVIOUS
<1> DEFINE Where(x) == CHOOSE k \in 1 .. n : r[k] = x
           In(x) == \E k \in 1 .. n : r[k] = x
<1>2. /\ nxt' = [x \in Links |-> IF In(x) THEN r[(Where(x) % n) + 1] ELSE NoLink]
      /\ prv' = [x \in Links |-> IF In(x) THEN r[((Where(x) + n - 2) % n) + 1] ELSE NoLink]
      /\ t' = IF n = 0 THEN NoLink ELSE r[n]
      /\ sz' = n
  BY <1>1 DEF RingOf
<1>3. ASSUME NEW k \in 1 .. n PROVE Where(r[k]) = k /\ In(r[k])
  <2>1. In(r[k])
    OBVIOUS
  <2>2. Where(r[k]) \in 1 .. n /\ r[Where(r[k])] = r[k]
    BY Zenon
  <2> QED  BY <2>1, <2>2
<1>4. ASSUME NEW x \in Links, In(x) PROVE Where(x) \in 1 .. n /\ r[Where(x)] = x
  BY Zenon, <1>4
<1> HIDE DEF Where, In
<1>5. \A k \in 1 .. n : (k % n) + 1 = Succ(n, k) /\ ((k + n - 2) % n) + 1 = Pre(n, k)
  <2> SUFFICES ASSUME NEW k \in 1 .. n
               PROVE  (k % n) + 1 = Succ(n, k) /\ ((k + n - 2) % n) + 1 = Pre(n, k)
    OBVIOUS
  <2>1. k = n => k % n = 0
    OBVIOUS
  <2>2. k < n => k % n = k
    OBVIOUS
  <2>3. k = 1 => (k + n - 2) % n = n - 1
    OBVIOUS
  <2>4. k > 1 => (k + n - 2) % n = k - 2
    OBVIOUS
  <2> QED  BY <2>1, <2>2, <2>3, <2>4 DEF Succ, Pre
<1>6. \A k \in 1 .. n : Succ(n, k) \in 1 .. n /\ Pre(n, k) \in 1 .. n
  BY DEF Succ, Pre
<1>7. \A k \in 1 .. n : nxt'[r[k]] = r[Succ(n, k)] /\ prv'[r[k]] = r[Pre(n, k)]
  BY <1>2, <1>3, <1>5
<1>8. /\ nxt' \in [Links -> Links \cup {NoLink}] /\ prv' \in [Links -> Links \cup {NoLink}]
  <2>1. ASSUME NEW x \in Links
        PROVE  /\ (IF In(x) THEN r[(Where(x) % n) + 1] ELSE NoLink) \in Links \cup {NoLink}
               /\ (IF In(x) THEN r[((Where(x) + n - 2) % n) + 1] ELSE NoLink) \in Links \cup {NoLink}
    BY ZenonT(60), <1>4, <1>5, <1>6
  <2> QED  BY <1>2, <2>1
<1> QED  BY <1>2, <1>7, <1>8 DEF InRing

-----------------------------------------------------------------------------
(* What a call does to the sequence, and where it leaves the iterators.    *)

InsertedAs(s, r, k, x, follow) ==
  /\ r = Ins(s, sz, k, x)
  /\ index' = [i \in Attached |->
                 IF index[i] > k \/ (index[i] = k /\ i \in follow)
                 THEN index[i] + 1 ELSE index[i]]

RemovedAs(s, r, k) ==
  /\ r = Rem(s, sz, k)
  /\ index' = [i \in Attached |-> IF index[i] >= k THEN index[i] - 1 ELSE index[i]]

Moves(s, r) ==
  \/ \E x \in Links : InsertedAs(s, r, 0, x, Attached) \/ InsertedAs(s, r, sz, x, {})
  \/ \E i \in Attached, x \in Links :
        InsertedAs(s, r, index[i], x, {i}) \/ InsertedAs(s, r, index[i], x, Attached \ {i})
  \/ \E k \in 1 .. sz : RemovedAs(s, r, k)
  \/ /\ r = s
     /\ \E i \in Iters, k \in 0 .. sz :
           index' = [j \in Attached \cup {i} |-> IF j = i THEN k ELSE index[j]]
  \/ r = s /\ \E i \in Iters : index' = [j \in Attached \ {i} |-> index[j]]
  \/ index' = [i \in Attached |-> 0] \/ index' = <<>>

Follows(s) == \E r : Stand(r)' /\ Moves(s, r)

LEMMA PlaceFacts ==
  ASSUME NEW s, Stand(s)
  PROVE  /\ InRing(s) /\ Standing(s) /\ sz \in Nat /\ s \in [1 .. sz -> Links]
         /\ \A i \in Attached : /\ i \in Iters /\ index[i] \in 0 .. sz /\ index[i] \in Nat
                                /\ index[i] = 0 => pred[i] = t
                                /\ index[i] > 0 => pred[i] = s[index[i]] /\ index[i] \in 1 .. sz
                                /\ pred[i] = NoLink <=> sz = 0
<1>1. InRing(s) /\ Standing(s) /\ sz \in Nat /\ s \in [1 .. sz -> Links]
  BY DEF Stand, InRing
<1>2. ASSUME NEW i \in Attached
      PROVE  /\ i \in Iters /\ index[i] \in 0 .. sz /\ index[i] \in Nat
             /\ index[i] = 0 => pred[i] = t
             /\ index[i] > 0 => pred[i] = s[index[i]] /\ index[i] \in 1 .. sz
  <2>1. i \in Iters /\ index[i] \in 0 .. sz /\ pred[i] = Before(s, index[i])
    BY <1>1 DEF Standing
  <2> QED  BY <1>1, <2>1 DEF Before
<1>3. ASSUME NEW i \in Attached PROVE pred[i] = NoLink <=> sz = 0
  <2>1. CASE index[i] = 0
    BY <1>1, <1>2, <2>1, RingFacts
  <2>2. CASE index[i] > 0
    <3>1. index[i] \in 1 .. sz /\ pred[i] = s[index[i]] /\ sz # 0
      BY <1>1, <1>2, <2>2
    <3>2. s[index[i]] # NoLink
      BY ZenonT(60), <1>1, <3>1, RingFacts
    <3> QED  BY <3>1, <3>2
  <2> QED  BY <1>1, <1>2, <2>1, <2>2
<1> QED  BY <1>1, <1>2, <1>3

LEMMA StandFacts ==
  ASSUME NEW s, Stand(s)
  PROVE  /\ sz \in Nat
         /\ sz = 0 => t = NoLink
         /\ \A k \in 1 .. sz : /\ s[k] \in Links /\ s[k] # NoLink
                               /\ nxt[s[k]] = s[Succ(sz, k)] /\ prv[s[k]] = s[Pre(sz, k)]
                               /\ Succ(sz, k) \in 1 .. sz /\ Pre(sz, k) \in 1 .. sz
         /\ sz # 0 => t = s[sz] /\ t # NoLink /\ t \in Links /\ sz \in 1 .. sz
<1>1. InRing(s)
  BY DEF Stand
<1> QED  BY <1>1, RingFacts

LEMMA StandsInserted ==
  ASSUME NEW s, Stand(s), NEW k \in 0 .. sz, NEW x \in NewLinks, NEW F,
         LinkBehind(Before(s, k), x), t' = IF k = sz THEN x ELSE t, sz' = sz + 1,
         NEW r, InsertedAs(s, r, k, x, F),
         DOMAIN pred' = Attached,
         \A i \in Attached :
            pred'[i] = IF index'[i] = 0 THEN t' ELSE r[index'[i]]
  PROVE  Stand(r)'
<1>1. InRing(r)'
  BY PlaceFacts, RingInserts DEF InsertedAs
<1>2. DOMAIN index' = Attached /\ Attached \in SUBSET Iters
  BY PlaceFacts DEF InsertedAs, Standing
<1>3. \A i \in Attached : index'[i] \in 0 .. sz'
  <2> SUFFICES ASSUME NEW i \in Attached PROVE index'[i] \in 0 .. sz'
    OBVIOUS
  <2>1. index[i] \in 0 .. sz /\ sz \in Nat
    BY PlaceFacts
  <2>2. index'[i] = index[i] + 1 \/ index'[i] = index[i]
    BY DEF InsertedAs
  <2> QED  BY <2>1, <2>2
<1>4. index' \in [Attached -> 0 .. sz']
  BY <1>3 DEF InsertedAs
<1>5. Standing(r)'
  BY <1>2, <1>4 DEF Standing, Before, Attached
<1> QED  BY <1>1, <1>5 DEF Stand

LEMMA StandsRemoved ==
  ASSUME NEW s, Stand(s), NEW k \in 1 .. sz,
         LinkOut(s[k]), t' = TailWithout(s[k]),
         NEW r, RemovedAs(s, r, k),
         DOMAIN pred' = Attached,
         \A i \in Attached :
            pred'[i] = IF index'[i] = 0 THEN t' ELSE r[index'[i]]
  PROVE  Stand(r)'
<1>1. InRing(r)'
  BY PlaceFacts, RingRemoves DEF RemovedAs
<1>2. DOMAIN index' = Attached /\ Attached \in SUBSET Iters
  BY PlaceFacts DEF RemovedAs, Standing
<1>3. \A i \in Attached : index'[i] \in 0 .. sz'
  <2> SUFFICES ASSUME NEW i \in Attached PROVE index'[i] \in 0 .. sz'
    OBVIOUS
  <2>1. index[i] \in 0 .. sz /\ sz \in Nat /\ sz' = sz - 1
    BY PlaceFacts DEF LinkOut
  <2>2. index'[i] = IF index[i] >= k THEN index[i] - 1 ELSE index[i]
    BY DEF RemovedAs
  <2> QED  BY <2>1, <2>2
<1>4. index' \in [Attached -> 0 .. sz']
  BY <1>3 DEF RemovedAs
<1>5. Standing(r)'
  BY <1>2, <1>4 DEF Standing, Before, Attached
<1> QED  BY <1>1, <1>5 DEF Stand

\* Where the items are afterwards.
LEMMA InsertedItems ==
  ASSUME NEW s, Stand(s), NEW k \in 0 .. sz, NEW x \in NewLinks, NEW r, r = Ins(s, sz, k, x)
  PROVE  /\ r[k + 1] = x
         /\ \A j \in 1 .. k : r[j] = s[j]
         /\ \A j \in k + 1 .. sz : r[j + 1] = s[j]
<1>1. sz \in Nat /\ s \in [1 .. sz -> Links] /\ x \in Links
  BY PlaceFacts DEF NewLinks
<1>2. Grown(r, s, sz, k, x)
  BY <1>1, InsFacts
<1> QED  BY <1>2 DEF Grown

LEMMA UngetMoves ==
  ASSUME NEW s, Stand(s), NEW x \in NewLinks, Unget(x)
  PROVE  Follows(s)
<1>1. PICK r : r = Ins(s, sz, 0, x)
  OBVIOUS
<1>2. sz \in Nat /\ (t = NoLink <=> sz = 0) /\ x \in Links /\ 0 \in 0 .. sz
  BY PlaceFacts, StandFacts DEF NewLinks
<1>3. /\ index' = [i \in Attached |-> IF sz = 0 THEN 1 ELSE index[i] + 1]
      /\ pred' = [i \in Attached |-> IF sz = 0 \/ index[i] = 0 THEN x ELSE pred[i]]
      /\ LinkBehind(Before(s, 0), x) /\ sz' = sz + 1
      /\ t' = IF 0 = sz THEN x ELSE t
  BY <1>2 DEF Unget, Update, Before
<1>4. \A i \in Attached : /\ index'[i] = index[i] + 1
                          /\ index[i] \in 0 .. sz
                          /\ pred'[i] = IF index[i] = 0 THEN x ELSE pred[i]
  BY <1>2, <1>3, PlaceFacts
<1>5. InsertedAs(s, r, 0, x, Attached)
  <2>1. \A i \in Attached : (IF sz = 0 THEN 1 ELSE index[i] + 1)
             = IF index[i] > 0 \/ (index[i] = 0 /\ i \in Attached) THEN index[i] + 1 ELSE index[i]
    BY <1>2, PlaceFacts
  <2> QED  BY <1>1, <1>3, <2>1 DEF InsertedAs
<1>6. ASSUME NEW i \in Attached
      PROVE  pred'[i] = IF index'[i] = 0 THEN t' ELSE r[index'[i]]
  <2>1. r[0 + 1] = x /\ \A j \in 0 + 1 .. sz : r[j + 1] = s[j]
    BY <1>1, <1>2, InsertedItems
  <2>2. CASE index[i] = 0
    BY <1>4, <2>1, <2>2
  <2>3. CASE index[i] > 0
    <3>1. pred[i] = s[index[i]] /\ index[i] \in 0 + 1 .. sz
      BY <1>2, <2>3, PlaceFacts
    <3> QED  BY <1>2, <1>4, <2>1, <2>3, <3>1
  <2> QED  BY <1>2, <1>4, <2>2, <2>3
<1>7. Stand(r)'
  BY <1>2, <1>3, <1>5, <1>6, StandsInserted
<1> QED  BY <1>2, <1>5, <1>7 DEF Follows, Moves

LEMMA PutMoves ==
  ASSUME NEW s, Stand(s), NEW x \in NewLinks, PutBehind(x)
  PROVE  Follows(s)
<1>1. PICK r : r = Ins(s, sz, sz, x)
  OBVIOUS
<1>2. sz \in Nat /\ x \in Links /\ sz \in 0 .. sz
  BY PlaceFacts DEF NewLinks
<1>3. /\ index' = [i \in Attached |-> index[i]]
      /\ pred' = [i \in Attached |-> IF index[i] = 0 THEN x ELSE pred[i]]
      /\ LinkBehind(Before(s, sz), x) /\ sz' = sz + 1
      /\ t' = IF sz = sz THEN x ELSE t
  <2>1. Before(s, sz) = t
    BY PlaceFacts, StandFacts DEF Before
  <2> QED  BY <2>1 DEF PutBehind, Update
<1>4. \A i \in Attached : index'[i] = index[i] /\ index[i] \in 0 .. sz
  BY <1>3, PlaceFacts
<1>5. InsertedAs(s, r, sz, x, {})
  <2>1. \A i \in Attached :
             index[i] = IF index[i] > sz \/ (index[i] = sz /\ i \in {}) THEN index[i] + 1 ELSE index[i]
    BY <1>2, PlaceFacts
  <2> QED  BY <1>1, <1>3, <2>1 DEF InsertedAs
<1>6. ASSUME NEW i \in Attached
      PROVE  pred'[i] = IF index'[i] = 0 THEN t' ELSE r[index'[i]]
  <2>1. \A j \in 1 .. sz : r[j] = s[j]
    BY <1>1, <1>2, InsertedItems
  <2>2. CASE index[i] = 0
    BY <1>3, <1>4, <2>2
  <2>3. CASE index[i] > 0
    <3>1. pred[i] = s[index[i]] /\ index[i] \in 1 .. sz
      BY <1>2, <2>3, PlaceFacts
    <3> QED  BY <1>3, <1>4, <2>1, <2>3, <3>1
  <2> QED  BY <1>2, <1>4, <2>2, <2>3
<1>7. Stand(r)'
  BY <1>2, <1>3, <1>5, <1>6, StandsInserted
<1> QED  BY <1>2, <1>5, <1>7 DEF Follows, Moves

LEMMA InsertPrevMoves ==
  ASSUME NEW s, Stand(s), NEW i \in Attached, NEW x \in NewLinks,
         RashLists = {}, InsertPrev(i, x)
  PROVE  Follows(s)
<1>1. PICK k : k = index[i]
  OBVIOUS
<1>2. PICK r : r = Ins(s, sz, k, x)
  OBVIOUS
<1>3. /\ sz \in Nat /\ x \in Links /\ k \in 0 .. sz /\ i \in Iters /\ k \in Nat
      /\ pred[i] = Before(s, k)
      /\ pred[i] = NoLink <=> sz = 0
  BY <1>1, PlaceFacts DEF NewLinks, Standing
<1>4. /\ index' = [j \in Attached |-> IF j = i \/ (pred[i] # NoLink /\ index[i] < index[j])
                                      THEN index[j] + 1 ELSE index[j]]
      /\ pred' = [j \in Attached |-> IF j = i \/ pred[i] = NoLink THEN x ELSE pred[j]]
      /\ LinkBehind(Before(s, k), x) /\ sz' = sz + 1
      /\ t' = IF k = sz THEN x ELSE t
  BY <1>1, <1>3 DEF InsertPrev, Update, AtEnd
<1>5. \A j \in Attached : /\ index'[j] = IF j = i \/ index[j] > k THEN index[j] + 1 ELSE index[j]
                          /\ pred'[j] = IF j = i \/ sz = 0 THEN x ELSE pred[j]
                          /\ index[j] \in 0 .. sz
  <2> SUFFICES ASSUME NEW j \in Attached
               PROVE  /\ index'[j] = IF j = i \/ index[j] > k THEN index[j] + 1 ELSE index[j]
                      /\ pred'[j] = IF j = i \/ sz = 0 THEN x ELSE pred[j]
                      /\ index[j] \in 0 .. sz
    OBVIOUS
  <2>1. index[j] \in 0 .. sz
    BY PlaceFacts
  <2>2. (pred[i] # NoLink /\ index[i] < index[j]) <=> index[j] > k
    BY <1>1, <1>3, <2>1
  <2> QED  BY <1>3, <1>4, <2>1, <2>2
<1>6. InsertedAs(s, r, k, x, {i})
  <2>1. \A j \in Attached :
             index'[j] = IF index[j] > k \/ (index[j] = k /\ j \in {i}) THEN index[j] + 1 ELSE index[j]
    BY <1>1, <1>3, <1>5
  <2>2. index' = [j \in Attached |-> index'[j]]
    BY <1>4
  <2> QED  BY <1>2, <2>1, <2>2 DEF InsertedAs
<1>7. ASSUME NEW j \in Attached
      PROVE  pred'[j] = IF index'[j] = 0 THEN t' ELSE r[index'[j]]
  <2>1. r[k + 1] = x /\ (\A m \in 1 .. k : r[m] = s[m]) /\ \A m \in k + 1 .. sz : r[m + 1] = s[m]
    BY <1>2, <1>3, InsertedItems
  <2>2. CASE j = i
    BY <1>1, <1>3, <1>5, <2>1, <2>2
  <2>3. CASE j # i /\ index[j] > k
    <3>1. pred[j] = s[index[j]] /\ index[j] \in k + 1 .. sz /\ sz # 0
      BY <1>3, <1>5, <2>3, PlaceFacts
    <3> QED  BY <1>3, <1>5, <2>1, <2>3, <3>1
  <2>4. CASE j # i /\ index[j] <= k /\ index[j] > 0
    <3>1. pred[j] = s[index[j]] /\ index[j] \in 1 .. k /\ sz # 0
      BY <1>3, <1>5, <2>4, PlaceFacts
    <3> QED  BY <1>3, <1>5, <2>1, <2>4, <3>1
  <2>5. CASE j # i /\ index[j] = 0
    <3>1. index'[j] = 0 /\ pred[j] = t
      BY <1>3, <1>5, <2>5, PlaceFacts
    <3>2. CASE sz = 0
      BY <1>3, <1>4, <1>5, <3>1, <3>2
    <3>3. CASE sz # 0
      <4>1. k # sz
        BY <1>1, <1>3, <2>5, <3>3 DEF InsertPrev, NobodyMisled, AtEnd
      <4> QED  BY <1>4, <1>5, <2>5, <3>1, <3>3, <4>1
    <3> QED  BY <3>2, <3>3
  <2> QED  BY <1>3, <1>5, <2>2, <2>3, <2>4, <2>5
<1>8. Stand(r)'
  BY <1>3, <1>4, <1>6, <1>7, StandsInserted
<1> QED  BY <1>1, <1>3, <1>6, <1>8 DEF Follows, Moves

LEMMA InsertNextMoves ==
  ASSUME NEW s, Stand(s), NEW i \in Attached, NEW x \in NewLinks, InsertNext(i, x)
  PROVE  Follows(s)
<1>1. PICK k : k = index[i]
  OBVIOUS
<1>2. PICK r : r = Ins(s, sz, k, x)
  OBVIOUS
<1>3. /\ sz \in Nat /\ x \in Links /\ k \in 0 .. sz /\ i \in Iters /\ k \in Nat
      /\ pred[i] = Before(s, k)
      /\ pred[i] = NoLink <=> sz = 0
  BY <1>1, PlaceFacts DEF NewLinks, Standing
<1>4. /\ index' = [j \in Attached |-> IF j # i /\ index[j] >= index[i] THEN index[j] + 1 ELSE index[j]]
      /\ pred' = [j \in Attached |-> IF (j # i /\ Overtakes(i, j)) \/ (j = i /\ pred[i] = NoLink)
                                     THEN x ELSE pred[j]]
      /\ LinkBehind(Before(s, k), x) /\ sz' = sz + 1
      /\ t' = IF k = sz THEN x ELSE t
  BY <1>1, <1>3 DEF InsertNext, Update, AtEnd
<1>5. \A j \in Attached :
         /\ index'[j] = IF j # i /\ index[j] >= k THEN index[j] + 1 ELSE index[j]
         /\ pred'[j] = IF (j # i /\ (index[j] = k \/ (pred[j] = pred[i] /\ index[j] = 0)))
                          \/ (j = i /\ sz = 0)
                       THEN x ELSE pred[j]
         /\ index[j] \in 0 .. sz
  BY <1>1, <1>3, <1>4, PlaceFacts DEF Overtakes
<1>6. InsertedAs(s, r, k, x, Attached \ {i})
  <2>1. \A j \in Attached :
             index'[j] = IF index[j] > k \/ (index[j] = k /\ j \in Attached \ {i})
                         THEN index[j] + 1 ELSE index[j]
    BY <1>1, <1>3, <1>5
  <2>2. index' = [j \in Attached |-> index'[j]]
    BY <1>4
  <2> QED  BY <1>2, <2>1, <2>2 DEF InsertedAs
<1>7. ASSUME NEW j \in Attached
      PROVE  pred'[j] = IF index'[j] = 0 THEN t' ELSE r[index'[j]]
  <2>1. r[k + 1] = x /\ (\A m \in 1 .. k : r[m] = s[m]) /\ \A m \in k + 1 .. sz : r[m + 1] = s[m]
    BY <1>2, <1>3, InsertedItems
  <2>2. CASE j = i
    <3>1. index'[j] = k /\ pred'[j] = IF sz = 0 THEN x ELSE Before(s, k)
      BY <1>1, <1>3, <1>5, <2>2
    <3>2. CASE k = 0
      BY <1>4, <3>1, <3>2 DEF Before
    <3>3. CASE k > 0
      <4>1. k \in 1 .. k /\ sz # 0 /\ Before(s, k) = s[k] /\ k # 0
        BY <1>3, <3>3 DEF Before
      <4> QED  BY <2>1, <3>1, <4>1
    <3> QED  BY <1>3, <3>2, <3>3
  <2>3. CASE j # i /\ index[j] = k
    BY <1>3, <1>5, <2>1, <2>3
  <2>4. CASE j # i /\ index[j] > k
    <3>1. pred[j] = s[index[j]] /\ index[j] \in k + 1 .. sz /\ index[j] # 0
      BY <1>3, <1>5, <2>4, PlaceFacts
    <3>2. index'[j] = index[j] + 1 /\ pred'[j] = pred[j]
      BY <1>3, <1>5, <2>4, <3>1
    <3> QED  BY <1>3, <2>1, <3>1, <3>2
  <2>5. CASE j # i /\ index[j] < k /\ index[j] > 0
    <3>1. pred[j] = s[index[j]] /\ index[j] \in 1 .. k /\ index[j] # 0
      BY <1>3, <1>5, <2>5, PlaceFacts
    <3>2. index'[j] = index[j] /\ pred'[j] = pred[j]
      BY <1>3, <1>5, <2>5, <3>1
    <3> QED  BY <1>3, <2>1, <3>1, <3>2
  <2>6. CASE j # i /\ index[j] < k /\ index[j] = 0
    <3>1. index'[j] = 0 /\ pred[j] = t /\ sz # 0 /\ k \in 1 .. sz /\ pred[i] = s[k] /\ t = s[sz]
      <4>1. sz # 0 /\ k \in 1 .. sz /\ index[i] > 0
        BY <1>1, <1>3, <2>6
      <4>2. t = s[sz] /\ pred[i] = s[k]
        BY <1>1, <4>1, PlaceFacts, StandFacts
      <4>3. index'[j] = 0 /\ pred[j] = t
        BY <1>3, <1>5, <2>6, PlaceFacts
      <4> QED  BY <4>1, <4>2, <4>3
    <3>2. pred[j] = pred[i] <=> k = sz
      <4>1. sz \in 1 .. sz /\ \A a, b \in 1 .. sz : s[a] = s[b] => a = b
        BY <1>3, <3>1, PlaceFacts DEF InRing
      <4> QED  BY <3>1, <4>1
    <3> QED  BY <1>3, <1>4, <1>5, <2>6, <3>1, <3>2
  <2> QED  BY <1>3, <1>5, <2>2, <2>3, <2>4, <2>5, <2>6
<1>8. Stand(r)'
  BY <1>3, <1>4, <1>6, <1>7, StandsInserted
<1> QED  BY <1>1, <1>3, <1>6, <1>8 DEF Follows, Moves

LEMMA RemovedItems ==
  ASSUME NEW s, Stand(s), NEW k \in 1 .. sz, NEW r, r = Rem(s, sz, k),
         LinkOut(s[k]), t' = TailWithout(s[k])
  PROVE  /\ \A j \in 1 .. k - 1 : r[j] = s[j]
         /\ \A j \in k .. sz - 1 : r[j] = s[j + 1]
         /\ t' = (IF sz = 1 THEN NoLink ELSE r[sz - 1])
         /\ t = s[sz] /\ sz' = sz - 1
         /\ \A a, b \in 1 .. sz : s[a] = s[b] => a = b
<1>1. sz \in Nat /\ sz # 0 /\ InRing(s) /\ s \in [1 .. sz -> Links]
  BY PlaceFacts
<1>2. /\ \A j \in 1 .. k - 1 : r[j] = s[j]
      /\ \A j \in k .. sz - 1 : r[j] = s[j + 1]
  BY <1>1, RemFacts
<1>3. t' = IF sz = 1 THEN NoLink ELSE r[sz - 1]
  BY <1>1, TailGoes
<1>4. t = s[sz] /\ sz' = sz - 1 /\ \A a, b \in 1 .. sz : s[a] = s[b] => a = b
  <2>1. t = s[sz] /\ \A a, b \in 1 .. sz : s[a] = s[b] => a = b
    <3>1. sz > 0
      BY <1>1
    <3> QED  BY <1>1, <3>1, RingFacts
  <2> QED  BY <2>1 DEF LinkOut
<1> QED  BY <1>2, <1>3, <1>4

LEMMA GetMoves ==
  ASSUME NEW s, Stand(s), GetHead
  PROVE  Follows(s)
<1>1. PICK r : r = Rem(s, sz, 1)
  OBVIOUS
<1>2. sz \in Nat /\ sz # 0 /\ 1 \in 1 .. sz /\ nxt[t] = s[1] /\ t = s[sz]
  <2>1. InRing(s) /\ sz \in Nat /\ sz # 0 /\ sz \in 1 .. sz
    BY PlaceFacts, StandFacts DEF GetHead
  <2>2. Succ(sz, sz) = 1
    BY <2>1 DEF Succ
  <2> QED  BY <2>1, <2>2, RingFacts
<1>3. /\ LinkOut(s[1]) /\ t' = TailWithout(s[1])
      /\ index' = [i \in Attached |-> IF index[i] > 0 THEN index[i] - 1 ELSE 0]
      /\ pred' = [i \in Attached |-> IF index[i] <= 1 THEN t' ELSE pred[i]]
  BY <1>2 DEF GetHead, Update
<1>4. RemovedAs(s, r, 1)
  <2>1. \A i \in Attached : (IF index[i] > 0 THEN index[i] - 1 ELSE 0)
                            = IF index[i] >= 1 THEN index[i] - 1 ELSE index[i]
    BY PlaceFacts
  <2> QED  BY <1>1, <1>3, <2>1 DEF RemovedAs
<1>5. ASSUME NEW i \in Attached
      PROVE  pred'[i] = IF index'[i] = 0 THEN t' ELSE r[index'[i]]
  <2>1. \A j \in 1 .. sz - 1 : r[j] = s[j + 1]
    BY <1>1, <1>2, <1>3, RemovedItems
  <2>2. CASE index[i] <= 1
    BY <1>3, <2>2, PlaceFacts
  <2>3. CASE index[i] > 1
    <3>1. /\ pred[i] = s[index[i]] /\ index[i] - 1 \in 1 .. sz - 1 /\ (index[i] - 1) + 1 = index[i]
          /\ index[i] - 1 # 0
      BY <1>2, <2>3, PlaceFacts
    <3>2. index'[i] = index[i] - 1 /\ pred'[i] = pred[i]
      BY <1>2, <1>3, <2>3, PlaceFacts
    <3> QED  BY <2>1, <3>1, <3>2
  <2> QED  BY <1>2, <2>2, <2>3, PlaceFacts
<1>6. DOMAIN pred' = Attached
  BY <1>3
<1>7. Stand(r)'
  BY <1>2, <1>3, <1>4, <1>5, <1>6, StandsRemoved
<1> QED  BY <1>2, <1>4, <1>7 DEF Follows, Moves

LEMMA UnputMoves ==
  ASSUME NEW s, Stand(s), Unput
  PROVE  Follows(s)
<1>1. PICK r : r = Rem(s, sz, sz)
  OBVIOUS
<1>2. sz \in Nat /\ sz # 0 /\ sz \in 1 .. sz /\ t = s[sz]
  BY PlaceFacts, StandFacts DEF Unput
<1>3. /\ LinkOut(s[sz]) /\ t' = TailWithout(s[sz])
      /\ index' = [i \in Attached |-> IF index[i] > sz' THEN index[i] - 1 ELSE index[i]]
      /\ pred' = [i \in Attached |-> IF pred[i] = t THEN t' ELSE pred[i]]
  BY <1>2 DEF Unput, Update
<1>4. /\ \A j \in 1 .. sz - 1 : r[j] = s[j]
      /\ t' = (IF sz = 1 THEN NoLink ELSE r[sz - 1])
      /\ sz' = sz - 1
      /\ \A a, b \in 1 .. sz : s[a] = s[b] => a = b
  BY <1>1, <1>2, <1>3, RemovedItems
<1>5. \A i \in Attached : /\ index'[i] = IF index[i] >= sz THEN index[i] - 1 ELSE index[i]
                          /\ index[i] \in 0 .. sz
  BY <1>2, <1>3, <1>4, PlaceFacts
<1>6. RemovedAs(s, r, sz)
  <2>1. index' = [i \in Attached |-> index'[i]]
    BY <1>3
  <2> QED  BY <1>1, <1>5, <2>1 DEF RemovedAs
<1>7. ASSUME NEW i \in Attached
      PROVE  pred'[i] = IF index'[i] = 0 THEN t' ELSE r[index'[i]]
  <2>1. CASE index[i] = 0
    BY <1>2, <1>3, <1>5, <2>1, PlaceFacts
  <2>2. CASE index[i] = sz
    <3>1. pred'[i] = t' /\ index'[i] = sz - 1
      BY <1>2, <1>3, <1>5, <2>2, PlaceFacts
    <3> QED  BY <1>2, <1>4, <3>1
  <2>3. CASE index[i] # 0 /\ index[i] # sz
    <3>1. pred[i] = s[index[i]] /\ index[i] \in 1 .. sz - 1 /\ index[i] \in 1 .. sz
      BY <1>2, <2>3, PlaceFacts
    <3>2. pred[i] # t
      BY <1>2, <1>4, <2>3, <3>1
    <3>3. index'[i] = index[i] /\ pred'[i] = pred[i]
      BY <1>2, <1>3, <1>5, <2>3, <3>1, <3>2
    <3> QED  BY <1>4, <2>3, <3>1, <3>3
  <2> QED  BY <2>1, <2>2, <2>3
<1>8. DOMAIN pred' = Attached
  BY <1>3
<1>9. Stand(r)'
  BY <1>2, <1>3, <1>6, <1>7, <1>8, StandsRemoved
<1> QED  BY <1>2, <1>6, <1>9 DEF Follows, Moves

LEMMA RemovingMoves ==
  ASSUME NEW s, Stand(s), NEW k \in 1 .. sz, LinkOut(s[k]), t' = TailWithout(s[k]),
         index' = [j \in Attached |-> IF sz = 1 THEN 0
                                      ELSE IF index[j] >= k THEN index[j] - 1 ELSE index[j]],
         pred' = [j \in Attached |-> IF sz = 1 THEN NoLink
                                     ELSE IF pred[j] = s[k] THEN prv[s[k]] ELSE pred[j]]
  PROVE  Follows(s)
<1>1. PICK r : r = Rem(s, sz, k)
  OBVIOUS
<1>2. /\ sz \in Nat /\ sz # 0 /\ sz \in 1 .. sz
      /\ prv[s[k]] = s[Pre(sz, k)]
  <2>1. sz \in Nat /\ sz # 0 /\ sz \in 1 .. sz
    BY PlaceFacts
  <2> QED  BY <2>1, StandFacts
<1>3. /\ \A j \in 1 .. k - 1 : r[j] = s[j]
      /\ \A j \in k .. sz - 1 : r[j] = s[j + 1]
      /\ t' = (IF sz = 1 THEN NoLink ELSE r[sz - 1])
      /\ t = s[sz] /\ sz' = sz - 1
      /\ \A a, b \in 1 .. sz : s[a] = s[b] => a = b
  BY <1>1, RemovedItems
<1>4. \A j \in Attached : /\ index'[j] = IF index[j] >= k THEN index[j] - 1 ELSE index[j]
                          /\ index[j] \in 0 .. sz
  <2> SUFFICES ASSUME NEW j \in Attached
               PROVE  /\ index'[j] = IF index[j] >= k THEN index[j] - 1 ELSE index[j]
                      /\ index[j] \in 0 .. sz
    OBVIOUS
  <2>1. index[j] \in 0 .. sz
    BY PlaceFacts
  <2>2. CASE sz = 1
    BY <2>1, <2>2
  <2>3. CASE sz # 1
    BY <2>1, <2>3
  <2> QED  BY <2>2, <2>3
<1>5. RemovedAs(s, r, k)
  <2>1. index' = [i \in Attached |-> index'[i]]
    OBVIOUS
  <2> QED  BY <1>1, <1>4, <2>1 DEF RemovedAs
<1>6. ASSUME NEW j \in Attached
      PROVE  pred'[j] = IF index'[j] = 0 THEN t' ELSE r[index'[j]]
  <2>1. CASE sz = 1
    BY <1>3, <2>1
  <2>2. CASE sz # 1
    <3>1. pred'[j] = IF pred[j] = s[k] THEN prv[s[k]] ELSE pred[j]
      BY <2>2
    <3>2. CASE index[j] = k
      <4>1. pred'[j] = s[Pre(sz, k)] /\ index'[j] = k - 1
        BY <1>2, <1>4, <3>1, <3>2, PlaceFacts
      <4>2. CASE k = 1
        <5>1. Pre(sz, k) = sz /\ sz - 1 \in k .. sz - 1 /\ (sz - 1) + 1 = sz
          BY <1>2, <2>2, <4>2 DEF Pre
        <5> QED  BY <1>3, <2>2, <4>1, <4>2, <5>1
      <4>3. CASE k # 1
        <5>1. Pre(sz, k) = k - 1 /\ k - 1 \in 1 .. k - 1 /\ k - 1 # 0
          BY <4>3 DEF Pre
        <5> QED  BY <1>3, <4>1, <5>1
      <4> QED  BY <4>2, <4>3
    <3>3. CASE index[j] = 0
      <4>1. pred[j] = s[sz] /\ index'[j] = 0
        BY <1>3, <1>4, <3>3, PlaceFacts
      <4>2. CASE k = sz
        <5>1. Pre(sz, k) = sz - 1 /\ sz - 1 \in 1 .. k - 1
          BY <1>2, <2>2, <4>2 DEF Pre
        <5> QED  BY <1>2, <1>3, <2>2, <3>1, <4>1, <4>2, <5>1
      <4>3. CASE k # sz
        <5>1. sz - 1 \in k .. sz - 1 /\ (sz - 1) + 1 = sz
          BY <1>2, <4>3
        <5>2. pred[j] # s[k]
          BY <1>2, <1>3, <4>1, <4>3
        <5> QED  BY <1>3, <2>2, <3>1, <4>1, <5>1, <5>2
      <4> QED  BY <4>2, <4>3
    <3>4. CASE index[j] # k /\ index[j] # 0
      <4>1. pred[j] = s[index[j]] /\ index[j] \in 1 .. sz
        BY <3>4, PlaceFacts
      <4>2. pred'[j] = s[index[j]]
        BY <1>3, <3>1, <3>4, <4>1
      <4>3. CASE index[j] < k
        <5>1. index'[j] = index[j] /\ index[j] \in 1 .. k - 1
          BY <1>4, <4>1, <4>3
        <5> QED  BY <1>3, <3>4, <4>2, <5>1
      <4>4. CASE index[j] > k
        <5>1. /\ index'[j] = index[j] - 1 /\ index[j] - 1 \in k .. sz - 1 /\ index[j] - 1 # 0
              /\ (index[j] - 1) + 1 = index[j]
          <6>1. /\ index[j] - 1 \in k .. sz - 1 /\ index[j] - 1 # 0 /\ (index[j] - 1) + 1 = index[j]
                /\ index[j] >= k
            BY <1>2, <4>1, <4>4
          <6> QED  BY <1>4, <6>1
        <5> QED  BY <1>3, <4>2, <5>1
      <4> QED  BY <3>4, <4>1, <4>3, <4>4
    <3> QED  BY <3>2, <3>3, <3>4
  <2> QED  BY <2>1, <2>2
<1>7. DOMAIN pred' = Attached
  OBVIOUS
<1>8. Stand(r)'
  BY <1>5, <1>6, <1>7, StandsRemoved
<1> QED  BY <1>5, <1>8 DEF Follows, Moves

LEMMA RemovePrevMoves ==
  ASSUME NEW s, Stand(s), NEW i \in Attached, RemovePrev(i)
  PROVE  Follows(s)
<1>1. PICK k : k = index[i]
  OBVIOUS
<1>2. k \in 1 .. sz /\ pred[i] = s[k]
  BY <1>1, PlaceFacts DEF RemovePrev
<1>3. /\ LinkOut(s[k]) /\ t' = TailWithout(s[k])
      /\ index' = [j \in Attached |-> IF sz = 1 THEN 0
                                      ELSE IF index[j] >= k THEN index[j] - 1 ELSE index[j]]
      /\ pred' = [j \in Attached |-> IF sz = 1 THEN NoLink
                                     ELSE IF pred[j] = s[k] THEN prv[s[k]] ELSE pred[j]]
  BY <1>1, <1>2 DEF RemovePrev, Removing, Update
<1> QED  BY <1>2, <1>3, RemovingMoves

LEMMA NextIs ==
  ASSUME NEW s, Stand(s), NEW i \in Attached, index[i] # sz
  PROVE  index[i] + 1 \in 1 .. sz /\ nxt[pred[i]] = s[index[i] + 1]
<1>1. sz \in Nat /\ index[i] \in 0 .. sz /\ index[i] + 1 \in 1 .. sz /\ sz \in 1 .. sz /\ InRing(s)
  BY PlaceFacts
<1>2. CASE index[i] = 0
  <2>1. pred[i] = s[sz] /\ Succ(sz, sz) = 1
    BY <1>1, <1>2, PlaceFacts, StandFacts DEF Succ
  <2> QED  BY <1>1, <1>2, <2>1, RingFacts
<1>3. CASE index[i] # 0
  <2>1. pred[i] = s[index[i]] /\ index[i] \in 1 .. sz /\ Succ(sz, index[i]) = index[i] + 1
    BY <1>1, <1>3, PlaceFacts DEF Succ
  <2> QED  BY <1>1, <2>1, RingFacts
<1> QED  BY <1>2, <1>3

LEMMA RemoveNextMoves ==
  ASSUME NEW s, Stand(s), NEW i \in Attached, RemoveNext(i)
  PROVE  Follows(s)
<1>1. PICK k : k = index[i] + 1
  OBVIOUS
<1>2. k \in 1 .. sz /\ nxt[pred[i]] = s[k]
  BY <1>1, NextIs DEF RemoveNext, AtEnd
<1>3. \A j \in Attached : index[j] > index[i] <=> index[j] >= k
  BY <1>1, PlaceFacts
<1>4. /\ LinkOut(s[k]) /\ t' = TailWithout(s[k])
      /\ index' = [j \in Attached |-> IF sz = 1 THEN 0
                                      ELSE IF index[j] > index[i] THEN index[j] - 1 ELSE index[j]]
      /\ pred' = [j \in Attached |-> IF sz = 1 THEN NoLink
                                     ELSE IF pred[j] = s[k] THEN prv[s[k]] ELSE pred[j]]
  BY <1>2 DEF RemoveNext, Removing, Update
<1>5. index' = [j \in Attached |-> IF sz = 1 THEN 0
                                   ELSE IF index[j] >= k THEN index[j] - 1 ELSE index[j]]
  BY <1>3, <1>4
<1> QED  BY <1>2, <1>4, <1>5, RemovingMoves

-----------------------------------------------------------------------------
(* Calls that leave the links alone, and those that replace them all.      *)

LEMMA RingStays ==
  ASSUME NEW s, InRing(s), UNCHANGED <<nxt, prv, t, sz>>
  PROVE  InRing(s)'
BY DEF InRing

LEMMA StandsMoves ==
  ASSUME NEW s, Stand(s), NEW i \in Iters, NEW k \in 0 .. sz, NEW p, p = Before(s, k),
         Stands(i, k, p)
  PROVE  Follows(s)
<1>1. /\ index' = [j \in Attached \cup {i} |-> IF j = i THEN k ELSE index[j]]
      /\ pred' = [j \in Attached \cup {i} |-> IF j = i THEN p ELSE pred[j]]
      /\ UNCHANGED <<nxt, prv, t, sz>>
  BY DEF Stands
<1>2. InRing(s)'
  BY <1>1, PlaceFacts, RingStays
<1>3. Attached \in SUBSET Iters /\ \A j \in Attached : index[j] \in 0 .. sz /\ pred[j] = Before(s, index[j])
  BY PlaceFacts DEF Standing
<1>4. Standing(s)'
  <2>1. /\ DOMAIN index' = Attached \cup {i} /\ DOMAIN pred' = DOMAIN index'
        /\ DOMAIN index' \in SUBSET Iters
    BY <1>1, <1>3
  <2>2. \A j \in Attached \cup {i} :
           /\ index'[j] \in 0 .. sz'
           /\ pred'[j] = IF index'[j] = 0 THEN t' ELSE s[index'[j]]
    BY <1>1, <1>3 DEF Before
  <2>3. index' \in [Attached \cup {i} -> 0 .. sz']
    BY <1>1, <2>2
  <2> QED  BY <2>1, <2>2, <2>3 DEF Standing, Before, Attached
<1> QED  BY <1>1, <1>2, <1>4 DEF Follows, Moves, Stand

LEMMA NewMoves ==
  ASSUME NEW s, Stand(s), NEW i \in Iters, NewIter(i)
  PROVE  Follows(s)
<1>1. 0 \in 0 .. sz /\ t = Before(s, 0) /\ Stands(i, 0, t)
  BY PlaceFacts DEF NewIter, Before
<1> QED  BY <1>1, StandsMoves

LEMMA CopyMoves ==
  ASSUME NEW s, Stand(s), NEW i \in Iters, NEW j \in Iters, CopyIter(i, j)
  PROVE  Follows(s)
<1>1. /\ j \in Attached /\ index[j] \in 0 .. sz /\ pred[j] = Before(s, index[j])
      /\ Stands(i, index[j], pred[j])
  BY PlaceFacts DEF CopyIter, Standing
<1> QED  BY <1>1, StandsMoves

LEMMA GetAtIs ==
  ASSUME NEW s, Stand(s), NEW k \in 1 .. sz - 1
  PROVE  GetAt(k - 1) = s[k]
<1>1. sz \in Nat /\ InRing(s)
  BY PlaceFacts
<1>2. Forward[k] = s[k]
  <2>1. k \in 0 .. sz /\ k # 0
    BY <1>1
  <2> QED  BY <1>1, <2>1, ForwardIs DEF Before
<1>3. Backward[sz - k] = s[k]
  <2>1. sz - k \in 0 .. sz /\ sz - k # sz /\ sz - (sz - k) = k
    BY <1>1
  <2> QED  BY <1>1, <2>1, BackwardIs DEF Behind
<1>4. (k - 1) + 1 = k /\ sz - (k - 1) - 1 = sz - k
  BY <1>1
<1> QED  BY <1>2, <1>3, <1>4 DEF GetAt

LEMMA ResetMoves ==
  ASSUME NEW s, Stand(s), NEW i \in Iters, NEW k \in 0 .. sz, Reset(i, k)
  PROVE  Follows(s)
<1>1. PICK p : p = IF k \in {0, sz} THEN t ELSE GetAt(k - 1)
  OBVIOUS
<1>2. p = Before(s, k)
  <2>1. CASE k = 0
    BY <1>1, <2>1 DEF Before
  <2>2. CASE k # 0 /\ k = sz
    BY <1>1, <2>2, PlaceFacts, StandFacts DEF Before
  <2>3. CASE k # 0 /\ k # sz
    <3>1. k \in 1 .. sz - 1
      BY <2>3, PlaceFacts
    <3> QED  BY <1>1, <2>3, <3>1, GetAtIs DEF Before
  <2> QED  BY <2>1, <2>2, <2>3
<1>3. Stands(i, k, p)
  BY <1>1 DEF Reset
<1> QED  BY <1>2, <1>3, StandsMoves

LEMMA StepNextMoves ==
  ASSUME NEW s, Stand(s), NEW i \in Iters, StepNext(i)
  PROVE  Follows(s)
<1>1. i \in Attached /\ index[i] # sz /\ Stands(i, index[i] + 1, nxt[pred[i]])
  BY DEF StepNext, AtEnd
<1>2. index[i] + 1 \in 1 .. sz /\ nxt[pred[i]] = s[index[i] + 1]
  BY <1>1, NextIs
<1>3. index[i] + 1 \in 0 .. sz /\ nxt[pred[i]] = Before(s, index[i] + 1)
  BY <1>2, PlaceFacts DEF Before
<1> QED  BY <1>1, <1>3, StandsMoves

LEMMA StepPrevMoves ==
  ASSUME NEW s, Stand(s), NEW i \in Iters, StepPrev(i)
  PROVE  Follows(s)
<1>1. i \in Attached /\ index[i] # 0 /\ Stands(i, index[i] - 1, prv[pred[i]])
  BY DEF StepPrev
<1>2. /\ sz \in Nat /\ index[i] \in 1 .. sz /\ pred[i] = s[index[i]] /\ t = s[sz]
      /\ prv[s[index[i]]] = s[Pre(sz, index[i])]
  <2>1. sz \in Nat /\ index[i] \in 1 .. sz /\ pred[i] = s[index[i]]
    BY <1>1, PlaceFacts
  <2>2. sz # 0
    BY <2>1
  <2> QED  BY <2>1, <2>2, StandFacts
<1>3. index[i] - 1 \in 0 .. sz /\ prv[pred[i]] = Before(s, index[i] - 1)
  <2>1. CASE index[i] = 1
    BY <1>2, <2>1 DEF Before, Pre
  <2>2. CASE index[i] # 1
    BY <1>2, <2>2 DEF Before, Pre
  <2> QED  BY <2>1, <2>2
<1> QED  BY <1>1, <1>3, StandsMoves

LEMMA DetachMoves ==
  ASSUME NEW s, Stand(s), NEW i \in Iters, Detach(i)
  PROVE  Follows(s)
<1>1. /\ index' = [j \in Attached \ {i} |-> index[j]]
      /\ pred' = [j \in Attached \ {i} |-> pred[j]]
      /\ UNCHANGED <<nxt, prv, t, sz>>
  BY DEF Detach
<1>2. InRing(s)'
  BY <1>1, PlaceFacts, RingStays
<1>3. Attached \in SUBSET Iters /\ \A j \in Attached : index[j] \in 0 .. sz /\ pred[j] = Before(s, index[j])
  BY PlaceFacts DEF Standing
<1>4. Standing(s)'
  BY <1>1, <1>3 DEF Standing, Before, Attached
<1> QED  BY <1>1, <1>2, <1>4 DEF Follows, Moves, Stand

LEMMA AssignMoves ==
  ASSUME NEW s, Stand(s), NEW n \in Nat, NEW r \in Injection(1 .. n, Links), AssignList(r)
  PROVE  Follows(s)
<1>1. r \in [1 .. n -> Links] /\ \A j, m \in 1 .. n : r[j] = r[m] => j = m
  BY DEF Injection, IsInjective
<1>2. InRing(r)'
  BY <1>1, RingMade DEF AssignList
<1>3. index' = [i \in Attached |-> 0] /\ pred' = [i \in Attached |-> t']
  BY DEF AssignList, Update
<1>4. sz' \in Nat /\ Attached \in SUBSET Iters
  BY <1>2, PlaceFacts DEF InRing, Standing
<1>5. Standing(r)'
  BY <1>3, <1>4 DEF Standing, Before, Attached
<1> QED  BY <1>2, <1>3, <1>5 DEF Follows, Moves, Stand

LEMMA RingOfNone ==
  ASSUME RingOf(<<>>)
  PROVE  InRing(<<>>)'
<1>1. /\ 0 \in Nat /\ <<>> \in [1 .. 0 -> Links] /\ \A j, m \in 1 .. 0 : <<>>[j] = <<>>[m] => j = m
  OBVIOUS
<1> QED  BY <1>1, RingMade

LEMMA DeleteMoves ==
  ASSUME NEW s, Stand(s), DeleteList
  PROVE  Follows(s)
<1>1. InRing(<<>>)' /\ index' = <<>> /\ pred' = <<>>
  BY RingOfNone DEF DeleteList
<1>2. Standing(<<>>)'
  BY <1>1 DEF Standing, Attached
<1> QED  BY <1>1, <1>2 DEF Follows, Moves, Stand

LEMMA EmptyMoves ==
  ASSUME NEW s, Stand(s), RashLists = {}, MakeEmpty
  PROVE  Follows(s)
<1>1. InRing(<<>>)' /\ Attached = {} /\ index' = index /\ pred' = pred
  BY RingOfNone DEF MakeEmpty
<1>2. Standing(<<>>)'
  BY <1>1, PlaceFacts DEF Standing, Attached
<1>3. index' = [i \in Attached |-> 0]
  <2>1. index = [i \in Attached |-> index[i]]
    BY PlaceFacts DEF Standing
  <2> QED  BY <1>1, <2>1
<1> QED  BY <1>1, <1>2, <1>3 DEF Follows, Moves, Stand

-----------------------------------------------------------------------------
(* The list and its iterators implement a sequence with cursors.           *)

ListInv == \E s : Stand(s)

LEMMA StartsEmpty == ListInit => Stand(<<>>)
<1> SUFFICES ASSUME ListInit PROVE Stand(<<>>)
  OBVIOUS
<1>1. /\ nxt \in [Links -> Links \cup {NoLink}] /\ prv \in [Links -> Links \cup {NoLink}]
      /\ t = NoLink /\ sz = 0 /\ index = <<>> /\ pred = <<>>
  BY DEF ListInit
<1>2. InRing(<<>>)
  BY <1>1 DEF InRing
<1>3. Standing(<<>>)
  BY <1>1 DEF Standing, Attached
<1> QED  BY <1>2, <1>3 DEF Stand

LEMMA ListFollows ==
  ASSUME NEW s, Stand(s), RashLists = {}, ListNext
  PROVE  Follows(s)
<1>1. CASE ListCalls
  <2>1. Cardinality(Links) \in Nat
    BY FS_CardinalityType, LinksAssumption
  <2>2. CASE \E x \in NewLinks : Unget(x) \/ PutBehind(x)
    BY <2>2, UngetMoves, PutMoves
  <2>3. CASE GetHead
    BY <2>3, GetMoves
  <2>4. CASE Unput
    BY <2>4, UnputMoves
  <2>5. CASE DeleteList
    BY <2>5, DeleteMoves
  <2>6. CASE MakeEmpty
    BY <2>6, EmptyMoves
  <2>7. CASE \E n \in 0 .. Cardinality(Links) : \E r \in Injection(1 .. n, Links) : AssignList(r)
    <3>1. PICK n \in 0 .. Cardinality(Links) : \E r \in Injection(1 .. n, Links) : AssignList(r)
      BY <2>7
    <3>2. PICK r \in Injection(1 .. n, Links) : AssignList(r)
      BY <3>1
    <3>3. n \in Nat
      BY <2>1
    <3> QED  BY <3>2, <3>3, AssignMoves
  <2> QED  BY <1>1, <2>2, <2>3, <2>4, <2>5, <2>6, <2>7 DEF ListCalls
<1>2. CASE IterCalls
  <2>1. PICK i \in Iters :
          \/ NewIter(i) \/ Detach(i)
          \/ StepNext(i) \/ StepPrev(i) \/ RemovePrev(i) \/ RemoveNext(i)
          \/ \E j \in Iters : CopyIter(i, j)
          \/ \E k \in 0..sz : Reset(i, k)
          \/ \E x \in NewLinks : InsertPrev(i, x) \/ InsertNext(i, x)
    BY <1>2 DEF IterCalls
  <2>2. CASE NewIter(i) \/ Detach(i)
    BY <2>2, NewMoves, DetachMoves
  <2>3. CASE StepNext(i) \/ StepPrev(i)
    BY <2>3, StepNextMoves, StepPrevMoves
  <2>4. CASE RemovePrev(i) \/ RemoveNext(i)
    <3>1. i \in Attached
      BY <2>4 DEF RemovePrev, RemoveNext
    <3> QED  BY <2>4, <3>1, RemovePrevMoves, RemoveNextMoves
  <2>5. CASE \E j \in Iters : CopyIter(i, j)
    BY <2>5, CopyMoves
  <2>6. CASE \E k \in 0..sz : Reset(i, k)
    BY <2>6, ResetMoves
  <2>7. CASE \E x \in NewLinks : InsertPrev(i, x) \/ InsertNext(i, x)
    <3>1. PICK x \in NewLinks : InsertPrev(i, x) \/ InsertNext(i, x)
      BY <2>7
    <3>2. i \in Attached
      BY <3>1 DEF InsertPrev, InsertNext
    <3> QED  BY <3>1, <3>2, InsertPrevMoves, InsertNextMoves
  <2> QED  BY <2>1, <2>2, <2>3, <2>4, <2>5, <2>6, <2>7
<1> QED  BY <1>1, <1>2 DEF ListNext

LEMMA ListStays ==
  ASSUME NEW s, Stand(s), UNCHANGED listVars
  PROVE  Stand(s)'
BY DEF Stand, InRing, Standing, Before, Attached, listVars

LEMMA ListInvariant == RashLists = {} => (ListSpec => []ListInv)
<1> SUFFICES ASSUME RashLists = {} PROVE ListSpec => []ListInv
  OBVIOUS
<1>1. ListInit => ListInv
  BY StartsEmpty DEF ListInv
<1>2. ListInv /\ [ListNext]_listVars => ListInv'
  <2> SUFFICES ASSUME ListInv, [ListNext]_listVars PROVE ListInv'
    OBVIOUS
  <2>1. PICK s : Stand(s)
    BY DEF ListInv
  <2>2. CASE ListNext
    <3>1. PICK r : Stand(r)'
      BY <2>1, <2>2, ListFollows DEF Follows
    <3> QED  BY <3>1 DEF ListInv
  <2>3. CASE UNCHANGED listVars
    <3>1. Stand(s)'
      BY <2>1, <2>3, ListStays
    <3> QED  BY <3>1 DEF ListInv
  <2> QED  BY <2>2, <2>3
<1> QED  BY <1>1, <1>2, PTL DEF ListSpec

\* The list and its iterators keep their types in programs that are not rash.
THEOREM ListTypes == RashLists = {} => (ListSpec => []ListTypeOK)
<1>1. ListInv => ListTypeOK
  <2> SUFFICES ASSUME ListInv PROVE ListTypeOK
    OBVIOUS
  <2>1. PICK s : Stand(s)
    BY DEF ListInv
  <2>2. InRing(s) /\ Standing(s) /\ sz \in Nat /\ s \in [1 .. sz -> Links]
    BY <2>1, PlaceFacts
  <2>3. sz \in 0 .. Cardinality(Links)
    <3>1. s \in Injection(1 .. sz, Links)
      BY <2>2 DEF InRing, Injection, IsInjective
    <3>2. Cardinality(1 .. sz) = sz
      BY <2>2, FS_Interval
    <3>3. Cardinality(1 .. sz) <= Cardinality(Links) /\ Cardinality(Links) \in Nat
      BY <3>1, LinksAssumption, FS_Injection, FS_CardinalityType
    <3> QED  BY <2>2, <3>2, <3>3
  <2>4. t \in Links \cup {NoLink}
    BY <2>2, RingFacts
  <2>5. \A i \in Attached : index[i] \in 0 .. sz /\ pred[i] \in Links \cup {NoLink}
    <3> SUFFICES ASSUME NEW i \in Attached
                 PROVE  index[i] \in 0 .. sz /\ pred[i] \in Links \cup {NoLink}
      OBVIOUS
    <3>1. index[i] \in 0 .. sz /\ pred[i] = Before(s, index[i])
      BY <2>2 DEF Standing
    <3> QED  BY <2>2, <2>4, <3>1 DEF Before
  <2> QED  BY <2>2, <2>3, <2>4, <2>5 DEF ListTypeOK, InRing, Standing
<1>2. RashLists = {} => (ListSpec => []ListInv)
  BY ListInvariant
<1> QED  BY <1>1, <1>2, PTL

LEMMA CursorsMove ==
  ASSUME NEW s, Stand(s), NEW r, Stand(r)', Moves(s, r)
  PROVE  Cursors!CursorNext
<1>1. /\ Contents = s /\ Places = index /\ Len(s) = sz /\ s \in Seq(Links)
      /\ Contents' = r /\ Places' = index' /\ r \in Seq(Links)
  <2>1. ListRead /\ ListRead'
    BY ListIsRead, PTL
  <2> QED  BY <2>1 DEF ListRead
<1>2. sz \in Nat /\ s \in [1 .. sz -> Links] /\ \A i \in Attached : i \in Iters /\ index[i] \in 0 .. sz
  BY PlaceFacts
<1>3. Cursors!Len0 = sz /\ Cursors!Cursors = Attached
  BY <1>1 DEF Cursors!Len0, Cursors!Cursors, Attached
<1>4. ASSUME NEW k \in 0 .. sz, NEW x \in Links, NEW F, InsertedAs(s, r, k, x, F)
      PROVE  Cursors!Inserts(k, x, F)
  <2>1. Cursors!InsertedAt(k, x) = r
    BY <1>1, <1>2, <1>3, <1>4, InsertedIs DEF Cursors!InsertedAt, InsertedAs
  <2> QED  BY <1>1, <1>3, <1>4, <2>1 DEF Cursors!Inserts, InsertedAs
<1>5. ASSUME NEW k \in 1 .. sz, RemovedAs(s, r, k)
      PROVE  Cursors!Removes(k)
  <2>1. Cursors!RemovedAt(k) = r
    BY <1>1, <1>2, <1>3, <1>5, RemovedIs DEF Cursors!RemovedAt, RemovedAs
  <2> QED  BY <1>1, <1>3, <1>5, <2>1 DEF Cursors!Removes, RemovedAs
<1>6. CASE \E x \in Links : InsertedAs(s, r, 0, x, Attached) \/ InsertedAs(s, r, sz, x, {})
  <2>1. PICK x \in Links : InsertedAs(s, r, 0, x, Attached) \/ InsertedAs(s, r, sz, x, {})
    BY <1>6
  <2>2. Cursors!Inserts(0, x, Attached) \/ Cursors!Inserts(sz, x, {})
    BY <1>2, <1>4, <2>1
  <2>3. Cursors!AtFront(x) \/ Cursors!AtBack(x)
    BY <1>3, <2>2 DEF Cursors!AtFront, Cursors!AtBack
  <2> QED  BY <2>3 DEF Cursors!CursorNext
<1>7. CASE \E i \in Attached, x \in Links :
             InsertedAs(s, r, index[i], x, {i}) \/ InsertedAs(s, r, index[i], x, Attached \ {i})
  <2>1. PICK i \in Attached, x \in Links :
             InsertedAs(s, r, index[i], x, {i}) \/ InsertedAs(s, r, index[i], x, Attached \ {i})
    BY <1>7
  <2>2. Cursors!Inserts(index[i], x, {i}) \/ Cursors!Inserts(index[i], x, Attached \ {i})
    BY <1>2, <1>4, <2>1
  <2>3. Cursors!BeforeCursor(i, x) \/ Cursors!AfterCursor(i, x)
    BY <1>1, <1>3, <2>2 DEF Cursors!BeforeCursor, Cursors!AfterCursor
  <2> QED  BY <1>2, <2>3 DEF Cursors!CursorNext
<1>8. CASE \E k \in 1 .. sz : RemovedAs(s, r, k)
  BY <1>3, <1>5, <1>8 DEF Cursors!CursorNext
<1>9. CASE /\ r = s
           /\ \E i \in Iters, k \in 0 .. sz :
                 index' = [j \in Attached \cup {i} |-> IF j = i THEN k ELSE index[j]]
  <2>1. PICK i \in Iters, k \in 0 .. sz :
                 index' = [j \in Attached \cup {i} |-> IF j = i THEN k ELSE index[j]]
    BY <1>9
  <2>2. Cursors!Placed(i, k)
    BY <1>1, <1>3, <1>9, <2>1 DEF Cursors!Placed
  <2> QED  BY <1>3, <2>2 DEF Cursors!CursorNext
<1>10. CASE r = s /\ \E i \in Iters : index' = [j \in Attached \ {i} |-> index[j]]
  <2>1. PICK i \in Iters : index' = [j \in Attached \ {i} |-> index[j]]
    BY <1>10
  <2>2. Cursors!Dropped(i)
    BY <1>1, <1>3, <1>10, <2>1 DEF Cursors!Dropped
  <2> QED  BY <2>2 DEF Cursors!CursorNext
<1>11. CASE index' = [i \in Attached |-> 0] \/ index' = <<>>
  <2>1. Cursors!Replaced
    BY <1>1, <1>3, <1>11 DEF Cursors!Replaced
  <2> QED  BY <2>1 DEF Cursors!CursorNext
<1> QED  BY <1>6, <1>7, <1>8, <1>9, <1>10, <1>11 DEF Moves

\* Whatever is put in or taken out, through the list or through one iterator, the
\* list is a sequence and every other iterator stays between the same two items,
\* in programs that are not rash (Lizt_ATTLC and Liztiter_ATTLC in List.c).
THEOREM ListKeepsPlaces == RashLists = {} => (ListSpec => IteratorsKeepTheirPlace)
<1> SUFFICES ASSUME RashLists = {} PROVE ListSpec => IteratorsKeepTheirPlace
  OBVIOUS
<1>1. ListInit => Contents = <<>> /\ Places = <<>>
  <2> SUFFICES ASSUME ListInit PROVE Contents = <<>> /\ Places = <<>>
    OBVIOUS
  <2>1. Stand(<<>>) /\ index = <<>>
    BY StartsEmpty DEF ListInit
  <2> QED  BY <2>1, ListIsRead DEF ListRead
<1>2. ListInv /\ [ListNext]_listVars => [Cursors!CursorNext]_<<Contents, Places>>
  <2> SUFFICES ASSUME ListInv, [ListNext]_listVars
               PROVE  [Cursors!CursorNext]_<<Contents, Places>>
    OBVIOUS
  <2>1. PICK s : Stand(s)
    BY DEF ListInv
  <2>2. CASE ListNext
    <3>1. PICK r : Stand(r)' /\ Moves(s, r)
      BY <2>1, <2>2, ListFollows DEF Follows
    <3> QED  BY <2>1, <3>1, CursorsMove
  <2>3. CASE UNCHANGED listVars
    <3>1. Stand(s)'
      BY <2>1, <2>3, ListStays
    <3>2. ListRead /\ ListRead'
      BY ListIsRead, PTL
    <3>3. index' = index
      BY <2>3 DEF listVars
    <3>4. Contents' = Contents /\ Places' = Places
      BY <2>1, <3>1, <3>2, <3>3 DEF ListRead
    <3> QED  BY <3>4
  <2> QED  BY <2>2, <2>3
<1>3. ListSpec => []ListInv
  BY ListInvariant
<1> QED  BY <1>1, <1>2, <1>3, PTL DEF ListSpec, IteratorsKeepTheirPlace, Cursors!CursorSpec
=============================================================================
