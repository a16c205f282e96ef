--------------------------- MODULE TreeCopyProofs ---------------------------
(***************************************************************************)
(* Proofs about TreeCopy, of any trees, with any number of nodes, fields   *)
(* and walks: a copy leaves the template intact, and if no lists are shared*)
(* it is faithful.                                                         *)
(***************************************************************************)
EXTENDS TreeCopy, SequenceTheorems, TLAPS

-----------------------------------------------------------------------------
(* The invariant of the walk, for any tree.  Frames, patches and the copies*)
(* of lists are at nodes that were made for the instance.                  *)

Cell == [kind : Kinds, child : Seq(Nat), late : Seq(Nat), own : Nat, after : Nat,
         formal : BOOLEAN, made : BOOLEAN, copied : Nat]
FrameType == [at : Nat, i : Nat, last : Nat]

\* A node whose pointers are up to l, copied up to the walk r.
NodeOK(n, l, r) ==
  /\ n \in Cell
  /\ \A j \in DOMAIN n.child : n.child[j] <= l
  /\ \A j \in DOMAIN n.late : n.late[j] <= l
  /\ n.kind \in Lists => Len(n.child) > 0
  /\ n.formal => n.kind = "plain"
  /\ n.copied <= r

NodesInv ==
  /\ tree \in Trees /\ nodes \in Seq(Cell) /\ Len(tree) <= Len(nodes)
  /\ round \in 1..Roots + 1
  /\ \A a \in DOMAIN nodes : NodeOK(nodes[a], Len(nodes), round)
  /\ \A a \in DOMAIN tree : nodes[a].kind = tree[a].kind
  /\ \A a \in DOMAIN tree : IF tree[a].made THEN nodes[a].made ELSE nodes[a] = tree[a]
  /\ \A a \in DOMAIN nodes : a > Len(tree) => nodes[a].made /\ nodes[a].kind \notin {"own", "model"}
  /\ Len(nodes[1].child) = Roots

Maps == UNION {[D -> Nat] : D \in SUBSET Nat}

CorrInv ==
  /\ corr \in Maps
  /\ \A x \in DOMAIN corr :
       /\ x \in DOMAIN nodes /\ corr[x] \in DOMAIN nodes
       /\ nodes[x].kind \in Lists => nodes[corr[x]].kind = nodes[x].kind /\ nodes[corr[x]].made

AtModel(a) == \E m \in DOMAIN corr : nodes[m].kind = "model" /\ nodes[m].own = a

FrameOK(f) ==
  /\ f.at \in DOMAIN nodes /\ nodes[f.at].made
  /\ f.last <= Len(nodes[f.at].child) /\ (f.i = 0 => f.last > 0)
  /\ nodes[f.at].kind = "own" => AtModel(f.at)

FramesInv ==
  /\ frames \in Seq(FrameType)
  /\ \A k \in DOMAIN frames : FrameOK(frames[k])
  /\ \A k \in DOMAIN frames : k < Len(frames) => frames[k].i <= frames[k].last
  /\ frames # <<>> => round <= Roots

PatchInv ==
  /\ patches \in Seq(Nat)
  /\ \A p \in DOMAIN patches : patches[p] \in DOMAIN nodes /\ nodes[patches[p]].made

MapsInv == maps \in Seq(Maps) /\ Len(maps) = round - 1

WalkInv == NodesInv /\ CorrInv /\ FramesInv /\ PatchInv /\ MapsInv

-----------------------------------------------------------------------------
(* Sequences and trees.                                                    *)

LEMMA SeqFacts ==
  ASSUME NEW S, NEW s \in Seq(S)
  PROVE  Len(s) \in Nat /\ DOMAIN s = 1..Len(s) /\ (\A i \in DOMAIN s : s[i] \in S)
         /\ s \in [1..Len(s) -> S] /\ (s = <<>> <=> Len(s) = 0)
BY LenProperties, ElementOfSeq, EmptySeq

LEMMA SeqMonotone ==
  ASSUME NEW S, NEW T, S \subseteq T
  PROVE  Seq(S) \subseteq Seq(T)
<1> SUFFICES ASSUME NEW s \in Seq(S) PROVE s \in Seq(T)
  OBVIOUS
<1>1. Len(s) \in Nat /\ s \in [1..Len(s) -> T]
  BY SeqFacts
<1> QED  BY <1>1, SeqDef

LEMMA FrontFacts ==
  ASSUME NEW S, NEW s \in Seq(S), Len(s) > 0
  PROVE  /\ Front(s) \in Seq(S) /\ Len(Front(s)) = Len(s) - 1
         /\ DOMAIN Front(s) = 1..Len(s) - 1
         /\ \A i \in 1..Len(s) - 1 : Front(s)[i] = s[i]
<1>1. Len(s) \in Nat /\ \A i \in 1..Len(s) : s[i] \in S
  BY SeqFacts
<1>2. Front(s) = [i \in 1..Len(s) - 1 |-> s[i]]
  BY DEF Front
<1>3. Front(s) \in [1..Len(s) - 1 -> S] /\ Len(s) - 1 \in Nat
  BY <1>1, <1>2
<1>4. Front(s) \in Seq(S)
  BY <1>3, SeqDef
<1>5. Len(Front(s)) = Len(s) - 1
  BY <1>3, <1>4, LenProperties
<1> QED  BY <1>2, <1>3, <1>4, <1>5

LEMMA SetItem ==
  ASSUME NEW S, NEW s \in Seq(S), NEW i \in DOMAIN s, NEW v \in S
  PROVE  /\ [s EXCEPT ![i] = v] \in Seq(S) /\ Len([s EXCEPT ![i] = v]) = Len(s)
         /\ DOMAIN [s EXCEPT ![i] = v] = DOMAIN s
         /\ \A j \in DOMAIN s : [s EXCEPT ![i] = v][j] = IF j = i THEN v ELSE s[j]
<1>1. Len(s) \in Nat /\ s \in [1..Len(s) -> S] /\ DOMAIN s = 1..Len(s)
  BY SeqFacts
<1>2. [s EXCEPT ![i] = v] \in [1..Len(s) -> S]
  BY <1>1
<1>3. [s EXCEPT ![i] = v] \in Seq(S)
  BY <1>1, <1>2, SeqDef
<1>4. Len([s EXCEPT ![i] = v]) = Len(s)
  BY <1>1, <1>2, <1>3, LenProperties
<1> QED  BY <1>1, <1>2, <1>3, <1>4

LEMMA TreeFacts ==
  ASSUME tree \in Trees
  PROVE  /\ Roots \in Nat \ {0} /\ MaxNodes \in Nat
         /\ tree \in Seq(Cell) /\ Len(tree) \in Nat /\ Len(tree) >= 1 /\ DOMAIN tree = 1..Len(tree)
         /\ tree[1].kind = "plain" /\ tree[1].made /\ tree[1].own = 0 /\ Len(tree[1].child) = Roots
         /\ \A a \in DOMAIN tree :
              /\ NodeOK(tree[a], Len(tree), 0)
              /\ \A j \in DOMAIN tree[a].child : tree[a].child[j] # 1
              /\ tree[a].own \in 0..Len(tree) \ {1} /\ tree[a].after \in 0..Roots - 1
              /\ tree[a].copied = 0
<1> DEFINE Pointer == 0..Len(tree) \ {1}
<1>1. IsTree(tree) /\ Roots \in Nat \ {0} /\ MaxNodes \in Nat
  BY TreesAssumption
<1>2. /\ tree \in Seq(NodesOf(tree)) /\ tree # <<>> /\ tree[1].kind = "plain"
      /\ Len(tree[1].child) = Roots /\ tree[1].own = 0 /\ tree[1].made
  BY <1>1, Zenon DEF IsTree
<1>3. /\ Len(tree) \in Nat /\ DOMAIN tree = 1..Len(tree) /\ Len(tree) >= 1
      /\ \A a \in DOMAIN tree : tree[a] \in NodesOf(tree)
  <2> HIDE DEF NodesOf
  <2>1. tree \in Seq(NodesOf(tree)) /\ tree # <<>>
    BY <1>2
  <2> QED  BY <2>1, SeqFacts
<1>4. NodesOf(tree) \subseteq Cell
  <2>1. Pointer \subseteq Nat /\ 0..Len(tree) \subseteq Nat /\ 0..Roots - 1 \subseteq Nat
    BY <1>3
  <2> HIDE DEF Pointer
  <2>2. Seq(Pointer) \subseteq Seq(Nat) /\ Seq(0..Len(tree)) \subseteq Seq(Nat)
    BY <2>1, SeqMonotone
  <2>3. NodesOf(tree) = [kind : Kinds, child : Seq(Pointer), late : Seq(0..Len(tree)),
                         own : Pointer, after : 0..Roots - 1, formal : BOOLEAN, made : BOOLEAN,
                         copied : {0}]
    BY DEF NodesOf, Pointer
  <2> SUFFICES ASSUME NEW n \in NodesOf(tree) PROVE n \in Cell
    OBVIOUS
  <2>4. /\ n = [kind |-> n.kind, child |-> n.child, late |-> n.late, own |-> n.own, after |-> n.after,
                formal |-> n.formal, made |-> n.made, copied |-> n.copied]
        /\ n.kind \in Kinds /\ n.child \in Seq(Pointer) /\ n.late \in Seq(0..Len(tree))
        /\ n.own \in Pointer /\ n.after \in 0..Roots - 1 /\ n.formal \in BOOLEAN
        /\ n.made \in BOOLEAN /\ n.copied \in {0}
    BY <2>3
  <2>5. /\ n.child \in Seq(Nat) /\ n.late \in Seq(Nat) /\ n.own \in Nat /\ n.after \in Nat
        /\ n.copied \in Nat
    BY <2>1, <2>2, <2>4
  <2> QED  BY <2>4, <2>5 DEF Cell
<1>5. tree \in Seq(Cell)
  BY <1>2, <1>4, SeqMonotone
<1>6. ASSUME NEW a \in DOMAIN tree
      PROVE  /\ NodeOK(tree[a], Len(tree), 0)
             /\ \A j \in DOMAIN tree[a].child : tree[a].child[j] # 1
             /\ tree[a].own \in 0..Len(tree) \ {1} /\ tree[a].after \in 0..Roots - 1
             /\ tree[a].copied = 0
  <2>1. tree[a] \in NodesOf(tree) /\ tree[a] \in Cell
    BY <1>3, <1>4
  <2>2. /\ tree[a].child \in Seq(Pointer) /\ tree[a].late \in Seq(0..Len(tree)) /\ tree[a].copied = 0
        /\ tree[a].own \in Pointer /\ tree[a].after \in 0..Roots - 1
    BY <2>1 DEF NodesOf
  <2>3. /\ Len(tree[a].child) \in Nat /\ tree[a].child = <<>> <=> Len(tree[a].child) = 0
        /\ \A j \in DOMAIN tree[a].child : tree[a].child[j] \in Pointer
    <3> HIDE DEF Pointer
    <3> QED  BY <2>2, SeqFacts
  <2>4. \A j \in DOMAIN tree[a].late : tree[a].late[j] \in 0..Len(tree)
    BY <2>2, SeqFacts
  <2>5. HasFields(tree[a]) /\ (tree[a].formal => tree[a].kind = "plain")
    BY <1>1 DEF IsTree
  <2>6. tree[a].kind \in Lists => Len(tree[a].child) > 0
    BY <2>3, <2>5 DEF HasFields, Lists
  <2>7. /\ \A j \in DOMAIN tree[a].child : tree[a].child[j] <= Len(tree)
        /\ \A j \in DOMAIN tree[a].late : tree[a].late[j] <= Len(tree)
    BY <2>3, <2>4, <1>3
  <2>8. NodeOK(tree[a], Len(tree), 0)
    BY <2>1, <2>2, <2>5, <2>6, <2>7 DEF NodeOK
  <2> QED  BY <2>2, <2>3, <2>8
<1> HIDE DEF Pointer
<1> QED  BY <1>1, <1>2, <1>3, <1>5, <1>6

(* The nodes of the instance, and the copies of lists that are given.      *)
LEMMA OwnFacts ==
  ASSUME tree \in Trees
  PROVE  \A a \in DOMAIN tree :
           /\ tree[a].kind = "own" => tree[a].made
           /\ tree[a].own # 0 => tree[a].own \in DOMAIN tree
           /\ tree[a].kind = "model" =>
                /\ ~ tree[a].made /\ tree[a].late = <<>>
                /\ tree[a].own \in DOMAIN tree /\ tree[tree[a].own].kind = "own"
                /\ \A b \in DOMAIN tree : tree[b].kind = "model" /\ tree[b].own = tree[a].own => a = b
           /\ tree[a].kind \in Lists /\ tree[a].own # 0 =>
                tree[tree[a].own].kind = tree[a].kind /\ tree[tree[a].own].made
<1> SUFFICES ASSUME NEW a \in DOMAIN tree
             PROVE  /\ tree[a].kind = "own" => tree[a].made
                    /\ tree[a].own # 0 => tree[a].own \in DOMAIN tree
                    /\ tree[a].kind = "model" =>
                         /\ ~ tree[a].made /\ tree[a].late = <<>>
                         /\ tree[a].own \in DOMAIN tree /\ tree[tree[a].own].kind = "own"
                         /\ \A b \in DOMAIN tree : tree[b].kind = "model" /\ tree[b].own = tree[a].own => a = b
                    /\ tree[a].kind \in Lists /\ tree[a].own # 0 =>
                         tree[tree[a].own].kind = tree[a].kind /\ tree[tree[a].own].made
  OBVIOUS
<1>1. IsTree(tree)
  BY TreesAssumption
<1>2. HasFields(tree[a]) /\ OwnIsOwn(tree, a)
  BY <1>1 DEF IsTree
<1>3. tree[a].own \in 0..Len(tree) /\ DOMAIN tree = 1..Len(tree) /\ Len(tree) \in Nat
  BY TreeFacts
<1> QED  BY <1>2, <1>3 DEF HasFields, OwnIsOwn

LEMMA NodeFacts ==
  ASSUME NodesInv
  PROVE  /\ Len(nodes) \in Nat /\ DOMAIN nodes = 1..Len(nodes)
         /\ Len(tree) \in Nat /\ DOMAIN tree = 1..Len(tree)
         /\ DOMAIN tree \subseteq DOMAIN nodes /\ 1 \in DOMAIN tree
         /\ Roots \in Nat \ {0} /\ round \in Nat \ {0}
         /\ \A a \in DOMAIN nodes :
              /\ nodes[a] \in Cell /\ nodes[a].child \in Seq(Nat) /\ nodes[a].late \in Seq(Nat)
              /\ Len(nodes[a].child) \in Nat /\ DOMAIN nodes[a].child = 1..Len(nodes[a].child)
              /\ \A j \in DOMAIN nodes[a].child : nodes[a].child[j] \in 0..Len(nodes)
              /\ \A j \in DOMAIN nodes[a].late : nodes[a].late[j] \in 0..Len(nodes)
              /\ nodes[a].copied \in Nat
<1>1. Len(nodes) \in Nat /\ DOMAIN nodes = 1..Len(nodes)
  BY SeqFacts DEF NodesInv
<1>2. Len(tree) \in Nat /\ Len(tree) >= 1 /\ DOMAIN tree = 1..Len(tree) /\ Roots \in Nat \ {0}
  BY TreeFacts DEF NodesInv
<1>3. DOMAIN tree \subseteq DOMAIN nodes /\ 1 \in DOMAIN tree /\ round \in Nat \ {0}
  BY <1>1, <1>2 DEF NodesInv
<1>4. ASSUME NEW a \in DOMAIN nodes
      PROVE  /\ nodes[a] \in Cell /\ nodes[a].child \in Seq(Nat) /\ nodes[a].late \in Seq(Nat)
             /\ Len(nodes[a].child) \in Nat /\ DOMAIN nodes[a].child = 1..Len(nodes[a].child)
             /\ \A j \in DOMAIN nodes[a].child : nodes[a].child[j] \in 0..Len(nodes)
             /\ \A j \in DOMAIN nodes[a].late : nodes[a].late[j] \in 0..Len(nodes)
             /\ nodes[a].copied \in Nat
  <2>1. NodeOK(nodes[a], Len(nodes), round) /\ nodes[a] \in Cell
    BY DEF NodesInv, NodeOK
  <2>2. nodes[a].child \in Seq(Nat) /\ nodes[a].late \in Seq(Nat) /\ nodes[a].copied \in Nat
    BY <2>1 DEF Cell
  <2>3. /\ Len(nodes[a].child) \in Nat /\ DOMAIN nodes[a].child = 1..Len(nodes[a].child)
        /\ \A j \in DOMAIN nodes[a].child : nodes[a].child[j] \in Nat
        /\ \A j \in DOMAIN nodes[a].late : nodes[a].late[j] \in Nat
    BY <2>2, SeqFacts
  <2> QED  BY <1>1, <2>1, <2>2, <2>3 DEF NodeOK
<1> QED  BY <1>1, <1>2, <1>3, <1>4

(* Models are where the template has them, and their nodes in the instance.*)
LEMMA ModelFacts ==
  ASSUME NodesInv, NEW m \in DOMAIN nodes, nodes[m].kind = "model"
  PROVE  /\ m \in DOMAIN tree /\ nodes[m] = tree[m] /\ tree[m].kind = "model"
         /\ nodes[m].late = <<>> /\ nodes[m].own \in DOMAIN tree /\ nodes[m].own \in DOMAIN nodes
         /\ nodes[m].own # 1 /\ tree[nodes[m].own].kind = "own" /\ nodes[nodes[m].own].kind = "own"
         /\ nodes[nodes[m].own].made
         /\ \A b \in DOMAIN nodes : nodes[b].kind = "model" /\ nodes[b].own = nodes[m].own => m = b
<1>1. /\ DOMAIN nodes = 1..Len(nodes) /\ Len(nodes) \in Nat /\ Len(tree) \in Nat
      /\ DOMAIN tree = 1..Len(tree) /\ DOMAIN tree \subseteq DOMAIN nodes /\ tree \in Trees
  BY NodeFacts DEF NodesInv
<1>2. ASSUME NEW b \in DOMAIN nodes, nodes[b].kind = "model"
      PROVE  b \in DOMAIN tree /\ tree[b].kind = "model" /\ nodes[b] = tree[b]
  <2>1. b \in DOMAIN tree
    BY <1>1, <1>2 DEF NodesInv
  <2>2. tree[b].kind = "model"
    BY <1>2, <2>1 DEF NodesInv
  <2>3. ~ tree[b].made
    BY <1>1, <2>1, <2>2, OwnFacts
  <2> QED  BY <2>1, <2>2, <2>3 DEF NodesInv
<1>3. m \in DOMAIN tree /\ nodes[m] = tree[m] /\ tree[m].kind = "model"
  BY <1>2
<1>4. /\ tree[m].late = <<>> /\ tree[m].own \in DOMAIN tree /\ tree[tree[m].own].kind = "own"
      /\ tree[tree[m].own].made
      /\ \A b \in DOMAIN tree : tree[b].kind = "model" /\ tree[b].own = tree[m].own => m = b
  BY <1>1, <1>3, OwnFacts
<1>5. tree[1].kind = "plain"
  BY <1>1, TreeFacts
<1>6. nodes[tree[m].own].kind = "own" /\ nodes[tree[m].own].made
  BY <1>4 DEF NodesInv
<1> QED  BY <1>1, <1>2, <1>3, <1>4, <1>5, <1>6

LEMMA FrameList ==
  ASSUME FramesInv
  PROVE  /\ Len(frames) \in Nat /\ DOMAIN frames = 1..Len(frames)
         /\ frames # <<>> <=> Len(frames) > 0
         /\ \A k \in DOMAIN frames : /\ frames[k] \in FrameType
                                     /\ frames[k].at \in Nat /\ frames[k].i \in Nat
                                     /\ frames[k].last \in Nat
<1>1. frames \in Seq(FrameType)
  BY DEF FramesInv
<1>2. /\ Len(frames) \in Nat /\ DOMAIN frames = 1..Len(frames)
      /\ frames = <<>> <=> Len(frames) = 0
      /\ \A k \in DOMAIN frames : frames[k] \in FrameType
  BY <1>1, SeqFacts, Zenon
<1>3. \A f \in FrameType : f.at \in Nat /\ f.i \in Nat /\ f.last \in Nat
  BY DEF FrameType
<1> QED  BY <1>2, <1>3

\* A frame that has not gone through its fields stands at one of them.
LEMMA FieldFacts ==
  ASSUME NodesInv, NEW f \in FrameType, FrameOK(f), f.i <= f.last
  PROVE  f.at \in DOMAIN nodes /\ nodes[f.at].made /\ Field(f) \in DOMAIN nodes[f.at].child
<1>1. f.i \in Nat /\ f.last \in Nat /\ f.at \in DOMAIN nodes /\ nodes[f.at].made
      /\ f.last <= Len(nodes[f.at].child) /\ (f.i = 0 => f.last > 0)
  BY DEF FrameType, FrameOK
<1>2. DOMAIN nodes[f.at].child = 1..Len(nodes[f.at].child) /\ Len(nodes[f.at].child) \in Nat
  BY <1>1, NodeFacts
<1> QED  BY <1>1, <1>2 DEF Field

LEMMA AtTop ==
  ASSUME WalkInv, Walking
  PROVE  /\ Len(frames) > 0 /\ Top = frames[Len(frames)] /\ Len(frames) \in DOMAIN frames
         /\ Top \in FrameType /\ FrameOK(Top) /\ Top.i <= Top.last
         /\ Top.at \in DOMAIN nodes /\ nodes[Top.at].made
         /\ Field(Top) \in DOMAIN nodes[Top.at].child
         /\ Target \in 0..Len(nodes) /\ (Target # 0 => Target \in DOMAIN nodes)
<1>1. Len(frames) > 0 /\ Len(frames) \in DOMAIN frames
  BY FrameList DEF WalkInv, Walking
<1>2. Top = frames[Len(frames)]
  BY DEF Top, Last
<1>3. Top \in FrameType /\ Top.i <= Top.last /\ FrameOK(Top)
  BY <1>1, <1>2, FrameList DEF WalkInv, Walking, FramesInv
<1>4. Top.at \in DOMAIN nodes /\ nodes[Top.at].made /\ Field(Top) \in DOMAIN nodes[Top.at].child
  BY <1>3, FieldFacts DEF WalkInv
<1>5. Target \in 0..Len(nodes) /\ DOMAIN nodes = 1..Len(nodes) /\ Len(nodes) \in Nat
  BY <1>4, NodeFacts DEF WalkInv, Target
<1> QED  BY <1>1, <1>2, <1>3, <1>4, <1>5

-----------------------------------------------------------------------------
(* What is done to the nodes.                                              *)

\* What a step may do to them, as the correspondence and the frames see it.
Grown ==
  /\ Len(nodes) <= Len(nodes')
  /\ \A a \in DOMAIN nodes :
       /\ a \in DOMAIN nodes' /\ nodes'[a].kind = nodes[a].kind /\ nodes'[a].formal = nodes[a].formal
       /\ nodes[a].made => nodes'[a].made
       /\ nodes[a].kind # "own" => nodes'[a].own = nodes[a].own

LEMMA NodesStep ==
  ASSUME NodesInv, UNCHANGED tree, round' \in 1..Roots + 1, round <= round',
         nodes' \in Seq(Cell), Len(nodes) <= Len(nodes'),
         \A a \in DOMAIN nodes : \/ nodes'[a] = nodes[a]
                                 \/ /\ nodes[a].made /\ NodeOK(nodes'[a], Len(nodes'), round')
                                    /\ nodes'[a].made /\ nodes'[a].kind = nodes[a].kind
                                    /\ nodes'[a].formal = nodes[a].formal
                                    /\ nodes[a].kind # "own" =>
                                         /\ nodes'[a].own = nodes[a].own
                                         /\ Len(nodes'[a].child) = Len(nodes[a].child),
         \A a \in DOMAIN nodes' : a > Len(nodes) =>
           /\ NodeOK(nodes'[a], Len(nodes'), round')
           /\ nodes'[a].made /\ nodes'[a].kind \notin {"own", "model"}
  PROVE  NodesInv' /\ Grown
<1>1. /\ Len(nodes) \in Nat /\ DOMAIN nodes = 1..Len(nodes) /\ Len(tree) \in Nat
      /\ DOMAIN tree = 1..Len(tree) /\ DOMAIN tree \subseteq DOMAIN nodes /\ 1 \in DOMAIN tree
      /\ tree \in Trees /\ round \in Nat /\ Len(tree) <= Len(nodes)
  BY NodeFacts DEF NodesInv
<1>2. Len(nodes') \in Nat /\ DOMAIN nodes' = 1..Len(nodes')
  BY SeqFacts
<1>3. ASSUME NEW a \in DOMAIN nodes
      PROVE  /\ a \in DOMAIN nodes' /\ nodes'[a].kind = nodes[a].kind
             /\ nodes'[a].formal = nodes[a].formal
             /\ nodes[a].made => nodes'[a].made
             /\ ~ nodes[a].made => nodes'[a] = nodes[a]
             /\ nodes[a].kind # "own" => /\ nodes'[a].own = nodes[a].own
                                         /\ Len(nodes'[a].child) = Len(nodes[a].child)
  BY <1>1, <1>2
<1>4. Grown
  BY <1>3 DEF Grown
<1>5. ASSUME NEW a \in DOMAIN nodes
      PROVE  NodeOK(nodes'[a], Len(nodes'), round')
  <2>1. CASE nodes'[a] = nodes[a]
    <3>1. NodeOK(nodes[a], Len(nodes), round)
      BY DEF NodesInv
    <3>2. /\ \A j \in DOMAIN nodes[a].child : nodes[a].child[j] \in Nat
          /\ \A j \in DOMAIN nodes[a].late : nodes[a].late[j] \in Nat
          /\ nodes[a].copied \in Nat
      BY <1>1, NodeFacts
    <3>3. /\ \A j \in DOMAIN nodes[a].child : nodes[a].child[j] <= Len(nodes')
          /\ \A j \in DOMAIN nodes[a].late : nodes[a].late[j] <= Len(nodes')
          /\ nodes[a].copied <= round'
      BY <3>1, <3>2, <1>1, <1>2 DEF NodeOK
    <3> QED  BY <3>1, <3>3, <2>1 DEF NodeOK
  <2> QED  BY <2>1
<1>6. \A a \in DOMAIN nodes' : a \in DOMAIN nodes \/ a > Len(nodes)
  BY <1>1, <1>2
<1>7. \A a \in DOMAIN nodes' : NodeOK(nodes'[a], Len(nodes'), round')
  BY <1>5, <1>6
<1>8. \A a \in DOMAIN tree : /\ nodes'[a].kind = tree[a].kind
                             /\ IF tree[a].made THEN nodes'[a].made ELSE nodes'[a] = tree[a]
  <2> SUFFICES ASSUME NEW a \in DOMAIN tree
               PROVE  /\ nodes'[a].kind = tree[a].kind
                      /\ IF tree[a].made THEN nodes'[a].made ELSE nodes'[a] = tree[a]
    OBVIOUS
  <2>1. /\ a \in DOMAIN nodes /\ nodes[a].kind = tree[a].kind
        /\ IF tree[a].made THEN nodes[a].made ELSE nodes[a] = tree[a]
    BY <1>1 DEF NodesInv
  <2> QED  BY <2>1, <1>3
<1>9. \A a \in DOMAIN nodes' : a > Len(tree) => nodes'[a].made /\ nodes'[a].kind \notin {"own", "model"}
  <2> SUFFICES ASSUME NEW a \in DOMAIN nodes', a > Len(tree)
               PROVE  nodes'[a].made /\ nodes'[a].kind \notin {"own", "model"}
    OBVIOUS
  <2>1. CASE a \in DOMAIN nodes
    <3>1. nodes[a].made /\ nodes[a].kind \notin {"own", "model"}
      BY <2>1 DEF NodesInv
    <3> QED  BY <3>1, <2>1, <1>3
  <2> QED  BY <2>1, <1>6
<1>10. Len(nodes'[1].child) = Roots
  <2>1. tree[1].kind = "plain" /\ nodes[1].kind = tree[1].kind /\ Len(nodes[1].child) = Roots
    BY <1>1, TreeFacts DEF NodesInv
  <2> QED  BY <2>1, <1>1, <1>3
<1>11. Len(tree') <= Len(nodes')
  BY <1>1, <1>2
<1> QED  BY <1>1, <1>4, <1>7, <1>8, <1>9, <1>10, <1>11 DEF NodesInv

\* A pointer of a node is set.
SetIn(n, i, v) == [n EXCEPT !.child = [@ EXCEPT ![i] = v]]

SetAt(c, i, v) ==
  /\ \A a \in DOMAIN nodes : a # c => nodes'[a] = nodes[a]
  /\ nodes'[c] = SetIn(nodes[c], i, v)

LEMMA SetFacts ==
  ASSUME NEW n \in Cell, NEW i \in DOMAIN n.child, NEW v \in Nat
  PROVE  /\ SetIn(n, i, v) \in Cell /\ SetIn(n, i, v).kind = n.kind /\ SetIn(n, i, v).late = n.late
         /\ SetIn(n, i, v).own = n.own /\ SetIn(n, i, v).formal = n.formal
         /\ SetIn(n, i, v).made = n.made /\ SetIn(n, i, v).copied = n.copied
         /\ Len(SetIn(n, i, v).child) = Len(n.child)
         /\ DOMAIN SetIn(n, i, v).child = DOMAIN n.child
         /\ \A j \in DOMAIN n.child : SetIn(n, i, v).child[j] = IF j = i THEN v ELSE n.child[j]
<1> DEFINE l == [n.child EXCEPT ![i] = v]
<1>1. n.child \in Seq(Nat)
  BY DEF Cell
<1>2. /\ l \in Seq(Nat) /\ Len(l) = Len(n.child) /\ DOMAIN l = DOMAIN n.child
      /\ \A j \in DOMAIN n.child : l[j] = IF j = i THEN v ELSE n.child[j]
  BY <1>1, SetItem
<1>3. SetIn(n, i, v) = [n EXCEPT !.child = l]
  BY DEF SetIn
<1> HIDE DEF l
<1>4. /\ SetIn(n, i, v) \in Cell /\ SetIn(n, i, v).child = l /\ SetIn(n, i, v).kind = n.kind
      /\ SetIn(n, i, v).late = n.late /\ SetIn(n, i, v).own = n.own
      /\ SetIn(n, i, v).formal = n.formal /\ SetIn(n, i, v).made = n.made
      /\ SetIn(n, i, v).copied = n.copied
  BY <1>2, <1>3 DEF Cell
<1> QED  BY <1>2, <1>4

LEMMA TwinFacts ==
  ASSUME NodesInv, NEW b \in DOMAIN nodes
  PROVE  /\ Twin(b) \in Cell /\ Twin(b).kind = nodes[b].kind /\ Twin(b).child = nodes[b].child
         /\ Twin(b).late = nodes[b].late /\ Twin(b).formal = nodes[b].formal
         /\ Twin(b).made /\ Twin(b).copied = round
<1>1. nodes[b] \in Cell /\ round \in Nat
  BY NodeFacts
<1> QED  BY <1>1 DEF Twin, Cell

LEMMA SetField ==
  ASSUME NodesInv, NEW c \in DOMAIN nodes, nodes[c].made, NEW i \in DOMAIN nodes[c].child,
         NEW b \in DOMAIN nodes, nodes' = FieldSet(c, i, b), UNCHANGED <<tree, round>>
  PROVE  /\ NodesInv' /\ Grown
         /\ \E v \in DOMAIN nodes' :
              /\ SetAt(c, i, v)
              /\ \/ ~ ToTwin(c, i, b) /\ v = b /\ Len(nodes') = Len(nodes)
                 \/ /\ ToTwin(c, i, b) /\ v = Len(nodes) + 1 /\ Len(nodes') = Len(nodes) + 1
                    /\ nodes'[Len(nodes) + 1] = Twin(b)
<1> DEFINE twin == ToTwin(c, i, b)
           v == IF twin THEN Len(nodes) + 1 ELSE b
           base == IF twin THEN Append(nodes, Twin(b)) ELSE nodes
           l == Len(nodes) + (IF twin THEN 1 ELSE 0)
           m == SetIn(nodes[c], i, v)
<1>1. /\ nodes \in Seq(Cell) /\ Len(nodes) \in Nat /\ DOMAIN nodes = 1..Len(nodes)
      /\ round \in Nat /\ round \in 1..Roots + 1 /\ Len(tree) \in Nat /\ Len(tree) <= Len(nodes)
      /\ \A a \in DOMAIN nodes : NodeOK(nodes[a], Len(nodes), round)
  BY NodeFacts DEF NodesInv
<1>2. /\ base \in Seq(Cell) /\ Len(base) = l /\ DOMAIN base = 1..l
      /\ \A a \in DOMAIN nodes : a \in 1..l /\ base[a] = nodes[a]
      /\ twin => base[Len(nodes) + 1] = Twin(b)
  <2>1. CASE ~ twin
    BY <2>1, <1>1
  <2>2. CASE twin
    <3>1. /\ Append(nodes, Twin(b)) \in Seq(Cell) /\ Len(Append(nodes, Twin(b))) = Len(nodes) + 1
          /\ \A a \in 1..Len(nodes) : Append(nodes, Twin(b))[a] = nodes[a]
          /\ Append(nodes, Twin(b))[Len(nodes) + 1] = Twin(b)
      BY <1>1, TwinFacts, AppendProperties
    <3>2. DOMAIN Append(nodes, Twin(b)) = 1..Len(nodes) + 1
      BY <3>1, SeqFacts
    <3> QED  BY <3>1, <3>2, <2>2, <1>1
  <2> QED  BY <2>1, <2>2
<1>3. l \in Nat /\ Len(nodes) <= l /\ v \in 1..l /\ v \in Nat
  BY <1>1
<1>4. nodes' = [base EXCEPT ![c] = m]
  <2>1. base[c] = nodes[c]
    BY <1>2
  <2>2. nodes' = [base EXCEPT ![c].child[i] = v]
    BY DEF FieldSet
  <2> HIDE DEF base, v, twin
  <2>3. nodes' = [base EXCEPT ![c] = SetIn(base[c], i, v)]
    BY <2>2 DEF SetIn
  <2> QED  BY <2>1, <2>3
<1>5. /\ m \in Cell /\ m.kind = nodes[c].kind /\ m.late = nodes[c].late
      /\ m.own = nodes[c].own /\ m.formal = nodes[c].formal /\ m.made = nodes[c].made
      /\ m.copied = nodes[c].copied
      /\ Len(m.child) = Len(nodes[c].child) /\ DOMAIN m.child = DOMAIN nodes[c].child
      /\ \A j \in DOMAIN nodes[c].child : m.child[j] = IF j = i THEN v ELSE nodes[c].child[j]
  <2>1. v \in Nat /\ nodes[c] \in Cell
    BY <1>3, NodeFacts
  <2>2. PICK n : n = nodes[c]
    OBVIOUS
  <2>3. PICK w : w = v
    OBVIOUS
  <2>4. n \in Cell /\ i \in DOMAIN n.child /\ w \in Nat
    BY <2>1, <2>2, <2>3
  <2>5. m = SetIn(n, i, w)
    BY <2>2, <2>3
  <2> HIDE DEF m, v
  <2>6. /\ m \in Cell /\ m.kind = n.kind /\ m.late = n.late
        /\ m.own = n.own /\ m.formal = n.formal /\ m.made = n.made /\ m.copied = n.copied
        /\ Len(m.child) = Len(n.child) /\ DOMAIN m.child = DOMAIN n.child
        /\ \A j \in DOMAIN n.child : m.child[j] = IF j = i THEN w ELSE n.child[j]
    BY <2>4, <2>5, SetFacts
  <2> QED  BY <2>2, <2>3, <2>6
<1>6. /\ nodes' \in Seq(Cell) /\ Len(nodes') = l /\ DOMAIN nodes' = 1..l
      /\ \A a \in 1..l : nodes'[a] = IF a = c THEN m ELSE base[a]
  <2> HIDE DEF base, m, l
  <2>1. c \in DOMAIN base
    BY <1>2
  <2>2. /\ [base EXCEPT ![c] = m] \in Seq(Cell) /\ Len([base EXCEPT ![c] = m]) = Len(base)
        /\ DOMAIN [base EXCEPT ![c] = m] = DOMAIN base
        /\ \A a \in DOMAIN base : [base EXCEPT ![c] = m][a] = IF a = c THEN m ELSE base[a]
    BY <2>1, <1>2, <1>5, SetItem
  <2> QED  BY <2>2, <1>2, <1>4
<1>7. SetAt(c, i, v)
  <2> HIDE DEF v, l, base
  <2> QED  BY <1>2, <1>6 DEF SetAt
<1>8. NodeOK(nodes'[c], Len(nodes'), round')
  <2>1. \A j \in DOMAIN m.child : m.child[j] <= l
    <3> SUFFICES ASSUME NEW j \in DOMAIN nodes[c].child PROVE m.child[j] <= l
      BY <1>5
    <3>1. nodes[c].child[j] \in Nat /\ nodes[c].child[j] <= Len(nodes)
      BY <1>1, NodeFacts DEF NodeOK
    <3> HIDE DEF l, v, m
    <3> QED  BY SMTT(30), <3>1, <1>1, <1>3, <1>5
  <2>2. \A j \in DOMAIN m.late : m.late[j] <= l
    <3> SUFFICES ASSUME NEW j \in DOMAIN nodes[c].late PROVE nodes[c].late[j] <= l
      BY <1>5
    <3>1. nodes[c].late[j] \in Nat /\ nodes[c].late[j] <= Len(nodes)
      BY <1>1, NodeFacts DEF NodeOK
    <3> HIDE DEF l
    <3> QED  BY <3>1, <1>1, <1>3
  <2> HIDE DEF m, l
  <2>3. NodeOK(nodes[c], Len(nodes), round) /\ nodes'[c] = m /\ Len(nodes') = l
    BY <1>1, <1>2, <1>6
  <2> QED  BY <2>1, <2>2, <2>3, <1>5 DEF NodeOK
<1>9. \A a \in DOMAIN nodes : a # c => nodes'[a] = nodes[a]
  BY <1>7 DEF SetAt
<1>10. \A a \in DOMAIN nodes' : a > Len(nodes) =>
         /\ NodeOK(nodes'[a], Len(nodes'), round')
         /\ nodes'[a].made /\ nodes'[a].kind \notin {"own", "model"}
         /\ twin /\ a = Len(nodes) + 1 /\ nodes'[a] = Twin(b)
  <2> SUFFICES ASSUME NEW a \in 1..l, a > Len(nodes)
               PROVE  /\ NodeOK(nodes'[a], l, round)
                      /\ nodes'[a].made /\ nodes'[a].kind \notin {"own", "model"}
                      /\ twin /\ a = Len(nodes) + 1 /\ nodes'[a] = Twin(b)
    BY <1>6
  <2>1. a = Len(nodes) + 1 /\ twin /\ l = Len(nodes) + 1
    BY <1>1
  <2>2. nodes'[a] = Twin(b)
    BY <2>1, <1>1, <1>2, <1>6
  <2>3. nodes[b].formal /\ NodeOK(nodes[b], Len(nodes), round) /\ nodes[b].kind = "plain"
    BY <2>1, <1>1 DEF ToTwin, NodeOK
  <2>4. /\ \A j \in DOMAIN nodes[b].child : nodes[b].child[j] \in Nat /\ nodes[b].child[j] <= Len(nodes)
        /\ \A j \in DOMAIN nodes[b].late : nodes[b].late[j] \in Nat /\ nodes[b].late[j] <= Len(nodes)
    BY SMTT(30), <2>3, NodeFacts DEF NodeOK
  <2>5. NodeOK(Twin(b), l, round)
    <3>1. /\ Twin(b) \in Cell /\ Twin(b).kind = "plain" /\ Twin(b).copied = round
          /\ Twin(b).child = nodes[b].child /\ Twin(b).late = nodes[b].late
      BY <2>3, TwinFacts
    <3>2. /\ \A j \in DOMAIN nodes[b].child : nodes[b].child[j] <= l
          /\ \A j \in DOMAIN nodes[b].late : nodes[b].late[j] <= l
      BY <2>1, <2>4, <1>1
    <3> QED  BY <3>1, <3>2, <1>1 DEF NodeOK, Lists
  <2>6. Twin(b).made /\ Twin(b).kind = "plain"
    BY <2>3, TwinFacts
  <2> QED  BY <2>1, <2>2, <2>5, <2>6
<1>11. /\ nodes'[c].made /\ nodes'[c].kind = nodes[c].kind /\ nodes'[c].formal = nodes[c].formal
       /\ nodes'[c].own = nodes[c].own /\ Len(nodes'[c].child) = Len(nodes[c].child)
  <2> HIDE DEF m, l, base
  <2> QED  BY <1>2, <1>5, <1>6
<1>12. /\ round' \in 1..Roots + 1 /\ round <= round' /\ Len(nodes) <= Len(nodes')
  BY <1>1, <1>3, <1>6
<1>13. NodesInv' /\ Grown
  <2> HIDE DEF twin, l, v, base, m
  <2> QED  BY <1>6, <1>8, <1>9, <1>10, <1>11, <1>12, NodesStep
<1>14. v \in DOMAIN nodes'
  BY <1>3, <1>6
<1>15. \/ ~ twin /\ v = b /\ Len(nodes') = Len(nodes)
       \/ twin /\ v = Len(nodes) + 1 /\ Len(nodes') = Len(nodes) + 1 /\ nodes'[Len(nodes) + 1] = Twin(b)
  <2>1. CASE twin
    <3>1. Len(nodes) + 1 \in DOMAIN nodes' /\ Len(nodes) + 1 > Len(nodes)
      BY <2>1, <1>1, <1>6
    <3> QED  BY <3>1, <2>1, <1>6, <1>10
  <2> QED  BY <2>1, <1>6
<1> QED  BY <1>7, <1>13, <1>14, <1>15


LEMMA AddNode ==
  ASSUME NodesInv, NEW m \in Cell, NodeOK(m, Len(nodes) + 1, round), m.made,
         m.kind \notin {"own", "model"},
         nodes' = Append(nodes, m), UNCHANGED <<tree, round>>
  PROVE  /\ NodesInv' /\ Grown /\ Len(nodes') = Len(nodes) + 1
         /\ DOMAIN nodes' = DOMAIN nodes \cup {Len(nodes) + 1}
         /\ \A a \in DOMAIN nodes : nodes'[a] = nodes[a]
         /\ nodes'[Len(nodes) + 1] = m
<1>1. /\ nodes \in Seq(Cell) /\ Len(nodes) \in Nat /\ DOMAIN nodes = 1..Len(nodes)
      /\ round \in 1..Roots + 1 /\ round \in Nat
  BY NodeFacts DEF NodesInv
<1>2. /\ nodes' \in Seq(Cell) /\ Len(nodes') = Len(nodes) + 1
      /\ \A a \in 1..Len(nodes) : nodes'[a] = nodes[a]
      /\ nodes'[Len(nodes) + 1] = m
  BY <1>1, AppendProperties
<1>3. DOMAIN nodes' = 1..Len(nodes) + 1
  BY <1>2, SeqFacts
<1>4. \A a \in DOMAIN nodes' : a > Len(nodes) => a = Len(nodes) + 1
  BY <1>1, <1>3
<1>5. \A a \in DOMAIN nodes' : a > Len(nodes) =>
           /\ NodeOK(nodes'[a], Len(nodes'), round')
           /\ nodes'[a].made /\ nodes'[a].kind \notin {"own", "model"}
  BY <1>2, <1>4
<1>6. \A a \in DOMAIN nodes : nodes'[a] = nodes[a]
  BY <1>1, <1>2
<1>7. round' \in 1..Roots + 1 /\ round <= round' /\ Len(nodes) <= Len(nodes')
  BY <1>1, <1>2
<1>8. NodesInv' /\ Grown
  BY <1>2, <1>5, <1>6, <1>7, NodesStep
<1>9. DOMAIN nodes' = DOMAIN nodes \cup {Len(nodes) + 1}
  BY <1>1, <1>3
<1> QED  BY <1>2, <1>6, <1>8, <1>9

\* The copy of the model n.
OwnCopy(n) == [n EXCEPT !.kind = "own", !.made = TRUE, !.copied = round]

LEMMA PutNode ==
  ASSUME NodesInv, NEW t \in DOMAIN nodes, nodes[t].kind = "model",
         nodes' = [nodes EXCEPT ![nodes[t].own] = OwnCopy(nodes[t])], UNCHANGED <<tree, round>>
  PROVE  /\ NodesInv' /\ Grown /\ Len(nodes') = Len(nodes) /\ DOMAIN nodes' = DOMAIN nodes
         /\ \A a \in DOMAIN nodes : nodes'[a] = IF a = nodes[t].own THEN OwnCopy(nodes[t]) ELSE nodes[a]
<1>1. /\ nodes \in Seq(Cell) /\ Len(nodes) \in Nat /\ DOMAIN nodes = 1..Len(nodes)
      /\ round \in 1..Roots + 1 /\ round \in Nat
  BY NodeFacts DEF NodesInv
<1>2. PICK n : n = nodes[t]
  OBVIOUS
<1>3. PICK o : o = nodes[t].own
  OBVIOUS
<1>4. PICK m : m = OwnCopy(nodes[t])
  OBVIOUS
<1>5. /\ o \in DOMAIN nodes /\ nodes[o].kind = "own" /\ nodes[o].made
  BY <1>3, ModelFacts
<1>6. /\ n \in Cell /\ n.kind = "model"
      /\ NodeOK(n, Len(nodes), round)
  BY <1>2, NodeFacts DEF NodesInv
<1>7. /\ m \in Cell /\ m.kind = "own" /\ m.made /\ m.copied = round /\ m.formal = n.formal
      /\ m.child = n.child /\ m.late = n.late
  BY <1>1, <1>2, <1>4, <1>6 DEF OwnCopy, Cell, Kinds
<1>8. NodeOK(m, Len(nodes), round) /\ m.formal = FALSE
  BY <1>1, <1>6, <1>7 DEF NodeOK, Lists, Cell
<1>9. /\ nodes' \in Seq(Cell) /\ Len(nodes') = Len(nodes) /\ DOMAIN nodes' = DOMAIN nodes
      /\ \A a \in DOMAIN nodes : nodes'[a] = IF a = o THEN m ELSE nodes[a]
  <2>1. nodes' = [nodes EXCEPT ![o] = m]
    BY <1>3, <1>4
  <2>2. nodes \in Seq(Cell) /\ o \in DOMAIN nodes /\ m \in Cell
    BY <1>1, <1>5, <1>7
  <2>3. /\ [nodes EXCEPT ![o] = m] \in Seq(Cell) /\ Len([nodes EXCEPT ![o] = m]) = Len(nodes)
        /\ DOMAIN [nodes EXCEPT ![o] = m] = DOMAIN nodes
        /\ \A a \in DOMAIN nodes : [nodes EXCEPT ![o] = m][a] = IF a = o THEN m ELSE nodes[a]
    BY <2>2, SetItem
  <2> QED  BY <2>1, <2>3, Zenon
<1>10. nodes[o].formal = FALSE
  <2>1. NodeOK(nodes[o], Len(nodes), round) /\ nodes[o] \in Cell
    BY <1>5, NodeFacts DEF NodesInv
  <2> QED  BY <2>1, <1>5 DEF NodeOK, Cell
<1>11. round' \in 1..Roots + 1 /\ round <= round' /\ Len(nodes) <= Len(nodes')
  BY <1>1, <1>9
<1>12. \A a \in DOMAIN nodes : \/ nodes'[a] = nodes[a]
                               \/ /\ nodes[a].made /\ NodeOK(nodes'[a], Len(nodes'), round')
                                  /\ nodes'[a].made /\ nodes'[a].kind = nodes[a].kind
                                  /\ nodes'[a].formal = nodes[a].formal
                                  /\ nodes[a].kind # "own" =>
                                       /\ nodes'[a].own = nodes[a].own
                                       /\ Len(nodes'[a].child) = Len(nodes[a].child)
  BY <1>5, <1>7, <1>8, <1>9, <1>10
<1>13. \A a \in DOMAIN nodes' : ~ (a > Len(nodes))
  BY <1>1, <1>9
<1>14. NodesInv' /\ Grown
  BY <1>9, <1>11, <1>12, <1>13, NodesStep
<1> QED  BY <1>3, <1>4, <1>9, <1>14

LEMMA ProbeType ==
  ASSUME NodesInv, CorrInv, NEW v \in 0..Len(nodes)
  PROVE  Probe(v) \in 0..Len(nodes)
<1>1. DOMAIN nodes = 1..Len(nodes) /\ Len(nodes) \in Nat
  BY NodeFacts
<1>2. v \in DOMAIN corr => corr[v] \in DOMAIN nodes
  BY DEF CorrInv
<1> QED  BY <1>1, <1>2 DEF Probe, Led

\* What has been patched.
AllPatched ==
  /\ Len(nodes') = Len(nodes) /\ DOMAIN nodes' = DOMAIN nodes
  /\ \A a \in DOMAIN nodes : ~ ToPatch(a) => nodes'[a] = nodes[a]
  /\ \A a \in DOMAIN nodes : ToPatch(a) =>
       /\ nodes'[a].kind = nodes[a].kind /\ nodes'[a].child = nodes[a].child
       /\ nodes'[a].own = nodes[a].own /\ nodes'[a].copied = nodes[a].copied
       /\ nodes'[a].formal = nodes[a].formal /\ nodes'[a].made = nodes[a].made
       /\ nodes'[a].late = [j \in DOMAIN nodes[a].late |-> Probe(nodes[a].late[j])]

LEMMA PatchNodes ==
  ASSUME NodesInv, CorrInv, PatchInv, round <= Roots,
         nodes' = [a \in DOMAIN nodes |->
                    IF ToPatch(a) THEN [nodes[a] EXCEPT !.late = [j \in DOMAIN @ |-> Probe(@[j])]]
                    ELSE nodes[a]],
         round' = round + 1, UNCHANGED tree
  PROVE  NodesInv' /\ Grown /\ AllPatched
<1>1. /\ nodes \in Seq(Cell) /\ Len(nodes) \in Nat /\ DOMAIN nodes = 1..Len(nodes)
      /\ round \in Nat /\ Roots \in Nat /\ round \in 1..Roots + 1
      /\ round' \in 1..Roots + 1 /\ round <= round'
  BY NodeFacts DEF NodesInv
<1>2. ASSUME NEW a \in DOMAIN nodes, NEW m,
             m = [nodes[a] EXCEPT !.late = [j \in DOMAIN @ |-> Probe(@[j])]]
      PROVE  /\ m \in Cell /\ m.kind = nodes[a].kind /\ m.child = nodes[a].child
             /\ m.own = nodes[a].own /\ m.copied = nodes[a].copied
             /\ m.formal = nodes[a].formal /\ m.made = nodes[a].made
             /\ m.late = [j \in DOMAIN nodes[a].late |-> Probe(nodes[a].late[j])]
             /\ NodeOK(m, Len(nodes), round')
  <2>1. PICK n : n = nodes[a]
    OBVIOUS
  <2>2. PICK l : l = [j \in DOMAIN n.late |-> Probe(n.late[j])]
    OBVIOUS
  <2>3. /\ n \in Cell /\ n.late \in Seq(Nat) /\ \A j \in DOMAIN n.late : n.late[j] \in 0..Len(nodes)
        /\ n.copied \in Nat /\ NodeOK(n, Len(nodes), round)
    BY <2>1, NodeFacts DEF NodesInv
  <2>4. \A j \in DOMAIN n.late : Probe(n.late[j]) \in 0..Len(nodes)
    BY <2>3, ProbeType
  <2>5. DOMAIN n.late = 1..Len(n.late) /\ Len(n.late) \in Nat
    BY <2>3, SeqFacts
  <2>6. l \in [1..Len(n.late) -> Nat]
    BY <2>2, <2>4, <2>5, <1>1
  <2>7. l \in Seq(Nat)
    BY <2>5, <2>6, SeqDef
  <2>8. \A j \in DOMAIN l : l[j] <= Len(nodes)
    BY <2>2, <2>4, <1>1
  <2>9. m = [n EXCEPT !.late = l]
    BY <1>2, <2>1, <2>2
  <2>10. /\ m \in Cell /\ m.kind = n.kind /\ m.child = n.child
         /\ m.own = n.own /\ m.copied = n.copied /\ m.late = l
         /\ m.formal = n.formal /\ m.made = n.made
    BY <2>3, <2>7, <2>9 DEF Cell
  <2>11. n.copied <= round'
    BY <2>3, <1>1 DEF NodeOK
  <2>12. NodeOK(m, Len(nodes), round')
    BY <2>3, <2>8, <2>10, <2>11 DEF NodeOK
  <2> QED  BY <2>1, <2>2, <2>10, <2>12
<1>3. \A a \in DOMAIN nodes : nodes'[a] = IF ToPatch(a) THEN [nodes[a] EXCEPT !.late = [j \in DOMAIN @ |-> Probe(@[j])]]
                                          ELSE nodes[a]
  OBVIOUS
<1>4. \A a \in DOMAIN nodes : nodes[a] \in Cell
  BY NodeFacts
<1>5. \A a \in DOMAIN nodes : nodes'[a] \in Cell
  BY <1>2, <1>3, <1>4
<1>6. nodes' \in [1..Len(nodes) -> Cell]
  BY <1>1, <1>5
<1>7. nodes' \in Seq(Cell)
  BY <1>1, <1>6, SeqDef
<1>8. Len(nodes') = Len(nodes) /\ DOMAIN nodes' = DOMAIN nodes
  BY <1>1, <1>6, <1>7, LenProperties
<1>9. ASSUME NEW a \in DOMAIN nodes, ToPatch(a)
      PROVE  /\ nodes'[a].kind = nodes[a].kind /\ nodes'[a].child = nodes[a].child
             /\ nodes'[a].own = nodes[a].own /\ nodes'[a].copied = nodes[a].copied
             /\ nodes'[a].formal = nodes[a].formal /\ nodes'[a].made = nodes[a].made
             /\ nodes'[a].late = [j \in DOMAIN nodes[a].late |-> Probe(nodes[a].late[j])]
             /\ NodeOK(nodes'[a], Len(nodes), round')
  <2>1. nodes'[a] = [nodes[a] EXCEPT !.late = [j \in DOMAIN @ |-> Probe(@[j])]]
    BY <1>3, <1>9
  <2>2. PICK m : m = [nodes[a] EXCEPT !.late = [j \in DOMAIN @ |-> Probe(@[j])]]
    OBVIOUS
  <2>3. /\ m.kind = nodes[a].kind /\ m.child = nodes[a].child
        /\ m.own = nodes[a].own /\ m.copied = nodes[a].copied
        /\ m.formal = nodes[a].formal /\ m.made = nodes[a].made
        /\ m.late = [j \in DOMAIN nodes[a].late |-> Probe(nodes[a].late[j])]
        /\ NodeOK(m, Len(nodes), round')
    BY <2>2, <1>2
  <2>4. nodes'[a] = m
    BY <2>1, <2>2
  <2> QED  BY <2>3, <2>4
<1>10. AllPatched
  BY <1>3, <1>8, <1>9 DEF AllPatched
<1>11. \A a \in DOMAIN nodes : ToPatch(a) => nodes[a].made
  BY DEF ToPatch, Range, PatchInv
<1>12. \A a \in DOMAIN nodes : \/ nodes'[a] = nodes[a]
                               \/ /\ nodes[a].made /\ NodeOK(nodes'[a], Len(nodes'), round')
                                  /\ nodes'[a].made /\ nodes'[a].kind = nodes[a].kind
                                  /\ nodes'[a].formal = nodes[a].formal
                                  /\ nodes[a].kind # "own" =>
                                       /\ nodes'[a].own = nodes[a].own
                                       /\ Len(nodes'[a].child) = Len(nodes[a].child)
  <2> SUFFICES ASSUME NEW a \in DOMAIN nodes, nodes'[a] # nodes[a]
               PROVE  /\ nodes[a].made /\ NodeOK(nodes'[a], Len(nodes'), round')
                      /\ nodes'[a].made /\ nodes'[a].kind = nodes[a].kind
                      /\ nodes'[a].formal = nodes[a].formal
                      /\ nodes[a].kind # "own" =>
                           /\ nodes'[a].own = nodes[a].own
                           /\ Len(nodes'[a].child) = Len(nodes[a].child)
    OBVIOUS
  <2>1. ToPatch(a)
    BY <1>3
  <2> QED  BY <2>1, <1>8, <1>9, <1>11
<1>13. \A a \in DOMAIN nodes' : ~ (a > Len(nodes))
  BY <1>1, <1>8
<1>14. Len(nodes) <= Len(nodes')
  BY <1>1, <1>8
<1>15. NodesInv' /\ Grown
  BY <1>1, <1>7, <1>12, <1>13, <1>14, NodesStep
<1> QED  BY <1>10, <1>15

-----------------------------------------------------------------------------
(* What is done to the frames and to the correspondence.                   *)

LEMMA Advances ==
  ASSUME NEW s \in Seq(FrameType), Len(s) > 0
  PROVE  /\ Advanced(s) \in Seq(FrameType) /\ Len(Advanced(s)) = Len(s)
         /\ DOMAIN Advanced(s) = DOMAIN s
         /\ \A k \in DOMAIN s :
              /\ Advanced(s)[k].at = s[k].at /\ Advanced(s)[k].last = s[k].last
              /\ Advanced(s)[k].i = IF k = Len(s) THEN s[k].i + 1 ELSE s[k].i
              /\ k < Len(s) => Advanced(s)[k] = s[k]
<1> DEFINE n == Len(s)
           f == [s[n] EXCEPT !.i = @ + 1]
<1>1. n \in Nat /\ n \in DOMAIN s /\ DOMAIN s = 1..n /\ s[n] \in FrameType
  BY SeqFacts
<1>2. f \in FrameType /\ f.at = s[n].at /\ f.last = s[n].last /\ f.i = s[n].i + 1
  <2>1. \A g \in FrameType : LET h == [g EXCEPT !.i = @ + 1]
                             IN  h \in FrameType /\ h.at = g.at /\ h.last = g.last /\ h.i = g.i + 1
    BY SMTT(30) DEF FrameType
  <2> QED  BY <2>1, <1>1
<1>3. Advanced(s) = [s EXCEPT ![n] = f]
  BY DEF Advanced
<1> HIDE DEF f
<1>4. /\ Advanced(s) \in Seq(FrameType) /\ Len(Advanced(s)) = n /\ DOMAIN Advanced(s) = DOMAIN s
      /\ \A k \in DOMAIN s : Advanced(s)[k] = IF k = n THEN f ELSE s[k]
  BY <1>1, <1>2, <1>3, SetItem
<1> QED  BY <1>1, <1>2, <1>4

\* The nodes that frames stand at keep as many fields.
Steady == \A k \in DOMAIN frames : Len(nodes'[frames[k].at].child) = Len(nodes[frames[k].at].child)

LEMMA FrameStays ==
  ASSUME NodesInv, CorrInv, Grown, DOMAIN corr \subseteq DOMAIN corr', NEW f, FrameOK(f),
         Len(nodes'[f.at].child) = Len(nodes[f.at].child)
  PROVE  FrameOK(f)'
<1>1. /\ f.at \in DOMAIN nodes' /\ nodes'[f.at].made /\ nodes'[f.at].kind = nodes[f.at].kind
      /\ f.last <= Len(nodes'[f.at].child) /\ (f.i = 0 => f.last > 0)
  BY DEF FrameOK, Grown
<1>2. ASSUME nodes[f.at].kind = "own"
      PROVE  \E m \in DOMAIN corr' : nodes'[m].kind = "model" /\ nodes'[m].own = f.at
  <2>1. PICK m \in DOMAIN corr : nodes[m].kind = "model" /\ nodes[m].own = f.at
    BY <1>2 DEF FrameOK, AtModel
  <2>2. m \in DOMAIN nodes
    BY DEF CorrInv
  <2> QED  BY <2>1, <2>2 DEF Grown
<1> QED  BY <1>1, <1>2 DEF FrameOK, AtModel

(* The frames up to n stay in their places; above them is one at most.     *)
LEMMA FramesStay ==
  ASSUME WalkInv, Grown, UNCHANGED round, DOMAIN corr \subseteq DOMAIN corr', Steady,
         NEW n \in Nat, n > 0, n <= Len(frames), frames' \in Seq(FrameType), n <= Len(frames'),
         \A k \in 1..n : /\ frames'[k].at = frames[k].at /\ frames'[k].last = frames[k].last
                         /\ frames'[k].i >= frames[k].i
                         /\ k < Len(frames') => frames'[k].i <= frames'[k].last,
         \A k \in DOMAIN frames' : k > n => k = Len(frames') /\ FrameOK(frames[k])'
  PROVE  FramesInv'
<1>1. /\ Len(frames) \in Nat /\ DOMAIN frames = 1..Len(frames) /\ FramesInv /\ NodesInv /\ CorrInv
      /\ Len(frames') \in Nat /\ DOMAIN frames' = 1..Len(frames') /\ frames # <<>>
  BY FrameList, SeqFacts DEF WalkInv
<1>2. ASSUME NEW k \in DOMAIN frames', k <= n
      PROVE  FrameOK(frames[k])'
  <2>1. k \in DOMAIN frames /\ FrameOK(frames[k]) /\ k \in 1..n
    BY <1>1, <1>2 DEF FramesInv
  <2>2. PICK f : f = frames[k]
    OBVIOUS
  <2>3. PICK g : g = frames'[k]
    OBVIOUS
  <2>4. FrameOK(f) /\ Len(nodes'[f.at].child) = Len(nodes[f.at].child)
    BY <2>1, <2>2 DEF Steady
  <2>5. FrameOK(f)'
    BY <2>4, <1>1, FrameStays
  <2>6. g.at = f.at /\ g.last = f.last /\ g.i >= f.i /\ f.i \in Nat /\ g.i \in Nat
    <3>1. g \in FrameType /\ f \in FrameType
      BY <1>1, <2>1, <2>2, <2>3, FrameList, SeqFacts
    <3>2. g.i \in Nat /\ f.i \in Nat
      BY <3>1 DEF FrameType
    <3> QED  BY <3>2, <2>1, <2>2, <2>3
  <2>7. g.i = 0 => f.i = 0
    BY <2>6
  <2>8. FrameOK(g)'
    BY <2>5, <2>6, <2>7 DEF FrameOK, AtModel
  <2> QED  BY <2>3, <2>8 DEF FrameOK, AtModel
<1>3. ASSUME NEW k \in DOMAIN frames'
      PROVE  FrameOK(frames[k])' /\ (k < Len(frames') => frames'[k].i <= frames'[k].last)
  <2>1. k \in Nat /\ (k <= n \/ k > n) /\ (k <= n => k \in 1..n)
    BY <1>1
  <2> QED  BY <2>1, <1>1, <1>2
<1>4. round' <= Roots
  BY <1>1 DEF FramesInv
<1> QED  BY <1>3, <1>4 DEF FramesInv

LEMMA FramesAdvance ==
  ASSUME WalkInv, Grown, UNCHANGED round, DOMAIN corr \subseteq DOMAIN corr', Steady,
         Walking, frames' = Advanced(frames)
  PROVE  FramesInv'
<1>1. FramesInv /\ Len(frames) > 0 /\ Len(frames) \in Nat /\ DOMAIN frames = 1..Len(frames)
      /\ frames \in Seq(FrameType) /\ \A k \in DOMAIN frames : frames[k].i \in Nat
  BY AtTop, FrameList DEF WalkInv, FramesInv
<1>2. PICK n \in Nat : n = Len(frames)
  BY <1>1
<1>3. /\ frames' \in Seq(FrameType) /\ Len(frames') = n /\ DOMAIN frames' = 1..n
      /\ \A k \in 1..n : /\ frames'[k].at = frames[k].at /\ frames'[k].last = frames[k].last
                         /\ frames'[k].i = IF k = n THEN frames[k].i + 1 ELSE frames[k].i
  <2>1. frames \in Seq(FrameType) /\ Len(frames) > 0
    BY <1>1
  <2>2. /\ Advanced(frames) \in Seq(FrameType) /\ Len(Advanced(frames)) = Len(frames)
        /\ DOMAIN Advanced(frames) = DOMAIN frames
        /\ \A k \in DOMAIN frames :
             /\ Advanced(frames)[k].at = frames[k].at /\ Advanced(frames)[k].last = frames[k].last
             /\ Advanced(frames)[k].i = IF k = Len(frames) THEN frames[k].i + 1 ELSE frames[k].i
    BY <2>1, Advances
  <2> QED  BY <2>2, <1>1, <1>2
<1>4. \A k \in 1..n : /\ frames'[k].i >= frames[k].i
                      /\ k < Len(frames') => frames'[k].i <= frames'[k].last
  <2> SUFFICES ASSUME NEW k \in 1..n
               PROVE  /\ frames'[k].i >= frames[k].i
                      /\ k < Len(frames') => frames'[k].i <= frames'[k].last
    OBVIOUS
  <2>1. frames[k].i \in Nat /\ k \in DOMAIN frames /\ Len(frames') = Len(frames)
    BY <1>1, <1>2, <1>3
  <2>2. frames'[k].i = (IF k = n THEN frames[k].i + 1 ELSE frames[k].i) /\ frames'[k].last = frames[k].last
    BY <1>3
  <2>3. k < Len(frames) => frames[k].i <= frames[k].last
    BY <2>1, <1>1 DEF FramesInv
  <2> QED  BY <2>1, <2>2, <2>3, <1>2
<1>5. \A k \in DOMAIN frames' : ~ (k > n)
  BY <1>2, <1>3
<1>6. n > 0 /\ n <= Len(frames) /\ n <= Len(frames')
  <2>1. n = Len(frames) /\ n = Len(frames') /\ n > 0
    BY <1>1, <1>2, <1>3, Zenon
  <2>2. n <= n
    OBVIOUS
  <2> QED  BY <2>1, <2>2, Zenon
<1> QED  BY <1>3, <1>4, <1>5, <1>6, FramesStay

LEMMA FramesPush ==
  ASSUME WalkInv, Grown, UNCHANGED round, DOMAIN corr \subseteq DOMAIN corr', Steady,
         Walking, NEW f \in FrameType, frames' = Append(frames, f), FrameOK(f)'
  PROVE  FramesInv'
<1>1. FramesInv /\ Len(frames) > 0 /\ Len(frames) \in Nat /\ DOMAIN frames = 1..Len(frames)
      /\ frames \in Seq(FrameType) /\ \A k \in DOMAIN frames : frames[k].i \in Nat
      /\ Top = frames[Len(frames)] /\ Top.i <= Top.last
  BY AtTop, FrameList DEF WalkInv, FramesInv
<1>2. PICK n \in Nat : n = Len(frames)
  BY <1>1
<1>3. /\ frames' \in Seq(FrameType) /\ Len(frames') = n + 1 /\ frames'[n + 1] = f
      /\ \A k \in 1..n : frames'[k] = frames[k]
  BY <1>1, <1>2, AppendProperties
<1>4. DOMAIN frames' = 1..n + 1
  BY <1>3, SeqFacts
<1>5. \A k \in 1..n : frames'[k].i >= frames[k].i /\ frames[k].i <= frames[k].last
  <2> SUFFICES ASSUME NEW k \in 1..n PROVE frames'[k].i >= frames[k].i /\ frames[k].i <= frames[k].last
    OBVIOUS
  <2>1. frames[k].i \in Nat /\ frames'[k] = frames[k]
    BY <1>1, <1>2, <1>3
  <2>2. k = n \/ k < n
    OBVIOUS
  <2>3. k < n => frames[k].i <= frames[k].last
    BY <1>1, <1>2 DEF FramesInv
  <2>4. k = n => frames[k].i <= frames[k].last
    BY <1>1, <1>2
  <2> QED  BY <2>1, <2>2, <2>3, <2>4
<1>6. \A k \in 1..n : k < Len(frames') => frames'[k].i <= frames'[k].last
  BY <1>3, <1>5
<1>7. \A k \in DOMAIN frames' : k > n => k = Len(frames')
  BY <1>3, <1>4
<1>8. \A k \in DOMAIN frames' : k > n => FrameOK(frames[k])'
  <2> SUFFICES ASSUME NEW k \in DOMAIN frames', k > n PROVE FrameOK(frames[k])'
    OBVIOUS
  <2>1. frames'[k] = f
    BY <1>3, <1>7
  <2> QED  BY <2>1 DEF FrameOK, AtModel
<1>9. n <= Len(frames') /\ n <= Len(frames) /\ n > 0
  BY <1>1, <1>2, <1>3
<1> QED  BY <1>3, <1>5, <1>6, <1>7, <1>8, <1>9, FramesStay

(* No call walks the fields of a model's node before the model is copied.  *)
LEMMA NoFrameAtOwn ==
  ASSUME WalkInv, New({"model"}), NEW k \in DOMAIN frames
  PROVE  frames[k].at # nodes[Target].own
<1>1. Target \in DOMAIN nodes /\ Target \notin DOMAIN corr /\ nodes[Target].kind = "model"
  BY AtTop DEF New
<1>2. SUFFICES ASSUME frames[k].at = nodes[Target].own PROVE FALSE
  OBVIOUS
<1>3. nodes[frames[k].at].kind = "own"
  BY <1>1, <1>2, ModelFacts DEF WalkInv
<1>4. AtModel(frames[k].at)
  BY <1>3 DEF WalkInv, FramesInv, FrameOK
<1>5. PICK m \in DOMAIN corr : nodes[m].kind = "model" /\ nodes[m].own = nodes[Target].own
  BY <1>2, <1>4 DEF AtModel
<1>6. m = Target
  BY <1>1, <1>5, ModelFacts DEF WalkInv, CorrInv
<1> QED  BY <1>1, <1>6

LEMMA MapGrows ==
  ASSUME NEW m \in Maps, NEW k \in Nat, NEW v \in Nat
  PROVE  /\ Bound(m, k, v) \in Maps /\ DOMAIN Bound(m, k, v) = DOMAIN m \cup {k}
         /\ \A y \in DOMAIN m : y # k => Bound(m, k, v)[y] = m[y]
         /\ Bound(m, k, v)[k] = v
<1>1. PICK D \in SUBSET Nat : m \in [D -> Nat]
  BY DEF Maps
<1>2. Bound(m, k, v) \in [D \cup {k} -> Nat] /\ D \cup {k} \in SUBSET Nat
  BY <1>1 DEF Bound
<1>3. Bound(m, k, v) \in Maps
  BY <1>2 DEF Maps
<1> QED  BY <1>3 DEF Bound

LEMMA CorrStays ==
  ASSUME CorrInv, Grown, UNCHANGED corr
  PROVE  CorrInv'
<1>1. ASSUME NEW x \in DOMAIN corr
      PROVE  /\ x \in DOMAIN nodes' /\ corr[x] \in DOMAIN nodes'
             /\ nodes'[x].kind \in Lists => nodes'[corr[x]].kind = nodes'[x].kind /\ nodes'[corr[x]].made
  <2>1. /\ x \in DOMAIN nodes /\ corr[x] \in DOMAIN nodes
        /\ nodes[x].kind \in Lists => nodes[corr[x]].kind = nodes[x].kind /\ nodes[corr[x]].made
    BY DEF CorrInv
  <2> QED  BY <2>1 DEF Grown
<1> QED  BY <1>1 DEF CorrInv

LEMMA CorrGrows ==
  ASSUME NodesInv, CorrInv, Grown,
         NEW t \in DOMAIN nodes, NEW v \in Nat, v \in DOMAIN nodes', t \notin DOMAIN corr, corr' = Bound(corr, t, v),
         nodes[t].kind \in Lists => nodes'[v].kind = nodes[t].kind /\ nodes'[v].made
  PROVE  CorrInv' /\ DOMAIN corr \subseteq DOMAIN corr' /\ DOMAIN corr' = DOMAIN corr \cup {t}
<1>1. DOMAIN nodes = 1..Len(nodes) /\ Len(nodes) \in Nat
  BY NodeFacts
<1>2. /\ corr' \in Maps /\ DOMAIN corr' = DOMAIN corr \cup {t}
      /\ (\A x \in DOMAIN corr : x # t => corr'[x] = corr[x]) /\ corr'[t] = v
  <2>1. corr \in Maps /\ t \in Nat
    BY <1>1 DEF CorrInv
  <2>2. /\ Bound(corr, t, v) \in Maps /\ DOMAIN Bound(corr, t, v) = DOMAIN corr \cup {t}
        /\ \A y \in DOMAIN corr : y # t => Bound(corr, t, v)[y] = corr[y]
        /\ Bound(corr, t, v)[t] = v
    BY ZenonT(40), <2>1, MapGrows
  <2> QED  BY <2>2, Zenon
<1>3. ASSUME NEW x \in DOMAIN corr'
      PROVE  /\ x \in DOMAIN nodes' /\ corr'[x] \in DOMAIN nodes'
             /\ nodes'[x].kind \in Lists => nodes'[corr'[x]].kind = nodes'[x].kind /\ nodes'[corr'[x]].made
  <2>1. CASE x = t
    BY <2>1, <1>2 DEF Grown
  <2>2. CASE x # t
    <3>1. /\ x \in DOMAIN nodes /\ corr[x] \in DOMAIN nodes /\ corr'[x] = corr[x]
          /\ nodes[x].kind \in Lists => nodes[corr[x]].kind = nodes[x].kind /\ nodes[corr[x]].made
      BY <2>2, <1>2 DEF CorrInv
    <3> QED  BY <3>1 DEF Grown
  <2> QED  BY <2>1, <2>2
<1> QED  BY <1>2, <1>3 DEF CorrInv

(* What the callers enter.                                                 *)
LEMMA GivenFacts ==
  ASSUME NodesInv
  PROVE  \A a \in Givens : /\ a \in DOMAIN tree /\ a \in DOMAIN nodes /\ a \in Nat /\ a # 1
                           /\ tree[a].own \in DOMAIN tree /\ tree[a].own \in DOMAIN nodes /\ tree[a].own \in Nat
                           /\ nodes[a].kind \in Lists => /\ nodes[tree[a].own].kind = nodes[a].kind
                                                         /\ nodes[tree[a].own].made
<1> SUFFICES ASSUME NEW a \in Givens
             PROVE  /\ a \in DOMAIN tree /\ a \in DOMAIN nodes /\ a \in Nat /\ a # 1
                    /\ tree[a].own \in DOMAIN tree /\ tree[a].own \in DOMAIN nodes /\ tree[a].own \in Nat
                    /\ nodes[a].kind \in Lists => /\ nodes[tree[a].own].kind = nodes[a].kind
                                                  /\ nodes[tree[a].own].made
  OBVIOUS
<1>1. a \in DOMAIN tree /\ tree[a].own # 0 /\ tree \in Trees
  BY DEF Givens, NodesInv
<1>2. /\ DOMAIN tree \subseteq DOMAIN nodes /\ DOMAIN nodes = 1..Len(nodes) /\ Len(nodes) \in Nat
      /\ tree[1].own = 0
  BY <1>1, NodeFacts, TreeFacts
<1>3. /\ tree[a].own \in DOMAIN tree
      /\ tree[a].kind \in Lists => tree[tree[a].own].kind = tree[a].kind /\ tree[tree[a].own].made
  BY <1>1, OwnFacts
<1>4. /\ nodes[a].kind = tree[a].kind /\ nodes[tree[a].own].kind = tree[tree[a].own].kind
      /\ tree[tree[a].own].made => nodes[tree[a].own].made
  BY <1>1, <1>3 DEF NodesInv
<1> QED  BY <1>1, <1>2, <1>3, <1>4

LEMMA CorrEntered ==
  ASSUME NodesInv, CorrInv, Grown,
         NEW r, corr' = [a \in DOMAIN corr \cup Given(r) |-> IF a \in Given(r) THEN tree[a].own ELSE corr[a]]
  PROVE  CorrInv'
<1>1. /\ DOMAIN corr' = DOMAIN corr \cup Given(r) /\ Given(r) \subseteq Givens
      /\ \A a \in DOMAIN corr' : corr'[a] = IF a \in Given(r) THEN tree[a].own ELSE corr[a]
  BY DEF Given
<1>2. corr' \in Maps
  <2>1. PICK D \in SUBSET Nat : corr \in [D -> Nat]
    BY DEF CorrInv, Maps
  <2>2. Given(r) \subseteq Nat /\ \A a \in Given(r) : tree[a].own \in Nat
    BY <1>1, GivenFacts
  <2>3. corr' \in [D \cup Given(r) -> Nat] /\ D \cup Given(r) \in SUBSET Nat
    BY <2>1, <2>2
  <2> QED  BY <2>3 DEF Maps
<1>3. ASSUME NEW x \in DOMAIN corr'
      PROVE  /\ x \in DOMAIN nodes' /\ corr'[x] \in DOMAIN nodes'
             /\ nodes'[x].kind \in Lists => nodes'[corr'[x]].kind = nodes'[x].kind /\ nodes'[corr'[x]].made
  <2>1. /\ x \in DOMAIN nodes /\ corr'[x] \in DOMAIN nodes
        /\ nodes[x].kind \in Lists => nodes[corr'[x]].kind = nodes[x].kind /\ nodes[corr'[x]].made
    <3>1. CASE x \in Given(r)
      BY <3>1, <1>1, GivenFacts
    <3>2. CASE x \notin Given(r)
      BY <3>2, <1>1 DEF CorrInv
    <3> QED  BY <3>1, <3>2
  <2> QED  BY <2>1 DEF Grown
<1> QED  BY <1>2, <1>3 DEF CorrInv

LEMMA PatchesStay ==
  ASSUME PatchInv, Grown, UNCHANGED patches
  PROVE  PatchInv'
BY DEF PatchInv, Grown

LEMMA MapsStay ==
  ASSUME MapsInv, UNCHANGED <<maps, round>>
  PROVE  MapsInv'
BY DEF MapsInv

-----------------------------------------------------------------------------
(* The steps of a walk keep its invariant.                                 *)

LEMMA SameNodes ==
  ASSUME NodesInv, UNCHANGED <<nodes, tree, round>>
  PROVE  NodesInv' /\ Grown
<1>1. Len(nodes) \in Nat
  BY NodeFacts
<1> QED  BY <1>1 DEF NodesInv, Grown

\* A step that sets no pointer and copies nothing.
LEMMA StepNull ==
  ASSUME WalkInv, WalkNull \/ WalkOwn
  PROVE  WalkInv'
<1>1. Walking /\ frames' = Advanced(frames) /\ UNCHANGED <<nodes, tree, corr, patches, round, maps>>
  BY DEF WalkNull, WalkOwn, New
<1>2. NodesInv' /\ Grown /\ Steady
  BY <1>1, SameNodes DEF WalkInv, Steady
<1>3. FramesInv'
  BY <1>1, <1>2, FramesAdvance
<1> QED  BY <1>1, <1>2, <1>3, CorrStays, PatchesStay, MapsStay DEF WalkInv

LEMMA StepSeen ==
  ASSUME WalkInv, WalkSeen
  PROVE  WalkInv'
<1>1. PICK c : c = Top.at
  OBVIOUS
<1>2. PICK i : i = Field(Top)
  OBVIOUS
<1>3. PICK b : b = corr[Target]
  OBVIOUS
<1>4. /\ Walking /\ Target \in DOMAIN corr /\ nodes' = FieldSet(c, i, b)
      /\ frames' = Advanced(frames) /\ UNCHANGED <<tree, corr, patches, round, maps>>
  BY <1>1, <1>2, <1>3 DEF WalkSeen
<1>5. /\ c \in DOMAIN nodes /\ nodes[c].made /\ i \in DOMAIN nodes[c].child /\ b \in DOMAIN nodes
  BY <1>1, <1>2, <1>3, <1>4, AtTop DEF WalkInv, CorrInv
<1>6. NodesInv' /\ Grown /\ \E v \in DOMAIN nodes' : SetAt(c, i, v)
  BY <1>4, <1>5, SetField DEF WalkInv
<1>7. Steady
  <2>1. PICK v \in DOMAIN nodes' : SetAt(c, i, v)
    BY <1>6
  <2>2. DOMAIN nodes' \subseteq Nat /\ nodes[c] \in Cell
    <3>1. DOMAIN nodes' = 1..Len(nodes')
      BY <1>6, SeqFacts DEF NodesInv
    <3> QED  BY <3>1, <1>5, NodeFacts DEF WalkInv
  <2>3. Len(nodes'[c].child) = Len(nodes[c].child)
    <3>1. PICK n \in Cell : n = nodes[c]
      BY <2>2
    <3>2. nodes'[c] = SetIn(n, i, v) /\ v \in Nat /\ i \in DOMAIN n.child
      BY <2>1, <2>2, <3>1, <1>5 DEF SetAt
    <3> QED  BY <3>1, <3>2, SetFacts
  <2> QED  BY <2>1, <2>3 DEF Steady, SetAt, WalkInv, FramesInv, FrameOK
<1>8. FramesInv'
  BY <1>4, <1>6, <1>7, FramesAdvance
<1> QED  BY <1>4, <1>6, <1>8, CorrStays, PatchesStay, MapsStay DEF WalkInv

LEMMA StepSeenList ==
  ASSUME WalkInv, WalkSeenList
  PROVE  WalkInv'
<1>1. PICK c : c = corr[Target]
  OBVIOUS
<1>2. PICK n : n = Len(nodes[c].child)
  OBVIOUS
<1>3. PICK f : f = PeerFrame(c)
  OBVIOUS
<1>4. /\ Walking /\ Target \in DOMAIN corr /\ nodes[Target].kind \in Lists
      /\ frames' = Append(frames, f) /\ UNCHANGED <<nodes, tree, corr, patches, round, maps>>
  BY <1>1, <1>3 DEF WalkSeenList
<1>5. NodesInv' /\ Grown /\ Steady
  BY <1>4, SameNodes DEF WalkInv, Steady
<1>6. c \in DOMAIN nodes /\ nodes[c].made /\ nodes[c].kind \in Lists
  BY <1>1, <1>4 DEF WalkInv, CorrInv
<1>7. n \in Nat /\ n > 0 /\ c \in Nat
  <2>1. NodeOK(nodes[c], Len(nodes), round) /\ n \in Nat
    BY <1>2, <1>6, NodeFacts DEF WalkInv, NodesInv
  <2>2. DOMAIN nodes = 1..Len(nodes)
    BY NodeFacts DEF WalkInv
  <2> QED  BY <2>1, <2>2, <1>2, <1>6 DEF NodeOK
<1>8. f \in FrameType /\ f.at = c /\ f.last = n
  BY <1>2, <1>3, <1>7 DEF PeerFrame, Frame, FrameType
<1>9. FrameOK(f)'
  BY <1>2, <1>4, <1>6, <1>7, <1>8 DEF FrameOK, Lists
<1>10. FramesInv'
  BY <1>4, <1>5, <1>8, <1>9, FramesPush
<1> QED  BY <1>4, <1>5, <1>10, CorrStays, PatchesStay, MapsStay DEF WalkInv

LEMMA StepKept ==
  ASSUME WalkInv, WalkKept
  PROVE  WalkInv'
<1>1. PICK t : t = Target
  OBVIOUS
<1>2. /\ Walking /\ t \notin DOMAIN corr /\ t # 0 /\ nodes[t].kind = "kept"
      /\ corr' = Bound(corr, t, t)
      /\ frames' = Advanced(frames) /\ UNCHANGED <<nodes, tree, patches, round, maps>>
  BY <1>1 DEF WalkKept, New
<1>3. t \in DOMAIN nodes /\ t \in Nat
  BY <1>1, <1>2, AtTop
<1>4. NodesInv' /\ Grown /\ Steady
  BY <1>2, SameNodes DEF WalkInv, Steady
<1>5. t \in DOMAIN nodes' /\ nodes[t].kind \notin Lists
  BY <1>2, <1>3 DEF Lists
<1>6. CorrInv' /\ DOMAIN corr \subseteq DOMAIN corr'
  BY <1>2, <1>3, <1>4, <1>5, CorrGrows DEF WalkInv
<1>7. FramesInv'
  BY <1>2, <1>4, <1>6, FramesAdvance
<1> QED  BY <1>2, <1>4, <1>6, <1>7, PatchesStay, MapsStay DEF WalkInv

\* The frame for all fields of a node.
LEMMA WholeFrame ==
  ASSUME NEW n \in Cell, NEW c \in Nat
  PROVE  /\ WholeNode(c, n) \in FrameType /\ WholeNode(c, n).at = c /\ WholeNode(c, n).i = 1
         /\ WholeNode(c, n).last = Len(n.child)
<1>1. Len(n.child) \in Nat
  BY SeqFacts DEF Cell
<1> QED  BY <1>1 DEF WholeNode, Frame, FrameType

LEMMA StepModel ==
  ASSUME WalkInv, CopyModel
  PROVE  WalkInv'
<1>1. PICK t : t = Target
  OBVIOUS
<1>2. PICK n : n = nodes[t]
  OBVIOUS
<1>3. PICK o : o = n.own
  OBVIOUS
<1>4. PICK f : f = WholeNode(o, n)
  OBVIOUS
<1>5. /\ Walking /\ New({"model"}) /\ t # 0 /\ t \notin DOMAIN corr /\ n.kind = "model"
      /\ nodes' = [nodes EXCEPT ![o] = OwnCopy(n)]
      /\ corr' = Bound(corr, t, o) /\ frames' = Append(frames, f)
      /\ UNCHANGED <<tree, patches, round, maps>>
  BY <1>1, <1>2, <1>3, <1>4 DEF CopyModel, New, OwnCopy
<1>6. t \in DOMAIN nodes /\ t \in Nat /\ n \in Cell
  BY <1>1, <1>2, <1>5, AtTop, NodeFacts DEF WalkInv
<1>7. o \in DOMAIN nodes /\ o \in Nat /\ nodes[o].kind = "own"
  BY <1>2, <1>3, <1>5, <1>6, ModelFacts, NodeFacts DEF WalkInv
<1>8. /\ NodesInv' /\ Grown /\ Len(nodes') = Len(nodes) /\ DOMAIN nodes' = DOMAIN nodes
      /\ \A a \in DOMAIN nodes : nodes'[a] = IF a = o THEN OwnCopy(n) ELSE nodes[a]
  BY <1>2, <1>3, <1>5, <1>6, PutNode DEF WalkInv
<1>9. Steady
  <2>1. \A k \in DOMAIN frames : frames[k].at \in DOMAIN nodes /\ frames[k].at # o
    BY <1>1, <1>2, <1>3, <1>5, NoFrameAtOwn DEF WalkInv, FramesInv, FrameOK
  <2> QED  BY <2>1, <1>8 DEF Steady
<1>10. CorrInv' /\ DOMAIN corr \subseteq DOMAIN corr' /\ DOMAIN corr' = DOMAIN corr \cup {t}
  <2>1. nodes[t].kind \notin Lists /\ o \in DOMAIN nodes'
    BY <1>2, <1>5, <1>7, <1>8 DEF Lists
  <2> QED  BY <2>1, <1>5, <1>6, <1>7, <1>8, CorrGrows DEF WalkInv
<1>11. f \in FrameType /\ f.at = o /\ f.i = 1 /\ f.last = Len(n.child) /\ f.last \in Nat
  <2>1. f \in FrameType /\ f.at = o /\ f.i = 1 /\ f.last = Len(n.child)
    BY <1>4, <1>6, <1>7, WholeFrame
  <2> QED  BY <2>1 DEF FrameType
<1>12. FrameOK(f)'
  <2>1. nodes'[o] = OwnCopy(n) /\ OwnCopy(n).made /\ OwnCopy(n).child = n.child
    BY <1>6, <1>7, <1>8 DEF OwnCopy, Cell
  <2>2. t \in DOMAIN corr' /\ nodes'[t].kind = "model" /\ nodes'[t].own = o
    <3>1. t # o
      BY <1>2, <1>5, <1>7
    <3> QED  BY <3>1, <1>2, <1>3, <1>5, <1>6, <1>8, <1>10
  <2>3. \E m \in DOMAIN corr' : nodes'[m].kind = "model" /\ nodes'[m].own = f.at
    BY <2>2, <1>11
  <2> QED  BY <2>1, <2>3, <1>7, <1>8, <1>11 DEF FrameOK, AtModel
<1>13. FramesInv'
  BY <1>5, <1>8, <1>9, <1>10, <1>11, <1>12, FramesPush
<1> QED  BY <1>5, <1>8, <1>10, <1>13, PatchesStay, MapsStay DEF WalkInv

\* The copy of another node.
NewCopy(n) == [n EXCEPT !.kind = IF @ = "type" THEN "kept" ELSE @, !.made = TRUE, !.copied = round]

LEMMA CopyFacts ==
  ASSUME NodesInv, NEW t \in DOMAIN nodes, nodes[t].kind \in {"plain", "list", "names", "dtor", "type"}
  PROVE  /\ NewCopy(nodes[t]) \in Cell /\ NodeOK(NewCopy(nodes[t]), Len(nodes) + 1, round)
         /\ NewCopy(nodes[t]).made /\ NewCopy(nodes[t]).kind \notin {"own", "model"}
         /\ NewCopy(nodes[t]).kind = (IF nodes[t].kind = "type" THEN "kept" ELSE nodes[t].kind)
         /\ NewCopy(nodes[t]).child = nodes[t].child /\ NewCopy(nodes[t]).late = nodes[t].late
         /\ NewCopy(nodes[t]).formal = nodes[t].formal /\ NewCopy(nodes[t]).copied = round
<1>1. PICK n : n = nodes[t]
  OBVIOUS
<1>2. PICK m : m = NewCopy(n)
  OBVIOUS
<1>3. n \in Cell /\ NodeOK(n, Len(nodes), round) /\ round \in Nat /\ Len(nodes) \in Nat
  BY <1>1, NodeFacts DEF NodesInv
<1>4. n.kind \in {"plain", "list", "names", "dtor", "type"}
  BY <1>1
<1>5. /\ m \in Cell /\ m.kind = (IF n.kind = "type" THEN "kept" ELSE n.kind)
      /\ m.child = n.child /\ m.late = n.late /\ m.made /\ m.copied = round /\ m.formal = n.formal
  BY <1>2, <1>3, <1>4 DEF NewCopy, Cell, Kinds
<1>6. /\ \A j \in DOMAIN n.child : n.child[j] \in Nat /\ n.child[j] <= Len(nodes)
      /\ \A j \in DOMAIN n.late : n.late[j] \in Nat /\ n.late[j] <= Len(nodes)
  <2>1. /\ \A j \in DOMAIN n.child : n.child[j] \in Nat
        /\ \A j \in DOMAIN n.late : n.late[j] \in Nat
    BY <1>1, NodeFacts
  <2> QED  BY <2>1, <1>3 DEF NodeOK
<1>7. /\ \A j \in DOMAIN n.child : n.child[j] <= Len(nodes) + 1
      /\ \A j \in DOMAIN n.late : n.late[j] <= Len(nodes) + 1
  BY <1>3, <1>6
<1>8. NodeOK(m, Len(nodes) + 1, round)
  BY <1>3, <1>5, <1>7 DEF NodeOK, Lists
<1>9. m.kind \notin {"own", "model"}
  BY <1>4, <1>5
<1> QED  BY <1>1, <1>2, <1>5, <1>8, <1>9

LEMMA StepNode ==
  ASSUME WalkInv, CopyNode
  PROVE  WalkInv'
<1>1. PICK t : t = Target
  OBVIOUS
<1>2. PICK n : n = nodes[t]
  OBVIOUS
<1>3. PICK c : c = Len(nodes) + 1
  OBVIOUS
<1>4. PICK m : m = NewCopy(n)
  OBVIOUS
<1>5. PICK f : f = WholeNode(c, n)
  OBVIOUS
<1>6. /\ Walking /\ t # 0 /\ t \notin DOMAIN corr /\ n.kind \in {"plain", "list", "names", "dtor", "type"}
      /\ nodes' = Append(nodes, m)
      /\ corr' = Bound(corr, t, c) /\ frames' = Append(frames, f)
      /\ patches' = Patched(n, c)
      /\ UNCHANGED <<tree, round, maps>>
  BY <1>1, <1>2, <1>3, <1>4, <1>5 DEF CopyNode, New, WalkedNode, NewCopy
<1>7. t \in DOMAIN nodes /\ t \in Nat /\ n \in Cell /\ Len(nodes) \in Nat /\ c \in Nat
      /\ DOMAIN nodes = 1..Len(nodes)
  BY <1>1, <1>2, <1>3, <1>6, AtTop, NodeFacts DEF WalkInv
<1>8. /\ m \in Cell /\ NodeOK(m, c, round) /\ m.made /\ m.kind \notin {"own", "model"}
      /\ m.child = n.child /\ (n.kind \in Lists => m.kind = n.kind)
  <2>1. nodes[t].kind \in {"plain", "list", "names", "dtor", "type"} /\ NodesInv
    BY <1>2, <1>6 DEF WalkInv
  <2> QED  BY <2>1, <1>2, <1>3, <1>4, <1>7, CopyFacts DEF Lists
<1>9. /\ NodesInv' /\ Grown /\ Len(nodes') = c /\ DOMAIN nodes' = DOMAIN nodes \cup {c}
      /\ \A a \in DOMAIN nodes : nodes'[a] = nodes[a]
      /\ nodes'[c] = m
  BY <1>3, <1>6, <1>8, AddNode DEF WalkInv
<1>10. Steady
  BY <1>9 DEF Steady, WalkInv, FramesInv, FrameOK
<1>11. CorrInv' /\ DOMAIN corr \subseteq DOMAIN corr'
  <2>1. c \in DOMAIN nodes' /\ (nodes[t].kind \in Lists => nodes'[c].kind = nodes[t].kind /\ nodes'[c].made)
    BY <1>2, <1>8, <1>9
  <2> QED  BY <2>1, <1>6, <1>7, <1>9, CorrGrows DEF WalkInv
<1>12. f \in FrameType /\ f.at = c /\ f.i = 1 /\ f.last = Len(n.child) /\ f.last \in Nat
  <2>1. f \in FrameType /\ f.at = c /\ f.i = 1 /\ f.last = Len(n.child)
    BY <1>5, <1>7, WholeFrame
  <2> QED  BY <2>1 DEF FrameType
<1>13. FrameOK(f)'
  BY <1>8, <1>9, <1>12 DEF FrameOK
<1>14. FramesInv'
  BY <1>6, <1>9, <1>10, <1>11, <1>12, <1>13, FramesPush
<1>15. PatchInv'
  <2>1. CASE n.late = <<>>
    <3>1. UNCHANGED patches
      BY <2>1, <1>6 DEF Patched
    <3> QED  BY <3>1, <1>9, PatchesStay DEF WalkInv
  <2>2. CASE n.late # <<>>
    <3>1. patches \in Seq(Nat) /\ patches' = Append(patches, c)
      BY <2>2, <1>6 DEF Patched, WalkInv, PatchInv
    <3>2. /\ patches' \in Seq(Nat) /\ Len(patches) \in Nat /\ Len(patches') = Len(patches) + 1
          /\ DOMAIN patches' = 1..Len(patches) + 1 /\ DOMAIN patches = 1..Len(patches)
          /\ patches'[Len(patches) + 1] = c
          /\ \A p \in 1..Len(patches) : patches'[p] = patches[p]
      BY <3>1, <1>7, AppendProperties, SeqFacts
    <3>3. \A p \in DOMAIN patches' : p = Len(patches) + 1 \/ p \in DOMAIN patches
      BY <3>2
    <3>4. c \in DOMAIN nodes' /\ nodes'[c].made
      BY <1>8, <1>9
    <3> QED  BY <3>2, <3>3, <3>4, <1>9 DEF WalkInv, PatchInv
  <2> QED  BY <2>1, <2>2
<1> QED  BY <1>6, <1>9, <1>11, <1>14, <1>15, MapsStay DEF WalkInv

LEMMA StepReturn ==
  ASSUME WalkInv, Return
  PROVE  WalkInv'
<1>1. PICK n : n = Len(frames) - 1
  OBVIOUS
<1>2. PICK up : up = frames[n]
  OBVIOUS
<1>3. PICK i : i = Field(up)
  OBVIOUS
<1>4. PICK b : b = Top.at
  OBVIOUS
<1>5. PICK s : s = Front(frames)
  OBVIOUS
<1>6. /\ Len(frames) > 1 /\ nodes' = FieldSet(up.at, i, b)
      /\ frames' = Advanced(s) /\ UNCHANGED <<tree, corr, patches, round, maps>>
  BY <1>1, <1>2, <1>3, <1>4, <1>5 DEF Return
<1>7. /\ frames \in Seq(FrameType) /\ Len(frames) \in Nat /\ DOMAIN frames = 1..Len(frames)
      /\ FramesInv
  BY FrameList DEF WalkInv, FramesInv
<1>8. /\ n \in Nat /\ n > 0 /\ n < Len(frames) /\ n \in DOMAIN frames /\ Len(frames) \in DOMAIN frames
      /\ Top = frames[Len(frames)]
  BY <1>1, <1>6, <1>7 DEF Top, Last
<1>9. /\ up \in FrameType /\ FrameOK(up) /\ up.i <= up.last
  BY <1>2, <1>7, <1>8, FrameList DEF FramesInv
<1>10. /\ up.at \in DOMAIN nodes /\ nodes[up.at].made /\ i \in DOMAIN nodes[up.at].child
  BY <1>3, <1>9, FieldFacts DEF WalkInv
<1>11. b \in DOMAIN nodes
  BY <1>4, <1>8 DEF WalkInv, FramesInv, FrameOK
<1>12. NodesInv' /\ Grown /\ \E v \in DOMAIN nodes' : SetAt(up.at, i, v)
  <2>1. PICK c : c = up.at
    OBVIOUS
  <2> QED  BY <2>1, <1>6, <1>10, <1>11, SetField DEF WalkInv
<1>13. Steady
  <2>1. PICK v \in DOMAIN nodes' : SetAt(up.at, i, v)
    BY <1>12
  <2>2. DOMAIN nodes' \subseteq Nat /\ nodes[up.at] \in Cell
    <3>1. DOMAIN nodes' = 1..Len(nodes')
      BY <1>12, SeqFacts DEF NodesInv
    <3> QED  BY <3>1, <1>10, NodeFacts DEF WalkInv
  <2>3. Len(nodes'[up.at].child) = Len(nodes[up.at].child)
    <3>1. PICK m \in Cell : m = nodes[up.at]
      BY <2>2
    <3>2. nodes'[up.at] = SetIn(m, i, v) /\ v \in Nat /\ i \in DOMAIN m.child
      BY <2>1, <2>2, <3>1, <1>10 DEF SetAt
    <3> QED  BY <3>1, <3>2, SetFacts
  <2> QED  BY <2>1, <2>3 DEF Steady, SetAt, WalkInv, FramesInv, FrameOK
<1>14. /\ s \in Seq(FrameType) /\ Len(s) = n /\ DOMAIN s = 1..n
       /\ \A k \in 1..n : s[k] = frames[k]
  <2>1. Len(frames) > 0 /\ Len(frames) - 1 = n
    BY <1>1, <1>6, <1>7
  <2> QED  BY <2>1, <1>5, <1>7, FrontFacts
<1>15. /\ frames' \in Seq(FrameType) /\ Len(frames') = n /\ DOMAIN frames' = 1..n
       /\ \A k \in 1..n : /\ frames'[k].at = frames[k].at /\ frames'[k].last = frames[k].last
                          /\ frames'[k].i = IF k = n THEN frames[k].i + 1 ELSE frames[k].i
  BY <1>6, <1>8, <1>14, Advances
<1>16. \A k \in 1..n : /\ frames'[k].i >= frames[k].i
                       /\ k < Len(frames') => frames'[k].i <= frames'[k].last
  <2> SUFFICES ASSUME NEW k \in 1..n
               PROVE  /\ frames'[k].i >= frames[k].i
                      /\ k < Len(frames') => frames'[k].i <= frames'[k].last
    OBVIOUS
  <2>1. k \in DOMAIN frames /\ k < Len(frames) /\ frames[k].i \in Nat
    BY <1>7, <1>8, FrameList
  <2>2. frames[k].i <= frames[k].last
    BY <2>1, <1>7 DEF FramesInv
  <2> QED  BY <2>1, <2>2, <1>15
<1>17. \A k \in DOMAIN frames' : ~ (k > n)
  BY <1>8, <1>15
<1>18. FramesInv'
  <2>1. n <= Len(frames) /\ n <= Len(frames') /\ UNCHANGED round /\ DOMAIN corr \subseteq DOMAIN corr'
    BY <1>6, <1>7, <1>8, <1>15
  <2> QED  BY <2>1, <1>8, <1>12, <1>13, <1>15, <1>16, <1>17, FramesStay
<1> QED  BY <1>6, <1>12, <1>18, CorrStays, PatchesStay, MapsStay DEF WalkInv

LEMMA RootFrame ==
  ASSUME NEW r \in Nat, NodesInv, r <= Roots
  PROVE  /\ Frame(1, r, r) \in FrameType /\ (r > 0 => FrameOK(Frame(1, r, r)))
         /\ <<Frame(1, r, r)>> \in Seq(FrameType) /\ Len(<<Frame(1, r, r)>>) = 1
         /\ DOMAIN <<Frame(1, r, r)>> = {1} /\ <<Frame(1, r, r)>>[1] = Frame(1, r, r)
<1>1. PICK f : f = Frame(1, r, r)
  OBVIOUS
<1>2. f \in FrameType /\ f.at = 1 /\ f.i = r /\ f.last = r
  BY <1>1 DEF Frame, FrameType
<1>3. /\ 1 \in DOMAIN nodes /\ nodes[1].made /\ nodes[1].kind = "plain" /\ Len(nodes[1].child) = Roots
      /\ Roots \in Nat
  <2>1. 1 \in DOMAIN tree /\ DOMAIN tree \subseteq DOMAIN nodes /\ tree[1].kind = "plain" /\ tree[1].made
        /\ Roots \in Nat
    BY NodeFacts, TreeFacts DEF NodesInv
  <2> QED  BY <2>1 DEF NodesInv
<1>4. r > 0 => FrameOK(f)
  BY <1>2, <1>3 DEF FrameOK
<1> QED  BY <1>1, <1>2, <1>4

LEMMA StepNext ==
  ASSUME WalkInv, NextTree
  PROVE  WalkInv' /\ AllPatched /\ Grown
<1>1. frames # <<>> /\ round <= Roots /\ UNCHANGED tree /\ round' = round + 1
  BY DEF NextTree, WalkInv, FramesInv
<1>2. NodesInv' /\ Grown /\ AllPatched
  BY <1>1, PatchNodes DEF NextTree, WalkInv
<1>3. CorrInv'
  BY <1>2, CorrEntered DEF WalkInv, NextTree
<1>4. round \in Nat /\ Roots \in Nat
  BY NodeFacts DEF WalkInv
<1>5. FramesInv'
  <2>1. CASE round < Roots
    <3>1. frames' = <<Frame(1, round', round')>> /\ round' \in Nat /\ round' <= Roots /\ round' > 0
      BY <2>1, <1>1, <1>4 DEF NextTree
    <3>2. PICK r \in Nat : r = round'
      BY <3>1
    <3>3. PICK f : f = Frame(1, r, r)
      OBVIOUS
    <3>4. frames' = <<f>> /\ r <= Roots /\ r > 0
      BY <3>1, <3>2, <3>3
    <3>5. /\ <<f>> \in Seq(FrameType) /\ Len(<<f>>) = 1 /\ DOMAIN <<f>> = {1} /\ <<f>>[1] = f
      <4>1. f \in FrameType
        BY <3>3 DEF Frame, FrameType
      <4> QED  BY <4>1
    <3>6. FrameOK(f)'
      <4>1. f.at = 1 /\ f.i = r /\ f.last = r
        BY <3>3 DEF Frame
      <4>2. /\ 1 \in DOMAIN nodes' /\ nodes'[1].made /\ nodes'[1].kind = "plain"
            /\ Len(nodes'[1].child) = Roots
        <5>1. 1 \in DOMAIN tree /\ DOMAIN tree \subseteq DOMAIN nodes /\ tree[1].kind = "plain" /\ tree[1].made
          BY NodeFacts, TreeFacts DEF WalkInv, NodesInv
        <5>2. 1 \in DOMAIN nodes'
          BY <5>1, <1>2 DEF Grown
        <5>3. tree' = tree
          BY <1>1
        <5> QED  BY <5>1, <5>2, <5>3, <1>2 DEF NodesInv
      <4> QED  BY <4>1, <4>2, <3>4 DEF FrameOK
    <3>7. \A k \in DOMAIN frames' : FrameOK(frames[k])' /\ ~ (k < Len(frames'))
      <4> SUFFICES ASSUME NEW k \in DOMAIN frames' PROVE FrameOK(frames[k])' /\ ~ (k < Len(frames'))
        OBVIOUS
      <4>1. frames'[k] = f /\ k = 1 /\ Len(frames') = 1
        BY <3>4, <3>5
      <4> QED  BY <4>1, <3>6 DEF FrameOK, AtModel
    <3> QED  BY <3>2, <3>4, <3>5, <3>7 DEF FramesInv
  <2>2. CASE ~ (round < Roots)
    <3>1. frames' = <<>>
      BY <2>2 DEF NextTree
    <3> QED  BY <3>1 DEF FramesInv
  <2> QED  BY <2>1, <2>2
<1>6. PatchInv'
  BY DEF NextTree, PatchInv
<1>7. MapsInv'
  <2>1. maps \in Seq(Maps) /\ corr \in Maps /\ Len(maps) = round - 1 /\ maps' = Append(maps, corr)
    BY DEF WalkInv, MapsInv, CorrInv, NextTree
  <2> QED  BY <2>1, <1>1, <1>4, AppendProperties DEF MapsInv
<1> QED  BY <1>2, <1>3, <1>5, <1>6, <1>7 DEF WalkInv

LEMMA StartInv ==
  ASSUME CopyInit
  PROVE  WalkInv
<1>1. /\ tree \in Trees /\ nodes = tree /\ round = 1 /\ maps = <<>> /\ patches = <<>>
      /\ frames = <<Frame(1, 1, 1)>> /\ corr = [a \in Given(0) |-> tree[a].own]
  BY DEF CopyInit
<1>2. /\ Roots \in Nat \ {0}
      /\ tree \in Seq(Cell) /\ Len(tree) \in Nat /\ DOMAIN tree = 1..Len(tree)
      /\ Len(tree[1].child) = Roots
      /\ \A a \in DOMAIN tree : NodeOK(tree[a], Len(tree), 0)
  BY <1>1, TreeFacts
<1>3. NodesInv
  <2>1. \A a \in DOMAIN nodes : NodeOK(nodes[a], Len(nodes), round)
    <3> SUFFICES ASSUME NEW a \in DOMAIN tree PROVE NodeOK(tree[a], Len(tree), 1)
      BY <1>1
    <3>1. NodeOK(tree[a], Len(tree), 0)
      BY <1>2
    <3>2. tree[a].copied \in Nat /\ tree[a].copied <= 0
      BY <3>1 DEF NodeOK, Cell
    <3>3. tree[a].copied <= 1
      BY <3>2
    <3> QED  BY <3>1, <3>3 DEF NodeOK
  <2>2. \A a \in DOMAIN nodes : ~ (a > Len(tree))
    BY <1>1, <1>2
  <2> QED  BY <2>1, <2>2, <1>1, <1>2 DEF NodesInv
<1>4. CorrInv
  <2>1. \A a \in Given(0) : a \in Givens
    BY DEF Given
  <2>2. DOMAIN corr = Given(0) /\ \A a \in Given(0) : corr[a] = tree[a].own
    BY <1>1
  <2>3. corr \in Maps
    <3>1. \A a \in Given(0) : a \in Nat /\ tree[a].own \in Nat
      BY <2>1, <1>3, GivenFacts
    <3>2. corr \in [Given(0) -> Nat] /\ Given(0) \in SUBSET Nat
      BY <3>1, <1>1
    <3> QED  BY <3>2 DEF Maps
  <2> QED  BY <2>1, <2>2, <2>3, <1>3, GivenFacts DEF CorrInv
<1>5. FramesInv
  <2>1. /\ <<Frame(1, 1, 1)>> \in Seq(FrameType) /\ FrameOK(Frame(1, 1, 1)) /\ DOMAIN frames = {1}
        /\ frames[1] = Frame(1, 1, 1) /\ Len(frames) = 1
    BY <1>1, <1>2, <1>3, RootFrame
  <2> QED  BY <2>1, <1>1, <1>2 DEF FramesInv
<1>6. PatchInv /\ MapsInv
  BY <1>1 DEF PatchInv, MapsInv
<1> QED  BY <1>3, <1>4, <1>5, <1>6 DEF WalkInv

LEMMA WalkInvariant == CopySpec => []WalkInv
<1>1. CopyInit => WalkInv
  BY StartInv
<1>2. ASSUME WalkInv, [CopyNext]_copyVars
      PROVE  WalkInv'
  <2>1. CASE WalkNull \/ WalkOwn
    BY <2>1, <1>2, StepNull
  <2>2. CASE WalkSeen
    BY <2>2, <1>2, StepSeen
  <2>3. CASE WalkSeenList
    BY <2>3, <1>2, StepSeenList
  <2>4. CASE WalkKept
    BY <2>4, <1>2, StepKept
  <2>5. CASE CopyModel
    BY <2>5, <1>2, StepModel
  <2>6. CASE CopyNode
    BY <2>6, <1>2, StepNode
  <2>7. CASE Return
    BY <2>7, <1>2, StepReturn
  <2>8. CASE NextTree
    BY <2>8, <1>2, StepNext
  <2>9. CASE UNCHANGED copyVars
    BY <2>9, <1>2 DEF copyVars, WalkInv, NodesInv, CorrInv, FramesInv, FrameOK, AtModel, PatchInv,
      MapsInv
  <2> QED  BY <1>2, <2>1, <2>2, <2>3, <2>4, <2>5, <2>6, <2>7, <2>8, <2>9 DEF CopyNext
<1> QED  BY <1>1, <1>2, PTL DEF CopySpec

\* The types of the copier: pointers, correspondence and frames are in the nodes.
THEOREM CopyTypes == CopySpec => []CopyTypeOK
<1>1. ASSUME WalkInv
      PROVE  CopyTypeOK
  <2>1. round \in 1..Roots + 1 /\ Len(maps) = round - 1
    BY <1>1 DEF WalkInv, NodesInv, MapsInv
  <2>2. \A a \in DOMAIN nodes : Range(nodes[a].child) \cup Range(nodes[a].late) \subseteq 0..Len(nodes)
    BY <1>1, NodeFacts DEF WalkInv, Range
  <2> QED  BY <2>1, <2>2, <1>1 DEF WalkInv, CorrInv, FramesInv, FrameOK, CopyTypeOK
<1> QED  BY <1>1, WalkInvariant, PTL

\* A copy leaves the template as it is, from the first step on and whatever the
\* trees: also those whose lists are shared, and a name_list copies its fields
\* more than once.
THEOREM TemplateStaysIntact == CopySpec => []TemplateIntact
<1>1. WalkInv => TemplateIntact
  BY DEF WalkInv, NodesInv, TemplateIntact
<1> QED  BY <1>1, WalkInvariant, PTL

-----------------------------------------------------------------------------
(* Of trees whose lists are not shared, each pointer is walked once, and   *)
(* leads from then on to where it should.                                  *)

\* What this walk has copied, and the first node, which is not copied.
Mine == {x \in DOMAIN corr \ GivenBefore(round) : nodes[corr[x]].copied = round}
Copied == Mine \cup {1}
CopyOf(x) == IF x = 1 THEN 1 ELSE corr[x]

CorrTree ==
  /\ \A a \in GivenBefore(round) : a \in DOMAIN corr /\ corr[a] = tree[a].own
  /\ \A x \in DOMAIN corr :
       /\ x \in DOMAIN tree /\ x # 1 /\ corr[x] # 1
       /\ x \notin GivenBefore(round) => \/ corr[x] > Len(tree)
                                         \/ tree[x].kind = "kept" /\ corr[x] = x
                                         \/ tree[x].kind = "model" /\ corr[x] = tree[x].own

TreeStays ==
  /\ nodes[1].copied = 0
  /\ \A a \in DOMAIN tree : a # 1 /\ tree[a].kind # "own" => nodes[a] = tree[a]
  /\ \A a \in DOMAIN tree : tree[a].kind = "own" => nodes[a].copied \in {0, Roots}

CopiesApart == \A x, y \in Mine : corr[x] = corr[y] => x = y

\* Where the calls stand, and that each waits for the next.
CallInv ==
  /\ frames # <<>> => frames[1].at = 1 /\ frames[1].last = round
  /\ \A k, l \in DOMAIN frames : frames[k].at = frames[l].at => k = l
  /\ \A k \in DOMAIN frames :
       /\ frames[k].i >= 1
       /\ \E x \in Copied :
            /\ frames[k].at = CopyOf(x) /\ (x # 1 => frames[k].last = Len(tree[x].child))
            /\ k < Len(frames) => /\ tree[x].child[frames[k].i] \in Mine
                                  /\ corr[tree[x].child[frames[k].i]] = frames[k + 1].at

\* The field j of the copy of x has not been set.
Pending(x, j) ==
  \/ x = 1 /\ j > round
  \/ \E k \in DOMAIN frames : frames[k].at = CopyOf(x) /\ frames[k].i <= j

FieldsInv ==
  \A x \in Copied :
    /\ Len(nodes[CopyOf(x)].child) = Len(tree[x].child)
    /\ \A j \in DOMAIN tree[x].child :
         IF Pending(x, j) THEN nodes[CopyOf(x)].child[j] = tree[x].child[j]
         ELSE x = 1 \/ LeadsTo(corr, round, tree[x], j, nodes[CopyOf(x)].child[j])

LateInv ==
  /\ \A x \in Mine : /\ nodes[corr[x]].kind = "dtor" <=> tree[x].kind = "dtor"
                     /\ nodes[corr[x]].late = tree[x].late
                     /\ tree[x].late # <<>> => corr[x] \in Range(patches)
  /\ \A p \in DOMAIN patches : patches[p] > Len(tree) /\ \E x \in Mine : patches[p] = corr[x]

\* The field j of x is still to be walked.
Ahead(x, j) ==
  /\ x \in Copied
  /\ \/ x = 1 /\ j > round
     \/ \E k \in DOMAIN frames : /\ frames[k].at = CopyOf(x)
                                 /\ frames[k].i < j \/ (k = Len(frames) /\ frames[k].i = j)

\* A list is entered when the pointer to it is walked.
ListsInv ==
  \A v \in DOMAIN corr : tree[v].kind \in Lists /\ tree[v].own = 0 =>
    \E x \in DOMAIN corr \cup {1} : \E j \in DOMAIN tree[x].child :
      tree[x].child[j] = v /\ ~ Ahead(x, j)

\* The walk r has ended, and its copies are as they should.
Past(r) ==
  /\ \A a \in GivenBefore(r) : a \in DOMAIN maps[r] /\ maps[r][a] = tree[a].own
  /\ \A x \in DOMAIN maps[r] : x \in DOMAIN tree /\ maps[r][x] \in DOMAIN nodes
  /\ \A a \in DOMAIN maps[r] \ GivenBefore(r) : nodes[maps[r][a]].copied = r =>
       /\ Len(nodes[maps[r][a]].child) = Len(tree[a].child)
       /\ \A j \in DOMAIN tree[a].child :
            LeadsTo(maps[r], r, tree[a], j, nodes[maps[r][a]].child[j])
       /\ nodes[maps[r][a]].late = [j \in DOMAIN tree[a].late |-> Led(maps[r], tree[a].late[j])]

PastInv == \A r \in DOMAIN maps : Past(r)

FaithInv == /\ CorrTree /\ TreeStays /\ CopiesApart /\ CallInv /\ FieldsInv /\ LateInv
            /\ ListsInv /\ PastInv

LEMMA SameGiven ==
  ASSUME UNCHANGED tree
  PROVE  \A r : Given(r)' = Given(r) /\ GivenBefore(r)' = GivenBefore(r)
BY DEF Given, GivenBefore, Givens

\* A field of the tree leads to the tree, and not to its first node.
LEMMA FieldOfTree ==
  ASSUME NodesInv, NEW x \in DOMAIN tree, NEW j \in DOMAIN tree[x].child
  PROVE  /\ tree[x].child[j] \in 0..Len(tree) /\ tree[x].child[j] # 1
         /\ tree[x].child[j] # 0 => tree[x].child[j] \in DOMAIN tree
<1>1. tree \in Trees
  BY DEF NodesInv
<1>2. NodeOK(tree[x], Len(tree), 0) /\ tree[x].child[j] # 1 /\ Len(tree) \in Nat
      /\ DOMAIN tree = 1..Len(tree)
  BY <1>1, TreeFacts
<1>3. tree[x].child[j] \in Nat /\ tree[x].child[j] <= Len(tree)
  <2>1. tree[x].child \in Seq(Nat)
    BY <1>2 DEF NodeOK, Cell
  <2> QED  BY <2>1, <1>2, SeqFacts DEF NodeOK
<1> QED  BY <1>2, <1>3

LEMMA CopiedFacts ==
  ASSUME WalkInv, FaithInv
  PROVE  /\ \A x \in Copied : x \in DOMAIN tree /\ CopyOf(x) \in DOMAIN nodes
         /\ \A x \in Mine : /\ x # 1 /\ x \in DOMAIN corr /\ CopyOf(x) = corr[x] /\ corr[x] # 1
                            /\ nodes[corr[x]].copied = round
                            /\ corr[x] > Len(tree) \/ (tree[x].kind = "model" /\ corr[x] = tree[x].own)
         /\ \A x, y \in Copied : CopyOf(x) = CopyOf(y) => x = y
         /\ \A x \in DOMAIN corr : x \in DOMAIN tree /\ x # 1 /\ corr[x] \in DOMAIN nodes /\ corr[x] # 1
         /\ \A a \in GivenBefore(round) : a \in DOMAIN corr
         /\ Mine \subseteq Copied /\ 1 \in Copied
<1>1. 1 \in DOMAIN tree /\ DOMAIN tree \subseteq DOMAIN nodes /\ round \in Nat \ {0} /\ tree \in Trees
  BY NodeFacts DEF WalkInv, NodesInv
<1>2. \A x \in DOMAIN corr : x \in DOMAIN tree /\ x # 1 /\ corr[x] # 1 /\ corr[x] \in DOMAIN nodes
  BY DEF FaithInv, CorrTree, WalkInv, CorrInv
<1>3. ASSUME NEW x \in Mine
      PROVE  /\ x # 1 /\ x \in DOMAIN corr /\ CopyOf(x) = corr[x] /\ corr[x] # 1
             /\ nodes[corr[x]].copied = round
             /\ corr[x] > Len(tree) \/ (tree[x].kind = "model" /\ corr[x] = tree[x].own)
  <2>1. x \in DOMAIN corr /\ x \notin GivenBefore(round) /\ nodes[corr[x]].copied = round
    BY DEF Mine
  <2>2. ~ (tree[x].kind = "kept" /\ corr[x] = x)
    <3> SUFFICES ASSUME tree[x].kind = "kept", corr[x] = x PROVE FALSE
      OBVIOUS
    <3>1. nodes[x] = tree[x] /\ tree[x].copied = 0
      BY <1>1, <1>2, <2>1, TreeFacts DEF FaithInv, TreeStays
    <3> QED  BY <3>1, <2>1, <1>1
  <2> QED  BY <1>2, <2>1, <2>2 DEF CopyOf, FaithInv, CorrTree
<1>4. \A x \in Copied : x = 1 \/ x \in Mine
  BY DEF Copied
<1>5. \A x \in Copied : x \in DOMAIN tree /\ CopyOf(x) \in DOMAIN nodes
  BY <1>1, <1>2, <1>3, <1>4 DEF CopyOf
<1>6. ASSUME NEW x \in Copied, NEW y \in Copied, CopyOf(x) = CopyOf(y)
      PROVE  x = y
  <2>1. CASE x = 1
    BY <2>1, <1>3, <1>4, <1>6 DEF CopyOf
  <2>2. CASE y = 1
    BY <2>2, <1>3, <1>4, <1>6 DEF CopyOf
  <2>3. CASE x # 1 /\ y # 1
    <3>1. x \in Mine /\ y \in Mine /\ corr[x] = corr[y]
      BY <2>3, <1>4, <1>6 DEF CopyOf
    <3> QED  BY <3>1 DEF FaithInv, CopiesApart
  <2> QED  BY <2>1, <2>2, <2>3
<1>7. \A a \in GivenBefore(round) : a \in DOMAIN corr
  BY DEF FaithInv, CorrTree
<1> QED  BY <1>2, <1>3, <1>5, <1>6, <1>7 DEF Copied

\* A call stands at a field that leads where that of the original leads.
LEMMA FrameSite ==
  ASSUME WalkInv, FaithInv, NEW k \in DOMAIN frames, frames[k].i <= frames[k].last
  PROVE  \E x \in Copied :
           /\ x \in DOMAIN tree /\ frames[k].at = CopyOf(x) /\ Field(frames[k]) = frames[k].i
           /\ frames[k].i \in DOMAIN tree[x].child
           /\ nodes[CopyOf(x)].child[frames[k].i] = tree[x].child[frames[k].i]
           /\ x = 1 => frames[k].i <= round
           /\ k < Len(frames) => /\ tree[x].child[frames[k].i] \in Mine
                                 /\ corr[tree[x].child[frames[k].i]] = frames[k + 1].at
<1>1. PICK x \in Copied :
            /\ frames[k].at = CopyOf(x) /\ (x # 1 => frames[k].last = Len(tree[x].child))
            /\ k < Len(frames) => /\ tree[x].child[frames[k].i] \in Mine
                                  /\ corr[tree[x].child[frames[k].i]] = frames[k + 1].at
  BY DEF FaithInv, CallInv
<1>2. PICK i \in Nat : i = frames[k].i /\ i >= 1
  BY FrameList DEF WalkInv, FaithInv, CallInv
<1>3. x \in DOMAIN tree /\ CopyOf(x) \in DOMAIN nodes
  BY CopiedFacts
<1>4. Field(frames[k]) = i
  BY <1>2 DEF Field
<1>5. i \in DOMAIN nodes[CopyOf(x)].child
  <2>1. frames[k] \in FrameType /\ FrameOK(frames[k])
    BY FrameList DEF WalkInv, FramesInv
  <2>2. Field(frames[k]) \in DOMAIN nodes[frames[k].at].child
    BY <2>1, FieldFacts DEF WalkInv
  <2> QED  BY <2>2, <1>1, <1>4
<1>6. i \in DOMAIN tree[x].child
  <2>1. Len(nodes[CopyOf(x)].child) = Len(tree[x].child)
    BY DEF FaithInv, FieldsInv
  <2>2. DOMAIN nodes[CopyOf(x)].child = 1..Len(nodes[CopyOf(x)].child)
    BY <1>3, NodeFacts DEF WalkInv
  <2>3. DOMAIN tree[x].child = 1..Len(tree[x].child)
    <3>1. tree[x] \in Cell
      BY <1>3, TreeFacts DEF WalkInv, NodesInv, NodeOK
    <3> QED  BY <3>1, SeqFacts DEF Cell
  <2> QED  BY <2>1, <2>2, <2>3, <1>5
<1>7. Pending(x, i)
  <2>1. i <= i
    BY <1>2
  <2> QED  BY <2>1, <1>1, <1>2 DEF Pending
<1>8. nodes[CopyOf(x)].child[i] = tree[x].child[i]
  BY <1>6, <1>7 DEF FaithInv, FieldsInv
<1>9. x = 1 => i <= round
  <2> SUFFICES ASSUME x = 1 PROVE i <= round
    OBVIOUS
  <2>1. frames[k].at = 1 /\ frames # <<>> /\ 1 \in DOMAIN frames
    <3>1. DOMAIN frames = 1..Len(frames) /\ Len(frames) \in Nat
      BY FrameList DEF WalkInv
    <3> QED  BY <3>1, <1>1 DEF CopyOf
  <2>2. k = 1 /\ frames[1].last = round
    BY <2>1 DEF FaithInv, CallInv
  <2> QED  BY <2>2, <1>2
<1> QED  BY <1>1, <1>2, <1>3, <1>4, <1>6, <1>8, <1>9

\* A pointer that leads where it should does so when more has been copied.
LEMMA LeadsStays ==
  ASSUME NodesInv, Grown, UNCHANGED tree, NEW m, NEW w, NEW r, NEW x,
         NEW y \in DOMAIN tree, NEW j \in DOMAIN tree[y].child,
         \A v \in DOMAIN m : m[v] \in DOMAIN nodes /\ v \in DOMAIN w /\ w[v] = m[v],
         \A v \in DOMAIN w : v \notin DOMAIN m =>
           v # 0 /\ tree[v].kind # "own" /\ (w[v] \in DOMAIN nodes => w[v] \in DOMAIN tree),
         x \in DOMAIN nodes /\ x \notin DOMAIN tree /\ x \notin Range(m) /\ nodes[x].copied = r
           => nodes'[x] = nodes[x],
         LeadsTo(m, r, tree[y], j, x)
  PROVE  LeadsTo(w, r, tree[y], j, x)'
<1>1. PICK v : v = tree[y].child[j]
  OBVIOUS
<1>2. PICK b : b = Led(m, v)
  OBVIOUS
<1>3. /\ v = 0 \/ v \in DOMAIN m \/ tree[v].kind = "own"
      /\ IF tree[y].kind = "dtor" /\ j = 2 /\ b # 0 /\ nodes[b].formal
         THEN /\ x \in DOMAIN nodes \ (DOMAIN tree \cup Range(m)) /\ nodes[x].copied = r
              /\ b \in DOMAIN tree => nodes[x].child = tree[b].child /\ nodes[x].late = tree[b].late
         ELSE x = b
  BY <1>1, <1>2 DEF LeadsTo
<1>4. v \in DOMAIN nodes \/ v = 0
  <2>1. v = 0 \/ v \in DOMAIN tree
    BY <1>1, FieldOfTree
  <2> QED  BY <2>1, NodeFacts
<1>5. Led(w, v) = b
  <2>1. CASE v \in DOMAIN m
    BY <2>1, <1>2 DEF Led
  <2>2. CASE v \notin DOMAIN m
    <3>1. v \notin DOMAIN w
      BY <2>2, <1>3
    <3> QED  BY <3>1, <2>2, <1>2 DEF Led
  <2> QED  BY <2>1, <2>2
<1>6. b # 0 => b \in DOMAIN nodes /\ nodes'[b].formal = nodes[b].formal
  <2>1. b = v \/ (v \in DOMAIN m /\ b = m[v])
    BY <1>2 DEF Led
  <2>2. b # 0 => b \in DOMAIN nodes
    BY <2>1, <1>4
  <2> QED  BY <2>2 DEF Grown
<1>7. v = 0 \/ v \in DOMAIN w \/ tree[v].kind = "own"
  BY <1>3
<1>8. ASSUME x \in DOMAIN nodes, x \notin DOMAIN tree, x \notin Range(m), nodes[x].copied = r
      PROVE  x \in DOMAIN nodes' /\ x \notin Range(w) /\ nodes'[x] = nodes[x]
  <2>1. nodes'[x] = nodes[x] /\ x \in DOMAIN nodes'
    BY <1>8 DEF Grown
  <2>2. ASSUME x \in Range(w) PROVE FALSE
    <3>1. PICK u \in DOMAIN w : w[u] = x
      BY <2>2 DEF Range
    <3>2. u \notin DOMAIN m
      BY <3>1, <1>8 DEF Range
    <3> QED  BY <3>1, <3>2, <1>8
  <2> QED  BY <2>1, <2>2
<1>9. IF tree[y].kind = "dtor" /\ j = 2 /\ b # 0 /\ nodes'[b].formal
      THEN /\ x \in DOMAIN nodes' \ (DOMAIN tree \cup Range(w)) /\ nodes'[x].copied = r
           /\ b \in DOMAIN tree => nodes'[x].child = tree[b].child /\ nodes'[x].late = tree[b].late
      ELSE x = b
  BY <1>3, <1>6, <1>8
<1>10. tree' = tree
  OBVIOUS
<1> QED  BY <1>1, <1>5, <1>7, <1>9, <1>10 DEF LeadsTo

-----------------------------------------------------------------------------
(* A field of a copy is done with.                                         *)

\* The frame n goes on; the frame above it is no more.
DoneFrames(n) ==
  /\ n \in Nat /\ n \in DOMAIN frames /\ Len(frames') = n /\ DOMAIN frames' = 1..n
  /\ frames[n].i <= frames[n].last
  /\ n = Len(frames) \/ (n + 1 = Len(frames) /\ Top.i > Top.last)
  /\ \A k \in 1..n : /\ frames'[k].at = frames[k].at /\ frames'[k].last = frames[k].last
                     /\ frames'[k].i = IF k = n THEN frames[k].i + 1 ELSE frames[k].i

\* The walk goes on with the same copies.
SameCopies ==
  /\ Mine' = Mine
  /\ \A x \in Copied : CopyOf(x)' = CopyOf(x)

LEMMA FrameNumbers ==
  ASSUME WalkInv, NEW n, DoneFrames(n)
  PROVE  /\ Len(frames) \in Nat /\ DOMAIN frames = 1..Len(frames) /\ n \in 1..Len(frames)
         /\ frames # <<>> /\ 1 \in DOMAIN frames
         /\ \A k \in DOMAIN frames : k \in Nat /\ frames[k].i \in Nat /\ frames[k].last \in Nat
         /\ \A k \in DOMAIN frames : k \in 1..n \/ (k = n + 1 /\ k = Len(frames) /\ frames[k].i > frames[k].last)
<1>1. /\ Len(frames) \in Nat /\ DOMAIN frames = 1..Len(frames)
      /\ \A k \in DOMAIN frames : k \in Nat /\ frames[k].i \in Nat /\ frames[k].last \in Nat
  BY FrameList DEF WalkInv
<1>2. n \in 1..Len(frames) /\ frames # <<>> /\ 1 \in DOMAIN frames
  <2>1. n \in DOMAIN frames
    BY DEF DoneFrames
  <2>2. frames # <<>> <=> Len(frames) > 0
    BY FrameList DEF WalkInv
  <2>3. n \in 1..Len(frames) /\ Len(frames) > 0
    BY <2>1, <1>1
  <2> QED  BY <2>2, <2>3, <1>1
<1>3. Top = frames[Len(frames)]
  BY DEF Top, Last
<1>4. ASSUME NEW k \in DOMAIN frames
      PROVE  k \in 1..n \/ (k = n + 1 /\ k = Len(frames) /\ frames[k].i > frames[k].last)
  <2>1. CASE n = Len(frames)
    BY <2>1, <1>1
  <2>2. CASE n + 1 = Len(frames) /\ Top.i > Top.last
    <3>1. k \in 1..n \/ k = n + 1
      BY <2>2, <1>1, <1>2
    <3> QED  BY <3>1, <2>2, <1>3
  <2> QED  BY <2>1, <2>2 DEF DoneFrames
<1> QED  BY <1>1, <1>2, <1>4

LEMMA CallsDone ==
  ASSUME WalkInv, FaithInv, NEW n, DoneFrames(n), SameCopies, UNCHANGED <<tree, round>>,
         \A y \in DOMAIN corr : corr'[y] = corr[y]
  PROVE  CallInv'
<1>1. /\ Len(frames) \in Nat /\ DOMAIN frames = 1..Len(frames) /\ n \in 1..Len(frames)
      /\ frames # <<>> /\ 1 \in DOMAIN frames
      /\ \A k \in DOMAIN frames : k \in Nat /\ frames[k].i \in Nat
  BY FrameNumbers
<1>2. /\ DOMAIN frames' = 1..n /\ Len(frames') = n
      /\ \A k \in 1..n : /\ frames'[k].at = frames[k].at /\ frames'[k].last = frames[k].last
                         /\ frames'[k].i = IF k = n THEN frames[k].i + 1 ELSE frames[k].i
  BY DEF DoneFrames
<1>3. frames[1].at = 1 /\ frames[1].last = round
  BY <1>1 DEF FaithInv, CallInv
<1>4. frames'[1].at = 1 /\ frames'[1].last = round'
  BY <1>1, <1>2, <1>3
<1>5. \A k, l \in DOMAIN frames' : frames'[k].at = frames'[l].at => k = l
  BY <1>1, <1>2 DEF FaithInv, CallInv
<1>6. ASSUME NEW k \in DOMAIN frames'
      PROVE  /\ frames'[k].i >= 1
             /\ \E x \in Copied' :
                  /\ frames'[k].at = CopyOf(x)' /\ (x # 1 => frames'[k].last = Len(tree'[x].child))
                  /\ k < Len(frames') => /\ tree'[x].child[frames'[k].i] \in Mine'
                                         /\ corr'[tree'[x].child[frames'[k].i]] = frames'[k + 1].at
  <2>1. k \in 1..n /\ k \in DOMAIN frames /\ (k < n => k < Len(frames)) /\ (k < n => k + 1 \in 1..n)
    BY <1>1, <1>2
  <2>2. PICK x \in Copied :
            /\ frames[k].at = CopyOf(x) /\ (x # 1 => frames[k].last = Len(tree[x].child))
            /\ k < Len(frames) => /\ tree[x].child[frames[k].i] \in Mine
                                  /\ corr[tree[x].child[frames[k].i]] = frames[k + 1].at
    BY <2>1 DEF FaithInv, CallInv
  <2>3. frames[k].i >= 1
    BY <2>1 DEF FaithInv, CallInv
  <2>4. frames'[k].i >= 1
    BY <2>1, <2>3, <1>1, <1>2
  <2>5. x \in Copied' /\ CopyOf(x)' = CopyOf(x)
    BY DEF SameCopies, Copied
  <2>6. k < n => /\ tree[x].child[frames[k].i] \in Mine'
                 /\ corr'[tree[x].child[frames[k].i]] = frames'[k + 1].at
    BY <2>1, <2>2, <1>2 DEF SameCopies, Mine
  <2>7. k < n => frames'[k].i = frames[k].i
    BY <2>1, <1>1, <1>2
  <2> QED  BY <2>1, <2>2, <2>4, <2>5, <2>6, <2>7, <1>2
<1> QED  BY <1>4, <1>5, <1>6 DEF CallInv

LEMMA PendingDone ==
  ASSUME WalkInv, FaithInv, NEW n, DoneFrames(n), SameCopies, UNCHANGED <<tree, round>>,
         NEW x \in Copied, NEW j \in DOMAIN tree[x].child
  PROVE  /\ Pending(x, j)' => Pending(x, j) /\ ~ (CopyOf(x) = frames[n].at /\ j = frames[n].i)
         /\ Pending(x, j) => Pending(x, j)' \/ (CopyOf(x) = frames[n].at /\ j = frames[n].i)
<1>1. /\ Len(frames) \in Nat /\ DOMAIN frames = 1..Len(frames) /\ n \in 1..Len(frames)
      /\ frames # <<>> /\ 1 \in DOMAIN frames
      /\ \A k \in DOMAIN frames : k \in Nat /\ frames[k].i \in Nat /\ frames[k].last \in Nat
      /\ \A k \in DOMAIN frames : k \in 1..n \/ (k = n + 1 /\ k = Len(frames) /\ frames[k].i > frames[k].last)
  BY FrameNumbers
<1>2. /\ DOMAIN frames' = 1..n
      /\ \A k \in 1..n : /\ frames'[k].at = frames[k].at
                         /\ frames'[k].i = IF k = n THEN frames[k].i + 1 ELSE frames[k].i
      /\ frames[n].i <= frames[n].last
  BY DEF DoneFrames
<1>3. CopyOf(x)' = CopyOf(x) /\ x \in DOMAIN tree
  BY CopiedFacts DEF SameCopies
<1>4. j \in Nat /\ j >= 1 /\ j <= Len(tree[x].child)
  <2>1. tree[x].child \in Seq(Nat)
    <3>1. tree[x] \in Cell
      BY <1>3, TreeFacts DEF WalkInv, NodesInv, NodeOK
    <3> QED  BY <3>1 DEF Cell
  <2>2. DOMAIN tree[x].child = 1..Len(tree[x].child) /\ Len(tree[x].child) \in Nat
    BY <2>1, SeqFacts
  <2> QED  BY <2>2
<1>5. \A k, l \in DOMAIN frames : frames[k].at = frames[l].at => k = l
  BY DEF FaithInv, CallInv
<1>6. ASSUME NEW k \in DOMAIN frames', frames'[k].at = CopyOf(x)', frames'[k].i <= j
      PROVE  Pending(x, j) /\ ~ (CopyOf(x) = frames[n].at /\ j = frames[n].i)
  <2>1. k \in DOMAIN frames /\ k \in 1..n /\ frames[k].at = CopyOf(x)
    BY <1>1, <1>2, <1>3, <1>6
  <2>2. frames[k].i <= j /\ (k = n => j # frames[n].i)
    BY <2>1, <1>1, <1>2, <1>4, <1>6
  <2>3. CopyOf(x) = frames[n].at => k = n
    BY <2>1, <1>1, <1>5
  <2> QED  BY <2>1, <2>2, <2>3 DEF Pending
<1>7. ASSUME x = 1, j > round
      PROVE  ~ (CopyOf(x) = frames[n].at /\ j = frames[n].i)
  <2> SUFFICES ASSUME frames[n].at = 1 PROVE j # frames[n].i
    BY <1>7 DEF CopyOf
  <2>1. frames[1].at = 1 /\ frames[1].last = round
    BY <1>1 DEF FaithInv, CallInv
  <2>2. n = 1
    BY <2>1, <1>1, <1>5
  <2>3. round \in Nat
    BY NodeFacts DEF WalkInv
  <2> QED  BY <2>1, <2>2, <2>3, <1>1, <1>2, <1>4, <1>7
<1>8. Pending(x, j)' => Pending(x, j) /\ ~ (CopyOf(x) = frames[n].at /\ j = frames[n].i)
  <2>1. Pending(x, j)' => \/ x = 1 /\ j > round
                          \/ \E k \in DOMAIN frames' : frames'[k].at = CopyOf(x)' /\ frames'[k].i <= j
    BY DEF Pending
  <2>2. x = 1 /\ j > round => Pending(x, j)
    BY DEF Pending
  <2> QED  BY <2>1, <2>2, <1>6, <1>7
<1>9. ASSUME NEW k \in DOMAIN frames, frames[k].at = CopyOf(x), frames[k].i <= j,
             ~ (CopyOf(x) = frames[n].at /\ j = frames[n].i)
      PROVE  Pending(x, j)'
  <2>1. CASE k \in 1..n
    <3>1. frames'[k].at = CopyOf(x) /\ k \in DOMAIN frames'
      BY <2>1, <1>2, <1>9
    <3>2. frames'[k].i <= j
      BY <2>1, <1>1, <1>2, <1>4, <1>9
    <3> QED  BY <3>1, <3>2, <1>3 DEF Pending
  <2>2. CASE k = n + 1 /\ k = Len(frames) /\ frames[k].i > frames[k].last
    <3>1. x # 1
      <4> SUFFICES ASSUME x = 1 PROVE FALSE
        OBVIOUS
      <4>1. frames[k].at = frames[1].at
        BY <1>1, <1>9 DEF FaithInv, CallInv, CopyOf
      <4>2. k = 1
        BY <4>1, <1>1, <1>5
      <4> QED  BY <4>2, <2>2, <1>1
    <3>2. PICK y \in Copied : frames[k].at = CopyOf(y) /\ (y # 1 => frames[k].last = Len(tree[y].child))
      BY DEF FaithInv, CallInv
    <3>3. x = y
      BY ZenonT(40), <3>2, <1>9, CopiedFacts
    <3>4. frames[k].last = Len(tree[x].child) /\ frames[k].i \in Nat /\ frames[k].last \in Nat
      BY <3>1, <3>2, <3>3, <1>1
    <3> QED  BY <3>4, <2>2, <1>4, <1>9
  <2> QED  BY <2>1, <2>2, <1>1
<1>10. Pending(x, j) => Pending(x, j)' \/ (CopyOf(x) = frames[n].at /\ j = frames[n].i)
  <2>1. x = 1 /\ j > round => Pending(x, j)'
    BY DEF Pending
  <2> QED  BY <2>1, <1>9 DEF Pending
<1> QED  BY <1>8, <1>10

LEMMA AheadDone ==
  ASSUME WalkInv, FaithInv, NEW n, DoneFrames(n), SameCopies, UNCHANGED <<tree, round>>,
         NEW x \in DOMAIN corr \cup {1}, NEW j \in DOMAIN tree[x].child, Ahead(x, j)'
  PROVE  Ahead(x, j)
<1>1. /\ Len(frames) \in Nat /\ DOMAIN frames = 1..Len(frames) /\ n \in 1..Len(frames)
      /\ \A k \in DOMAIN frames : k \in Nat /\ frames[k].i \in Nat
  BY FrameNumbers
<1>2. /\ DOMAIN frames' = 1..n /\ Len(frames') = n
      /\ \A k \in 1..n : /\ frames'[k].at = frames[k].at
                         /\ frames'[k].i = IF k = n THEN frames[k].i + 1 ELSE frames[k].i
  BY DEF DoneFrames
<1>3. x \in Copied /\ CopyOf(x)' = CopyOf(x) /\ x \in DOMAIN tree
  BY CopiedFacts DEF SameCopies, Copied, Ahead
<1>4. j \in Nat
  <2>1. tree[x].child \in Seq(Nat)
    <3>1. tree[x] \in Cell
      BY <1>3, TreeFacts DEF WalkInv, NodesInv, NodeOK
    <3> QED  BY <3>1 DEF Cell
  <2>2. DOMAIN tree[x].child = 1..Len(tree[x].child) /\ Len(tree[x].child) \in Nat
    BY <2>1, SeqFacts
  <2> QED  BY <2>2
<1>5. CASE x = 1 /\ j > round
  BY <1>3, <1>5 DEF Ahead
<1>6. CASE ~ (x = 1 /\ j > round)
  <2>1. PICK k \in DOMAIN frames' :
          /\ frames'[k].at = CopyOf(x)'
          /\ frames'[k].i < j \/ (k = Len(frames') /\ frames'[k].i = j)
    BY <1>6 DEF Ahead
  <2>2. k \in DOMAIN frames /\ frames[k].at = CopyOf(x)
    BY <2>1, <1>1, <1>2, <1>3
  <2>3. frames[k].i < j
    BY <2>1, <2>2, <1>1, <1>2, <1>4, <1>6
  <2> QED  BY <2>2, <2>3, <1>3 DEF Ahead
<1> QED  BY <1>5, <1>6

\* What has been copied by walks that have ended is not written.
LEMMA PastStays ==
  ASSUME WalkInv, FaithInv, Grown, UNCHANGED tree, NEW r \in DOMAIN maps, r \in DOMAIN maps', maps'[r] = maps[r],
         \A a \in DOMAIN nodes : nodes'[a] # nodes[a] => /\ nodes[a].copied \in {0, round}
                                                         /\ nodes'[a].copied \in {0, round}
  PROVE  Past(r)'
<1>1. r \in Nat /\ r # 0 /\ r # round
  <2>1. maps \in Seq(Maps) /\ Len(maps) = round - 1 /\ round \in Nat
    BY NodeFacts DEF WalkInv, MapsInv
  <2>2. DOMAIN maps = 1..round - 1
    BY <2>1, SeqFacts
  <2> QED  BY <2>1, <2>2
<1>2. PICK m : m = maps[r]
  OBVIOUS
<1>3. PICK g : g = GivenBefore(r)
  OBVIOUS
<1>4. GivenBefore(r)' = g
  BY <1>3, SameGiven
<1>5. /\ \A a \in g : a \in DOMAIN m /\ m[a] = tree[a].own
      /\ \A x \in DOMAIN m : x \in DOMAIN tree /\ m[x] \in DOMAIN nodes
      /\ \A a \in DOMAIN m \ g : nodes[m[a]].copied = r =>
           /\ Len(nodes[m[a]].child) = Len(tree[a].child)
           /\ \A j \in DOMAIN tree[a].child : LeadsTo(m, r, tree[a], j, nodes[m[a]].child[j])
           /\ nodes[m[a]].late = [j \in DOMAIN tree[a].late |-> Led(m, tree[a].late[j])]
  BY <1>2, <1>3 DEF FaithInv, PastInv, Past
<1>6. \A x \in DOMAIN m : x \in DOMAIN tree /\ m[x] \in DOMAIN nodes'
  BY <1>5 DEF Grown
<1>7. ASSUME NEW a \in DOMAIN m \ g, nodes'[m[a]].copied = r
      PROVE  /\ Len(nodes'[m[a]].child) = Len(tree'[a].child)
             /\ \A j \in DOMAIN tree'[a].child : LeadsTo(m, r, tree[a], j, nodes[m[a]].child[j])'
             /\ nodes'[m[a]].late = [j \in DOMAIN tree'[a].late |-> Led(m, tree'[a].late[j])]
  <2>1. nodes'[m[a]] = nodes[m[a]] /\ a \in DOMAIN tree
    BY <1>1, <1>5, <1>7
  <2>2. /\ Len(nodes[m[a]].child) = Len(tree[a].child)
        /\ \A j \in DOMAIN tree[a].child : LeadsTo(m, r, tree[a], j, nodes[m[a]].child[j])
        /\ nodes[m[a]].late = [j \in DOMAIN tree[a].late |-> Led(m, tree[a].late[j])]
    BY <2>1, <1>5, <1>7
  <2>3. ASSUME NEW j \in DOMAIN tree[a].child
        PROVE  LeadsTo(m, r, tree[a], j, nodes[m[a]].child[j])'
    <3>1. PICK x : x = nodes[m[a]].child[j]
      OBVIOUS
    <3>2. LeadsTo(m, r, tree[a], j, x)
      BY <3>1, <2>2
    <3>3. x \in DOMAIN nodes /\ nodes[x].copied = r => nodes'[x] = nodes[x]
      BY <1>1
    <3>4. /\ \A v \in DOMAIN m : m[v] \in DOMAIN nodes /\ v \in DOMAIN m /\ m[v] = m[v]
          /\ \A v \in DOMAIN m : v \notin DOMAIN m =>
               v # 0 /\ tree[v].kind # "own" /\ (m[v] \in DOMAIN nodes => m[v] \in DOMAIN tree)
      BY <1>5
    <3>5. NodesInv
      BY DEF WalkInv
    <3>6. LeadsTo(m, r, tree[a], j, x)'
      BY <2>1, <3>2, <3>3, <3>4, <3>5, LeadsStays
    <3>7. nodes'[m[a]].child[j] = x
      BY <2>1, <3>1
    <3> QED  BY <3>6, <3>7
  <2> QED  BY <2>1, <2>2, <2>3
<1>8. maps'[r] = m /\ tree' = tree
  BY <1>2
<1> QED  BY <1>4, <1>5, <1>6, <1>7, <1>8 DEF Past

\* The step is done with the field i of the copy of x.
DoneWith(x, i) ==
  /\ UNCHANGED <<tree, round, patches, maps>>
  /\ \A y \in DOMAIN corr : y \in DOMAIN corr' /\ corr'[y] = corr[y]
  /\ \A y \in DOMAIN corr' : y \notin DOMAIN corr =>
       y \in DOMAIN tree /\ y # 1 /\ tree[y].kind = "kept" /\ corr'[y] = y
  /\ \A a \in DOMAIN nodes : a # CopyOf(x) => nodes'[a] = nodes[a]
  /\ nodes'[CopyOf(x)].kind = nodes[CopyOf(x)].kind /\ nodes'[CopyOf(x)].late = nodes[CopyOf(x)].late
  /\ nodes'[CopyOf(x)].copied = nodes[CopyOf(x)].copied
  /\ Len(nodes'[CopyOf(x)].child) = Len(nodes[CopyOf(x)].child)
  /\ \A j \in DOMAIN tree[x].child : j # i => nodes'[CopyOf(x)].child[j] = nodes[CopyOf(x)].child[j]

LEMMA DoneSame ==
  ASSUME WalkInv, FaithInv, NEW x \in Copied, NEW i, DoneWith(x, i)
  PROVE  /\ SameCopies /\ GivenBefore(round)' = GivenBefore(round) /\ Copied' = Copied
         /\ \A a \in DOMAIN nodes : nodes'[a].copied = nodes[a].copied /\ nodes'[a].kind = nodes[a].kind
<1>1. GivenBefore(round)' = GivenBefore(round)
  BY SameGiven DEF DoneWith
<1>2. \A a \in DOMAIN nodes : nodes'[a].copied = nodes[a].copied /\ nodes'[a].kind = nodes[a].kind
  BY DEF DoneWith
<1>3. ASSUME NEW y \in Mine
      PROVE  y \in Mine'
  <2>1. y \in DOMAIN corr /\ y \notin GivenBefore(round) /\ nodes[corr[y]].copied = round
    BY DEF Mine
  <2>2. corr[y] \in DOMAIN nodes
    BY <2>1, CopiedFacts
  <2> QED  BY <2>1, <2>2, <1>1, <1>2 DEF Mine, DoneWith
<1>4. ASSUME NEW y \in Mine'
      PROVE  y \in Mine
  <2>1. y \in DOMAIN corr' /\ y \notin GivenBefore(round) /\ nodes'[corr'[y]].copied = round
    BY <1>1 DEF Mine, DoneWith
  <2>2. CASE y \in DOMAIN corr
    <3>1. corr'[y] = corr[y] /\ corr[y] \in DOMAIN nodes
      BY <2>2, CopiedFacts DEF DoneWith
    <3> QED  BY <3>1, <2>1, <2>2, <1>2 DEF Mine
  <2>3. CASE y \notin DOMAIN corr
    <3>1. y \in DOMAIN tree /\ y # 1 /\ tree[y].kind = "kept" /\ corr'[y] = y
      BY <2>1, <2>3 DEF DoneWith
    <3>2. nodes[y] = tree[y] /\ tree[y].copied = 0 /\ y \in DOMAIN nodes /\ round # 0
      BY <3>1, TreeFacts, NodeFacts DEF FaithInv, TreeStays, WalkInv, NodesInv
    <3> QED  BY <3>1, <3>2, <2>1, <1>2
  <2> QED  BY <2>2, <2>3
<1>5. Mine' = Mine
  BY <1>3, <1>4
<1>6. ASSUME NEW y \in Copied
      PROVE  CopyOf(y)' = CopyOf(y)
  <2>1. y = 1 \/ y \in DOMAIN corr
    BY CopiedFacts DEF Copied
  <2> QED  BY <2>1 DEF CopyOf, DoneWith
<1> QED  BY <1>1, <1>2, <1>5, <1>6 DEF SameCopies, Copied

LEMMA StepDone ==
  ASSUME WalkInv, FaithInv, WalkInv', Grown, NEW n, DoneFrames(n), NEW x \in Copied, NEW i,
         frames[n].at = CopyOf(x), i = frames[n].i, DoneWith(x, i),
         x # 1 => LeadsTo(corr, round, tree[x], i, nodes[CopyOf(x)].child[i])'
  PROVE  FaithInv'
<1>1. /\ SameCopies /\ GivenBefore(round)' = GivenBefore(round) /\ Copied' = Copied
      /\ \A a \in DOMAIN nodes : nodes'[a].copied = nodes[a].copied /\ nodes'[a].kind = nodes[a].kind
  BY DoneSame
<1>2. UNCHANGED <<tree, round, patches, maps>>
  BY DEF DoneWith
<1>3. /\ \A y \in DOMAIN corr : y \in DOMAIN corr' /\ corr'[y] = corr[y]
      /\ \A y \in DOMAIN corr' : y \notin DOMAIN corr =>
           y \in DOMAIN tree /\ y # 1 /\ tree[y].kind = "kept" /\ corr'[y] = y
  BY DEF DoneWith
<1>4. /\ DOMAIN tree \subseteq DOMAIN nodes /\ round \in Nat \ {0} /\ NodesInv /\ 1 \in DOMAIN nodes
      /\ DOMAIN nodes = 1..Len(nodes) /\ DOMAIN tree = 1..Len(tree) /\ Len(tree) \in Nat /\ Len(nodes) \in Nat
  BY NodeFacts DEF WalkInv
<1>5. /\ \A y \in Copied : y \in DOMAIN tree /\ CopyOf(y) \in DOMAIN nodes
      /\ \A y \in Mine : /\ y # 1 /\ y \in DOMAIN corr /\ CopyOf(y) = corr[y] /\ corr[y] # 1
                         /\ nodes[corr[y]].copied = round
                         /\ corr[y] > Len(tree) \/ (tree[y].kind = "model" /\ corr[y] = tree[y].own)
      /\ \A y, z \in Copied : CopyOf(y) = CopyOf(z) => y = z
      /\ Mine \subseteq Copied
  BY CopiedFacts
<1>6. CorrTree'
  <2>1. \A a \in GivenBefore(round) : a \in DOMAIN corr' /\ corr'[a] = tree[a].own
    BY <1>3 DEF FaithInv, CorrTree
  <2>2. ASSUME NEW y \in DOMAIN corr'
        PROVE  /\ y \in DOMAIN tree /\ y # 1 /\ corr'[y] # 1
               /\ y \notin GivenBefore(round) => \/ corr'[y] > Len(tree)
                                                 \/ tree[y].kind = "kept" /\ corr'[y] = y
                                                 \/ tree[y].kind = "model" /\ corr'[y] = tree[y].own
    <3>1. CASE y \in DOMAIN corr
      BY <3>1, <1>3 DEF FaithInv, CorrTree
    <3>2. CASE y \notin DOMAIN corr
      BY <3>2, <1>3
    <3> QED  BY <3>1, <3>2
  <2> QED  BY <2>1, <2>2, <1>1, <1>2 DEF CorrTree
<1>7. CopyOf(x) = 1 \/ CopyOf(x) > Len(tree) \/ (CopyOf(x) \in DOMAIN tree /\ tree[CopyOf(x)].kind = "own")
  <2>1. CASE x = 1
    BY <2>1 DEF CopyOf
  <2>2. CASE x # 1
    <3>1. x \in Mine /\ x \in DOMAIN tree /\ tree \in Trees
      BY <2>2, <1>5 DEF Copied, WalkInv, NodesInv
    <3>2. tree[x].kind = "model" => tree[x].own \in DOMAIN tree /\ tree[tree[x].own].kind = "own"
      BY <3>1, OwnFacts
    <3> QED  BY <3>1, <3>2, <1>5
  <2> QED  BY <2>1, <2>2
<1>8. TreeStays'
  <2>1. ASSUME NEW a \in DOMAIN tree, a # 1, tree[a].kind # "own"
        PROVE  nodes'[a] = tree[a]
    <3>1. a # CopyOf(x)
      BY <2>1, <1>4, <1>7
    <3>2. nodes'[a] = nodes[a]
      BY <3>1, <1>4 DEF DoneWith
    <3> QED  BY <3>2, <2>1 DEF FaithInv, TreeStays
  <2>2. nodes'[1].copied = 0
    BY <1>1, <1>4 DEF FaithInv, TreeStays
  <2>3. \A a \in DOMAIN tree : tree[a].kind = "own" => nodes'[a].copied \in {0, Roots}
    BY <1>1, <1>4 DEF FaithInv, TreeStays
  <2> QED  BY <2>1, <2>2, <2>3, <1>2 DEF TreeStays
<1>9. CopiesApart'
  <2>1. \A y \in Mine : corr'[y] = corr[y]
    BY <1>3, <1>5
  <2> QED  BY <2>1, <1>1 DEF SameCopies, FaithInv, CopiesApart
<1>10. CallInv'
  BY <1>1, <1>2, <1>3, CallsDone
<1>11. FieldsInv'
  <2>1. ASSUME NEW y \in Copied
        PROVE  /\ Len(nodes'[CopyOf(y)].child) = Len(tree[y].child)
               /\ \A j \in DOMAIN tree[y].child :
                    IF Pending(y, j)' THEN nodes'[CopyOf(y)].child[j] = tree[y].child[j]
                    ELSE y = 1 \/ LeadsTo(corr, round, tree[y], j, nodes[CopyOf(y)].child[j])'
    <3>1. /\ Len(nodes[CopyOf(y)].child) = Len(tree[y].child)
          /\ \A j \in DOMAIN tree[y].child :
               IF Pending(y, j) THEN nodes[CopyOf(y)].child[j] = tree[y].child[j]
               ELSE y = 1 \/ LeadsTo(corr, round, tree[y], j, nodes[CopyOf(y)].child[j])
      BY DEF FaithInv, FieldsInv
    <3>2. Len(nodes'[CopyOf(y)].child) = Len(tree[y].child)
      BY <3>1, <1>5 DEF DoneWith
    <3>3. CopyOf(y)' = CopyOf(y)
      BY <1>1 DEF SameCopies
    <3>4. ASSUME NEW j \in DOMAIN tree[y].child
          PROVE  IF Pending(y, j)' THEN nodes'[CopyOf(y)].child[j] = tree[y].child[j]
                 ELSE y = 1 \/ LeadsTo(corr, round, tree[y], j, nodes[CopyOf(y)].child[j])'
      <4>1. /\ Pending(y, j)' => Pending(y, j) /\ ~ (CopyOf(y) = frames[n].at /\ j = frames[n].i)
            /\ Pending(y, j) => Pending(y, j)' \/ (CopyOf(y) = frames[n].at /\ j = frames[n].i)
        BY <1>1, <1>2, PendingDone
      <4>2. CASE y = x /\ j = i
        <5>1. ~ Pending(y, j)'
          BY <4>1, <4>2
        <5> QED  BY <5>1, <4>2
      <4>3. CASE ~ (y = x /\ j = i)
        <5>1. Pending(y, j)' <=> Pending(y, j)
          BY <4>1, <4>3, <1>5
        <5>2. nodes'[CopyOf(y)].child[j] = nodes[CopyOf(y)].child[j]
          BY <4>3, <1>5 DEF DoneWith
        <5>3. CASE Pending(y, j)
          BY <5>1, <5>2, <5>3, <3>1
        <5>4. CASE ~ Pending(y, j) /\ y # 1
          <6>1. LeadsTo(corr, round, tree[y], j, nodes[CopyOf(y)].child[j])
            BY <5>4, <3>1
          <6>2. PICK m : m = corr
            OBVIOUS
          <6>3. PICK w : w = corr'
            OBVIOUS
          <6>4. PICK z : z = nodes[CopyOf(y)].child[j]
            OBVIOUS
          <6>5. PICK r : r = round
            OBVIOUS
          <6>6. LeadsTo(m, r, tree[y], j, z)
            BY <6>1, <6>2, <6>4, <6>5
          <6>7. \A v \in DOMAIN m : m[v] \in DOMAIN nodes /\ v \in DOMAIN w /\ w[v] = m[v]
            BY <6>2, <6>3, <1>3, CopiedFacts
          <6>8. \A v \in DOMAIN w : v \notin DOMAIN m =>
                  v # 0 /\ tree[v].kind # "own" /\ (w[v] \in DOMAIN nodes => w[v] \in DOMAIN tree)
            BY <6>2, <6>3, <1>3, <1>4
          <6>9. z \in DOMAIN nodes /\ z \notin DOMAIN tree /\ z \notin Range(m) /\ nodes[z].copied = r
                  => nodes'[z] = nodes[z]
            <7>1. CopyOf(x) \in DOMAIN tree \/ CopyOf(x) \in Range(m)
              <8>1. x = 1 \/ (x \in DOMAIN corr /\ CopyOf(x) = corr[x])
                BY <1>5 DEF Copied
              <8>2. 1 \in DOMAIN tree
                BY NodeFacts DEF WalkInv
              <8> QED  BY <8>1, <8>2, <6>2 DEF CopyOf, Range
            <7> QED  BY <7>1 DEF DoneWith
          <6>10. y \in DOMAIN tree /\ tree' = tree
            BY <1>2, <1>5
          <6>11. LeadsTo(w, r, tree[y], j, z)'
            BY <6>6, <6>7, <6>8, <6>9, <6>10, <1>4, LeadsStays
          <6>12. corr' = w /\ round' = r /\ nodes'[CopyOf(y)'].child[j] = z
            BY <6>3, <6>4, <6>5, <5>2, <3>3, <1>2
          <6>13. LeadsTo(corr, round, tree[y], j, nodes[CopyOf(y)].child[j])'
            BY <6>11, <6>12
          <6> QED  BY <6>13, <5>1, <5>4
        <5>5. CASE ~ Pending(y, j) /\ y = 1
          BY <5>1, <5>5
        <5> QED  BY <5>3, <5>4, <5>5
      <4> QED  BY <4>2, <4>3
    <3> QED  BY <3>2, <3>4
  <2>2. \A y \in Copied : CopyOf(y)' = CopyOf(y)
    BY <1>1 DEF SameCopies
  <2> QED  BY <2>1, <2>2, <1>1, <1>2 DEF FieldsInv
<1>12. LateInv'
  <2>1. ASSUME NEW y \in Mine
        PROVE  /\ corr'[y] = corr[y] /\ corr[y] \in DOMAIN nodes
               /\ nodes'[corr[y]].kind = nodes[corr[y]].kind /\ nodes'[corr[y]].late = nodes[corr[y]].late
    <3>1. corr'[y] = corr[y] /\ corr[y] \in DOMAIN nodes
      BY <1>3, <1>5
    <3> QED  BY <3>1 DEF DoneWith
  <2> QED  BY <2>1, <1>1, <1>2 DEF SameCopies, FaithInv, LateInv
<1>13. ListsInv'
  <2>1. ASSUME NEW v \in DOMAIN corr', tree[v].kind \in Lists, tree[v].own = 0
        PROVE  \E y \in DOMAIN corr' \cup {1} : \E j \in DOMAIN tree[y].child :
                 tree[y].child[j] = v /\ ~ Ahead(y, j)'
    <3>1. v \in DOMAIN corr
      BY <2>1, <1>3 DEF Lists
    <3>2. PICK y \in DOMAIN corr \cup {1} : \E j \in DOMAIN tree[y].child :
                 tree[y].child[j] = v /\ ~ Ahead(y, j)
      BY <2>1, <3>1 DEF FaithInv, ListsInv
    <3>3. PICK j \in DOMAIN tree[y].child : tree[y].child[j] = v /\ ~ Ahead(y, j)
      BY <3>2
    <3>4. ~ Ahead(y, j)'
      BY <3>3, <1>1, <1>2, AheadDone
    <3>5. y \in DOMAIN corr' \cup {1}
      BY <1>3
    <3> QED  BY <3>3, <3>4, <3>5
  <2> QED  BY <2>1, <1>2 DEF ListsInv
<1>14. PastInv'
  <2>1. \A a \in DOMAIN nodes : nodes'[a] # nodes[a] => nodes[a].copied \in {0, round} /\ nodes'[a].copied \in {0, round}
    <3>1. nodes[CopyOf(x)].copied \in {0, round}
      <4>1. x = 1 \/ x \in Mine
        BY DEF Copied
      <4> QED  BY <4>1, <1>5 DEF FaithInv, TreeStays, CopyOf
    <3> QED  BY <3>1, <1>1 DEF DoneWith
  <2>2. \A r \in DOMAIN maps' : r \in DOMAIN maps /\ maps'[r] = maps[r]
    BY <1>2
  <2> QED  BY <2>1, <2>2, <1>2, PastStays DEF PastInv
<1> QED  BY <1>6, <1>8, <1>9, <1>10, <1>11, <1>12, <1>13, <1>14 DEF FaithInv

LEMMA AdvanceDone ==
  ASSUME WalkInv, Walking, frames' = Advanced(frames)
  PROVE  DoneFrames(Len(frames)) /\ Len(frames) \in DOMAIN frames /\ Top = frames[Len(frames)]
<1>1. /\ Len(frames) > 0 /\ Top = frames[Len(frames)] /\ Len(frames) \in DOMAIN frames
      /\ Top.i <= Top.last /\ frames \in Seq(FrameType)
  BY AtTop DEF WalkInv, FramesInv
<1>2. Len(frames) \in Nat /\ DOMAIN frames = 1..Len(frames)
  BY FrameList DEF WalkInv
<1>3. /\ Len(frames') = Len(frames) /\ DOMAIN frames' = DOMAIN frames
      /\ \A k \in DOMAIN frames :
           /\ frames'[k].at = frames[k].at /\ frames'[k].last = frames[k].last
           /\ frames'[k].i = IF k = Len(frames) THEN frames[k].i + 1 ELSE frames[k].i
  BY <1>1, Advances
<1> QED  BY <1>1, <1>2, <1>3 DEF DoneFrames

\* Nothing is set, or what is set leads where it should.
LEMMA SetLeads ==
  ASSUME WalkInv, FaithInv, NEW x \in Copied, NEW i \in DOMAIN tree[x].child,
         i \in DOMAIN nodes[CopyOf(x)].child, nodes[CopyOf(x)].made,
         NEW v, v = tree[x].child[i], v \in DOMAIN corr,
         nodes' = FieldSet(CopyOf(x), i, corr[v]), UNCHANGED <<tree, round, corr, patches, maps>>
  PROVE  /\ Grown /\ DoneWith(x, i)
         /\ x # 1 => LeadsTo(corr, round, tree[x], i, nodes[CopyOf(x)].child[i])'
<1>1. PICK c : c = CopyOf(x)
  OBVIOUS
<1>2. PICK b : b = corr[v]
  OBVIOUS
<1>3. /\ c \in DOMAIN nodes /\ x \in DOMAIN tree /\ b \in DOMAIN nodes /\ b # 1
      /\ x # 1 => x \in Mine /\ c = corr[x]
  BY <1>1, <1>2, CopiedFacts DEF Copied
<1>4. /\ i \in DOMAIN nodes[c].child /\ nodes[c].made /\ nodes' = FieldSet(c, i, b)
      /\ UNCHANGED <<tree, round>> /\ NodesInv
  BY <1>1, <1>2 DEF WalkInv
<1>5. /\ NodesInv' /\ Grown
      /\ \E w \in DOMAIN nodes' :
           /\ SetAt(c, i, w)
           /\ \/ ~ ToTwin(c, i, b) /\ w = b /\ Len(nodes') = Len(nodes)
              \/ /\ ToTwin(c, i, b) /\ w = Len(nodes) + 1 /\ Len(nodes') = Len(nodes) + 1
                 /\ nodes'[Len(nodes) + 1] = Twin(b)
  BY <1>3, <1>4, SetField
<1>6. PICK w \in DOMAIN nodes' :
           /\ SetAt(c, i, w)
           /\ \/ ~ ToTwin(c, i, b) /\ w = b /\ Len(nodes') = Len(nodes)
              \/ /\ ToTwin(c, i, b) /\ w = Len(nodes) + 1 /\ Len(nodes') = Len(nodes) + 1
                 /\ nodes'[Len(nodes) + 1] = Twin(b)
  BY <1>5
<1>7. /\ Len(nodes) \in Nat /\ DOMAIN nodes = 1..Len(nodes) /\ DOMAIN tree = 1..Len(tree)
      /\ Len(tree) \in Nat /\ DOMAIN tree \subseteq DOMAIN nodes
  BY NodeFacts DEF WalkInv
<1>8. w \in Nat
  BY <1>3, <1>6, <1>7
<1>9. PICK n \in Cell : n = nodes[c]
  BY <1>3, NodeFacts DEF WalkInv
<1>10. /\ nodes'[c].kind = nodes[c].kind /\ nodes'[c].late = nodes[c].late
       /\ nodes'[c].copied = nodes[c].copied
       /\ Len(nodes'[c].child) = Len(nodes[c].child)
       /\ \A j \in DOMAIN nodes[c].child : nodes'[c].child[j] = IF j = i THEN w ELSE nodes[c].child[j]
  <2>1. i \in DOMAIN n.child /\ nodes'[c] = SetIn(n, i, w)
    BY <1>4, <1>6, <1>9 DEF SetAt
  <2> QED  BY <2>1, <1>8, <1>9, SetFacts
<1>11. DOMAIN nodes[c].child = DOMAIN tree[x].child
  <2>1. Len(nodes[c].child) = Len(tree[x].child)
    BY <1>1 DEF FaithInv, FieldsInv
  <2>2. tree[x] \in Cell
    BY <1>3, TreeFacts DEF WalkInv, NodesInv, NodeOK
  <2>3. tree[x].child \in Seq(Nat) /\ nodes[c].child \in Seq(Nat)
    BY <2>2, <1>3, NodeFacts DEF Cell, WalkInv
  <2> QED  BY <2>1, <2>3, SeqFacts
<1>12. DoneWith(x, i)
  <2>1. \A a \in DOMAIN nodes : a # c => nodes'[a] = nodes[a]
    BY <1>6 DEF SetAt
  <2> QED  BY <2>1, <1>1, <1>10, <1>11 DEF DoneWith
<1>13. ASSUME x # 1
       PROVE  LeadsTo(corr, round, tree[x], i, nodes[CopyOf(x)].child[i])'
  <2>1. nodes[c].kind = "dtor" <=> tree[x].kind = "dtor"
    BY <1>3, <1>13 DEF FaithInv, LateInv
  <2>2. ToTwin(c, i, b) <=> tree[x].kind = "dtor" /\ i = 2 /\ b # 0 /\ nodes'[b].formal
    <3>1. nodes'[b].formal = nodes[b].formal /\ b # 0
      BY <1>3, <1>5, <1>7 DEF Grown
    <3> QED  BY <3>1, <2>1 DEF ToTwin
  <2>3. Led(corr', v) = b /\ v \in DOMAIN corr'
    BY <1>2 DEF Led
  <2>4. ASSUME ToTwin(c, i, b)
        PROVE  /\ w \in DOMAIN nodes' \ (DOMAIN tree \cup Range(corr)) /\ nodes'[w].copied = round
               /\ b \in DOMAIN tree => nodes'[w].child = tree[b].child /\ nodes'[w].late = tree[b].late
    <3>1. w = Len(nodes) + 1 /\ nodes'[w] = Twin(b)
      BY <2>4, <1>6
    <3>2. w \notin DOMAIN nodes
      BY <3>1, <1>7
    <3>3. Range(corr) \subseteq DOMAIN nodes
      BY CopiedFacts DEF Range
    <3>4. Twin(b).copied = round /\ Twin(b).child = nodes[b].child /\ Twin(b).late = nodes[b].late
      BY <1>3, <1>4, TwinFacts
    <3>5. b \in DOMAIN tree => nodes[b] = tree[b]
      <4>1. NodeOK(nodes[b], Len(nodes), round) /\ nodes[b].formal
        BY <2>4, <1>3 DEF ToTwin, WalkInv, NodesInv
      <4>2. nodes[b].kind = "plain"
        BY <4>1 DEF NodeOK
      <4>3. b \in DOMAIN tree => tree[b].kind = "plain"
        BY <4>2 DEF WalkInv, NodesInv
      <4> QED  BY <4>3, <1>3 DEF FaithInv, TreeStays
    <3> QED  BY <3>1, <3>2, <3>3, <3>4, <3>5, <1>7
  <2>5. ~ ToTwin(c, i, b) => w = b
    BY <1>6
  <2>6. IF tree[x].kind = "dtor" /\ i = 2 /\ b # 0 /\ nodes'[b].formal
        THEN /\ w \in DOMAIN nodes' \ (DOMAIN tree \cup Range(corr)) /\ nodes'[w].copied = round
             /\ b \in DOMAIN tree => nodes'[w].child = tree[b].child /\ nodes'[w].late = tree[b].late
        ELSE w = b
    BY <2>2, <2>4, <2>5
  <2>7. /\ nodes'[CopyOf(x)'].child[i] = w /\ tree' = tree /\ corr' = corr /\ round' = round
    BY <1>1, <1>4, <1>10 DEF CopyOf
  <2> QED  BY <2>3, <2>6, <2>7 DEF LeadsTo
<1> QED  BY <1>5, <1>12, <1>13

\* Where the walk is.
LEMMA WalkSite ==
  ASSUME WalkInv, FaithInv, Walking
  PROVE  \E x \in Copied :
           /\ x \in DOMAIN tree /\ Top.at = CopyOf(x) /\ Field(Top) = Top.i
           /\ Top.i \in DOMAIN tree[x].child /\ Top.i \in DOMAIN nodes[CopyOf(x)].child
           /\ nodes[CopyOf(x)].made /\ nodes[CopyOf(x)].child[Top.i] = Target
           /\ tree[x].child[Top.i] = Target /\ (x = 1 => Top.i <= round)
           /\ Target # 1 /\ (Target # 0 => Target \in DOMAIN tree /\ nodes[Target].kind = tree[Target].kind)
<1>1. /\ Len(frames) > 0 /\ Top = frames[Len(frames)] /\ Len(frames) \in DOMAIN frames
      /\ Top.i <= Top.last /\ Top.at \in DOMAIN nodes /\ nodes[Top.at].made
      /\ Field(Top) \in DOMAIN nodes[Top.at].child
  BY AtTop
<1>2. PICK k : k = Len(frames)
  OBVIOUS
<1>3. PICK x \in Copied :
           /\ x \in DOMAIN tree /\ frames[k].at = CopyOf(x) /\ Field(frames[k]) = frames[k].i
           /\ frames[k].i \in DOMAIN tree[x].child
           /\ nodes[CopyOf(x)].child[frames[k].i] = tree[x].child[frames[k].i]
           /\ x = 1 => frames[k].i <= round
  <2>1. k \in DOMAIN frames /\ frames[k].i <= frames[k].last
    BY <1>1, <1>2
  <2> QED  BY <2>1, FrameSite
<1>4. Target = nodes[CopyOf(x)].child[Top.i] /\ tree[x].child[Top.i] = Target
  BY <1>1, <1>2, <1>3 DEF Target
<1>5. tree[x].child[Top.i] # 1 /\ (tree[x].child[Top.i] # 0 => tree[x].child[Top.i] \in DOMAIN tree)
  BY <1>1, <1>2, <1>3, FieldOfTree DEF WalkInv
<1>6. Target \in DOMAIN tree => nodes[Target].kind = tree[Target].kind
  BY DEF WalkInv, NodesInv
<1> QED  BY <1>1, <1>2, <1>3, <1>4, <1>5, <1>6

LEMMA FaithSeen ==
  ASSUME WalkInv, FaithInv, WalkInv', WalkSeen
  PROVE  FaithInv'
<1>1. /\ Walking /\ Target \in DOMAIN corr /\ nodes' = FieldSet(Top.at, Field(Top), corr[Target])
      /\ frames' = Advanced(frames) /\ UNCHANGED <<tree, round, corr, patches, maps>>
  BY DEF WalkSeen
<1>2. PICK x \in Copied :
           /\ x \in DOMAIN tree /\ Top.at = CopyOf(x) /\ Field(Top) = Top.i
           /\ Top.i \in DOMAIN tree[x].child /\ Top.i \in DOMAIN nodes[CopyOf(x)].child
           /\ nodes[CopyOf(x)].made /\ tree[x].child[Top.i] = Target
  BY <1>1, WalkSite
<1>3. PICK i : i = Top.i
  OBVIOUS
<1>4. PICK v : v = Target
  OBVIOUS
<1>5. /\ i \in DOMAIN tree[x].child /\ i \in DOMAIN nodes[CopyOf(x)].child /\ nodes[CopyOf(x)].made
      /\ v = tree[x].child[i] /\ v \in DOMAIN corr /\ nodes' = FieldSet(CopyOf(x), i, corr[v])
  BY <1>1, <1>2, <1>3, <1>4
<1>6. /\ Grown /\ DoneWith(x, i)
      /\ x # 1 => LeadsTo(corr, round, tree[x], i, nodes[CopyOf(x)].child[i])'
  BY <1>1, <1>5, SetLeads
<1>7. PICK n : n = Len(frames)
  OBVIOUS
<1>8. DoneFrames(n) /\ frames[n].at = CopyOf(x) /\ i = frames[n].i
  BY <1>1, <1>2, <1>3, <1>7, AdvanceDone
<1> QED  BY <1>6, <1>8, StepDone

LEMMA FaithReturn ==
  ASSUME WalkInv, FaithInv, WalkInv', Return
  PROVE  FaithInv'
<1>1. PICK n : n = Len(frames) - 1
  OBVIOUS
<1>2. /\ Len(frames) > 1 /\ ~ Walking /\ frames # <<>>
      /\ nodes' = FieldSet(frames[n].at, Field(frames[n]), Top.at)
      /\ frames' = Advanced(Front(frames)) /\ UNCHANGED <<tree, round, corr, patches, maps>>
  BY <1>1 DEF Return
<1>3. /\ frames \in Seq(FrameType) /\ Len(frames) \in Nat /\ DOMAIN frames = 1..Len(frames)
      /\ FramesInv /\ \A k \in DOMAIN frames : frames[k].i \in Nat /\ frames[k].last \in Nat
  BY FrameList DEF WalkInv, FramesInv
<1>4. /\ n \in Nat /\ n > 0 /\ n < Len(frames) /\ n \in DOMAIN frames /\ Len(frames) \in DOMAIN frames
      /\ n + 1 = Len(frames) /\ Top = frames[Len(frames)]
  BY <1>1, <1>2, <1>3 DEF Top, Last
<1>5. frames[n].i <= frames[n].last
  BY <1>3, <1>4 DEF FramesInv
<1>6. PICK x \in Copied :
           /\ x \in DOMAIN tree /\ frames[n].at = CopyOf(x) /\ Field(frames[n]) = frames[n].i
           /\ frames[n].i \in DOMAIN tree[x].child
           /\ n < Len(frames) => /\ tree[x].child[frames[n].i] \in Mine
                                 /\ corr[tree[x].child[frames[n].i]] = frames[n + 1].at
  BY <1>4, <1>5, FrameSite
<1>7. PICK i : i = frames[n].i
  OBVIOUS
<1>8. PICK v : v = tree[x].child[i]
  OBVIOUS
<1>9. v \in DOMAIN corr /\ corr[v] = Top.at
  BY <1>4, <1>6, <1>7, <1>8 DEF Mine
<1>10. i \in DOMAIN nodes[CopyOf(x)].child /\ nodes[CopyOf(x)].made
  <2>1. frames[n] \in FrameType /\ FrameOK(frames[n])
    BY <1>3, <1>4, FrameList DEF WalkInv, FramesInv
  <2>2. Field(frames[n]) \in DOMAIN nodes[frames[n].at].child /\ nodes[frames[n].at].made
    BY <2>1, <1>5, FieldFacts DEF WalkInv
  <2> QED  BY <2>2, <1>6, <1>7
<1>11. /\ Grown /\ DoneWith(x, i)
       /\ x # 1 => LeadsTo(corr, round, tree[x], i, nodes[CopyOf(x)].child[i])'
  <2>1. i \in DOMAIN tree[x].child /\ nodes' = FieldSet(CopyOf(x), i, corr[v])
    BY <1>2, <1>6, <1>7, <1>9
  <2> QED  BY <2>1, <1>2, <1>8, <1>9, <1>10, SetLeads
<1>12. DoneFrames(n)
  <2>1. PICK s : s = Front(frames)
    OBVIOUS
  <2>2. /\ s \in Seq(FrameType) /\ Len(s) = n /\ DOMAIN s = 1..n
        /\ \A k \in 1..n : s[k] = frames[k]
    <3>1. Len(frames) > 0 /\ Len(frames) - 1 = n
      BY <1>1, <1>3, <1>4
    <3> QED  BY <3>1, <2>1, <1>3, FrontFacts
  <2>3. /\ Len(frames') = n /\ DOMAIN frames' = 1..n
        /\ \A k \in 1..n : /\ frames'[k].at = frames[k].at /\ frames'[k].last = frames[k].last
                           /\ frames'[k].i = IF k = n THEN frames[k].i + 1 ELSE frames[k].i
    BY <1>2, <1>4, <2>1, <2>2, Advances
  <2>4. Top.i > Top.last
    <3>1. Top.i \in Nat /\ Top.last \in Nat /\ ~ (Top.i <= Top.last)
      BY <1>2, <1>3, <1>4 DEF Walking
    <3> QED  BY <3>1
  <2> QED  BY <2>3, <2>4, <1>4, <1>5 DEF DoneFrames
<1> QED  BY <1>6, <1>7, <1>11, <1>12, StepDone

\* A step that sets nothing: the field holds what it leads to.
LEMMA FaithKept ==
  ASSUME WalkInv, FaithInv, WalkInv', WalkNull \/ WalkOwn \/ WalkKept
  PROVE  FaithInv'
<1>1. PICK v : v = Target
  OBVIOUS
<1>2. /\ Walking /\ frames' = Advanced(frames) /\ UNCHANGED <<nodes, tree, round, patches, maps>>
      /\ \/ v = 0 /\ corr' = corr
         \/ v # 0 /\ nodes[v].kind = "own" /\ v \notin DOMAIN corr /\ corr' = corr
         \/ v # 0 /\ nodes[v].kind = "kept" /\ v \notin DOMAIN corr /\ corr' = Bound(corr, v, v)
  BY <1>1 DEF WalkNull, WalkOwn, WalkKept, New
<1>3. PICK x \in Copied :
           /\ x \in DOMAIN tree /\ Top.at = CopyOf(x)
           /\ Top.i \in DOMAIN tree[x].child
           /\ nodes[CopyOf(x)].child[Top.i] = v /\ tree[x].child[Top.i] = v
           /\ v # 1 /\ (v # 0 => v \in DOMAIN tree /\ nodes[v].kind = tree[v].kind)
  BY <1>1, <1>2, WalkSite
<1>4. PICK i : i = Top.i
  OBVIOUS
<1>5. PICK n : n = Len(frames)
  OBVIOUS
<1>6. DoneFrames(n) /\ frames[n].at = CopyOf(x) /\ i = frames[n].i
  BY <1>2, <1>3, <1>4, <1>5, AdvanceDone
<1>7. Grown
  BY <1>2, SameNodes DEF WalkInv
<1>8. /\ \A y \in DOMAIN corr : y \in DOMAIN corr' /\ corr'[y] = corr[y]
      /\ \A y \in DOMAIN corr' : y \notin DOMAIN corr =>
           y \in DOMAIN tree /\ y # 1 /\ tree[y].kind = "kept" /\ corr'[y] = y
  <2>1. CASE corr' = corr
    BY <2>1
  <2>2. CASE v # 0 /\ nodes[v].kind = "kept" /\ v \notin DOMAIN corr /\ corr' = Bound(corr, v, v)
    BY <2>2, <1>3 DEF Bound
  <2> QED  BY <2>1, <2>2, <1>2
<1>9. DoneWith(x, i)
  BY <1>2, <1>8 DEF DoneWith
<1>10. x # 1 => LeadsTo(corr, round, tree[x], i, nodes[CopyOf(x)].child[i])'
  <2> SUFFICES ASSUME x # 1 PROVE LeadsTo(corr, round, tree[x], i, nodes[CopyOf(x)].child[i])'
    OBVIOUS
  <2>1. 0 \notin DOMAIN corr
    <3>1. DOMAIN tree = 1..Len(tree) /\ Len(tree) \in Nat
      BY NodeFacts DEF WalkInv
    <3> QED  BY <3>1, CopiedFacts
  <2>2. Led(corr', v) = v
    BY <2>1, <1>2 DEF Led, Bound
  <2>3. v = 0 \/ v \in DOMAIN corr' \/ tree[v].kind = "own"
    BY <1>2, <1>3 DEF Bound
  <2>4. v # 0 => ~ nodes[v].formal
    <3> SUFFICES ASSUME v # 0 PROVE ~ nodes[v].formal
      OBVIOUS
    <3>1. v \in DOMAIN nodes /\ nodes[v].kind # "plain"
      BY <1>2, <1>3, NodeFacts DEF WalkInv
    <3>2. NodeOK(nodes[v], Len(nodes), round)
      BY <3>1 DEF WalkInv, NodesInv
    <3> QED  BY <3>1, <3>2 DEF NodeOK
  <2>5. nodes'[CopyOf(x)'].child[i] = v
    <3>1. CopyOf(x)' = CopyOf(x)
      BY <1>9, DoneSame DEF SameCopies
    <3> QED  BY <3>1, <1>2, <1>3, <1>4
  <2>6. tree'[x].child[i] = v /\ nodes' = nodes /\ tree' = tree
    BY <1>2, <1>3, <1>4
  <2> QED  BY <2>2, <2>3, <2>4, <2>5, <2>6 DEF LeadsTo
<1> QED  BY <1>6, <1>7, <1>9, <1>10, StepDone

-----------------------------------------------------------------------------
(* A node is copied, and its copy is gone through.                         *)

\* t is copied to c.
Copies(t, c) ==
  /\ t = Target /\ t # 0 /\ t \notin DOMAIN corr /\ tree[t].kind # "own" /\ c \in Nat
  /\ corr' = Bound(corr, t, c)
  /\ UNCHANGED <<tree, round, maps>> /\ patches' = Patched(tree[t], c)
  /\ \/ c > Len(nodes)
     \/ tree[t].kind = "model" /\ c = tree[t].own /\ round = Roots /\ tree[t].late = <<>>
  /\ \A a \in DOMAIN nodes : a # c => nodes'[a] = nodes[a]
  /\ nodes'[c].child = tree[t].child /\ nodes'[c].late = tree[t].late /\ nodes'[c].copied = round
  /\ nodes'[c].kind = "dtor" <=> tree[t].kind = "dtor"
  /\ Len(frames') = Len(frames) + 1
  /\ \A k \in DOMAIN frames : frames'[k] = frames[k]
  /\ frames'[Len(frames) + 1].at = c /\ frames'[Len(frames) + 1].i = 1
  /\ frames'[Len(frames) + 1].last = Len(tree[t].child)

LEMMA CopyApart ==
  ASSUME WalkInv, FaithInv, Walking, NEW t, NEW c, Copies(t, c)
  PROVE  /\ t \in DOMAIN tree /\ t # 1 /\ t \notin Mine /\ t \notin GivenBefore(round) /\ c # 1
         /\ c > Len(nodes) \/ (c \in DOMAIN tree /\ tree[c].kind = "own")
         /\ c > Len(tree) \/ (tree[t].kind = "model" /\ c = tree[t].own)
         /\ \A x \in Copied : CopyOf(x) # c
         /\ \A x \in DOMAIN corr \ GivenBefore(round) : corr[x] # c
         /\ \A k \in DOMAIN frames : frames[k].at # c
<1>1. t \in DOMAIN tree /\ t # 1
  BY WalkSite DEF Copies
<1>2. t \notin DOMAIN corr
  BY DEF Copies
<1>3. t \notin Mine /\ t \notin GivenBefore(round)
  BY <1>2, CopiedFacts DEF Mine
<1>4. /\ Len(nodes) \in Nat /\ DOMAIN nodes = 1..Len(nodes) /\ Len(tree) \in Nat
      /\ DOMAIN tree = 1..Len(tree) /\ DOMAIN tree \subseteq DOMAIN nodes /\ Len(tree) <= Len(nodes)
      /\ tree \in Trees /\ tree[1].kind = "plain" /\ 1 \in DOMAIN tree
  BY NodeFacts, TreeFacts DEF WalkInv, NodesInv
<1>5. CASE c > Len(nodes)
  <2>1. c \notin DOMAIN nodes /\ c # 1 /\ c > Len(tree)
    BY <1>4, <1>5 DEF Copies
  <2>2. \A x \in DOMAIN corr : corr[x] # c
    BY <2>1, CopiedFacts
  <2>3. \A k \in DOMAIN frames : frames[k].at # c
    BY <2>1 DEF WalkInv, FramesInv, FrameOK
  <2>4. \A x \in Copied : CopyOf(x) # c
    BY <2>1, CopiedFacts
  <2> QED  BY <1>1, <1>3, <1>5, <2>1, <2>2, <2>3, <2>4
<1>6. CASE ~ (c > Len(nodes))
  <2>1. tree[t].kind = "model" /\ c = tree[t].own
    BY <1>6 DEF Copies
  <2>2. /\ c \in DOMAIN tree /\ tree[c].kind = "own"
        /\ \A b \in DOMAIN tree : tree[b].kind = "model" /\ tree[b].own = c => t = b
    BY <2>1, <1>1, <1>4, OwnFacts
  <2>3. c # 1 /\ ~ (c > Len(tree))
    BY <2>2, <1>4
  <2>4. ASSUME NEW x \in DOMAIN corr \ GivenBefore(round), corr[x] = c
        PROVE  FALSE
    <3>1. /\ x \in DOMAIN tree
          /\ \/ corr[x] > Len(tree)
             \/ tree[x].kind = "kept" /\ corr[x] = x
             \/ tree[x].kind = "model" /\ corr[x] = tree[x].own
      BY DEF FaithInv, CorrTree
    <3>2. tree[x].kind = "model" /\ tree[x].own = c
      BY <3>1, <2>2, <2>3, <2>4
    <3>3. x = t
      BY <3>1, <3>2, <2>2
    <3> QED  BY <3>3, <1>2
  <2>5. \A x \in Copied : CopyOf(x) # c
    <3> SUFFICES ASSUME NEW x \in Copied PROVE CopyOf(x) # c
      OBVIOUS
    <3>1. CASE x = 1
      BY <3>1, <2>3 DEF CopyOf
    <3>2. CASE x # 1
      BY <3>2, <2>4 DEF Copied, Mine, CopyOf
    <3> QED  BY <3>1, <3>2
  <2>6. \A k \in DOMAIN frames : frames[k].at # c
    BY <2>5 DEF FaithInv, CallInv
  <2> QED  BY <1>1, <1>3, <2>1, <2>2, <2>3, <2>4, <2>5, <2>6
<1> QED  BY <1>5, <1>6

LEMMA CopySame ==
  ASSUME WalkInv, FaithInv, Walking, NEW t, NEW c, Copies(t, c)
  PROVE  /\ GivenBefore(round)' = GivenBefore(round) /\ Mine' = Mine \cup {t} /\ Copied' = Copied \cup {t}
         /\ \A x \in Copied : CopyOf(x)' = CopyOf(x) /\ nodes'[CopyOf(x)] = nodes[CopyOf(x)]
         /\ CopyOf(t)' = c
         /\ DOMAIN corr' = DOMAIN corr \cup {t} /\ corr'[t] = c
         /\ \A x \in DOMAIN corr : x # t /\ corr'[x] = corr[x]
<1>1. /\ t # 1 /\ t \notin Mine /\ t \notin GivenBefore(round)
      /\ \A x \in Copied : CopyOf(x) # c
      /\ \A x \in DOMAIN corr \ GivenBefore(round) : corr[x] # c
  BY CopyApart
<1>2. /\ GivenBefore(round)' = GivenBefore(round)
      /\ DOMAIN corr' = DOMAIN corr \cup {t} /\ corr'[t] = c
      /\ \A x \in DOMAIN corr : x # t /\ corr'[x] = corr[x]
  BY SameGiven DEF Copies, Bound
<1>3. \A x \in DOMAIN corr : corr[x] \in DOMAIN nodes
  BY CopiedFacts
<1>4. ASSUME NEW x
      PROVE  x \in Mine' <=> x \in Mine \cup {t}
  <2>1. CASE x = t
    <3>1. nodes'[corr'[t]].copied = round'
      BY <1>2 DEF Copies
    <3>2. t \in DOMAIN corr' \ GivenBefore(round)'
      BY <1>1, <1>2
    <3> QED  BY <3>1, <3>2, <2>1 DEF Mine
  <2>2. CASE x # t
    <3>1. x \in DOMAIN corr' \ GivenBefore(round)' <=> x \in DOMAIN corr \ GivenBefore(round)
      BY <2>2, <1>2
    <3>2. x \in DOMAIN corr \ GivenBefore(round) => nodes'[corr'[x]] = nodes[corr[x]]
      BY <1>1, <1>2, <1>3 DEF Copies
    <3>3. round' = round
      BY DEF Copies
    <3> QED  BY <3>1, <3>2, <3>3, <2>2 DEF Mine
  <2> QED  BY <2>1, <2>2
<1>5. Mine' = Mine \cup {t}
  BY <1>4
<1>6. \A x \in Copied : CopyOf(x)' = CopyOf(x) /\ nodes'[CopyOf(x)] = nodes[CopyOf(x)]
  <2> SUFFICES ASSUME NEW x \in Copied
               PROVE  CopyOf(x)' = CopyOf(x) /\ nodes'[CopyOf(x)] = nodes[CopyOf(x)]
    OBVIOUS
  <2>1. x = 1 \/ x \in DOMAIN corr
    BY CopiedFacts DEF Copied
  <2>2. CopyOf(x)' = CopyOf(x)
    BY <2>1, <1>2 DEF CopyOf
  <2>3. CopyOf(x) \in DOMAIN nodes
    BY CopiedFacts
  <2> QED  BY <2>2, <2>3, <1>1 DEF Copies
<1>7. CopyOf(t)' = c
  BY <1>1, <1>2 DEF CopyOf
<1> QED  BY <1>2, <1>5, <1>6, <1>7 DEF Copied

LEMMA CallsCopy ==
  ASSUME WalkInv, FaithInv, WalkInv', Walking, NEW t, NEW c, Copies(t, c)
  PROVE  /\ CallInv'
         /\ \A x \in Copied : \A j : Pending(x, j)' <=> Pending(x, j)
         /\ \A x \in Copied : \A j : Ahead(x, j)' => Ahead(x, j)
         /\ \E x \in Copied : \E j \in DOMAIN tree[x].child : tree[x].child[j] = t /\ ~ Ahead(x, j)'
<1>1. PICK n : n = Len(frames)
  OBVIOUS
<1>2. /\ n \in Nat /\ n > 0 /\ DOMAIN frames = 1..n /\ Top = frames[n] /\ n \in DOMAIN frames
      /\ \A k \in DOMAIN frames : frames[k].i \in Nat
  BY <1>1, FrameList, AtTop DEF WalkInv
<1>3. /\ Len(frames') = n + 1 /\ DOMAIN frames' = 1..n + 1
      /\ \A k \in 1..n : frames'[k] = frames[k]
      /\ frames'[n + 1].at = c /\ frames'[n + 1].i = 1 /\ frames'[n + 1].last = Len(tree[t].child)
  <2>1. DOMAIN frames' = 1..Len(frames')
    BY SeqFacts DEF WalkInv, FramesInv
  <2> QED  BY <2>1, <1>1, <1>2 DEF Copies
<1>4. /\ Mine' = Mine \cup {t} /\ Copied' = Copied \cup {t} /\ CopyOf(t)' = c
      /\ \A x \in Copied : CopyOf(x)' = CopyOf(x)
      /\ corr'[t] = c /\ \A x \in DOMAIN corr : corr'[x] = corr[x]
  BY CopySame
<1>5. /\ t # 1 /\ (\A x \in Copied : CopyOf(x) # c) /\ \A k \in DOMAIN frames : frames[k].at # c
  BY CopyApart
<1>6. tree' = tree /\ round' = round /\ t = Target
  BY DEF Copies
<1>7. PICK x \in Copied :
        /\ x \in DOMAIN tree /\ frames[n].at = CopyOf(x)
        /\ frames[n].i \in DOMAIN tree[x].child /\ tree[x].child[frames[n].i] = t
        /\ x = 1 => frames[n].i <= round
  BY <1>2, <1>6, WalkSite
<1>8. /\ \A k, l \in DOMAIN frames : frames[k].at = frames[l].at => k = l
      /\ frames[1].at = 1 /\ frames[1].last = round
  <2>1. frames # <<>>
    BY <1>1, <1>2, FrameList DEF WalkInv
  <2> QED  BY <2>1 DEF FaithInv, CallInv
<1>9. CallInv'
  <2>1. frames'[1].at = 1 /\ frames'[1].last = round'
    <3>1. 1 \in 1..n
      BY <1>2
    <3> QED  BY <3>1, <1>3, <1>6, <1>8
  <2>2. \A k \in DOMAIN frames' : k \in 1..n \/ k = n + 1
    BY <1>2, <1>3
  <2>3. \A k, l \in DOMAIN frames' : frames'[k].at = frames'[l].at => k = l
    BY <2>2, <1>2, <1>3, <1>5, <1>8
  <2>4. ASSUME NEW k \in 1..n
        PROVE  /\ frames'[k].i >= 1
               /\ \E y \in Copied' :
                    /\ frames'[k].at = CopyOf(y)' /\ (y # 1 => frames'[k].last = Len(tree'[y].child))
                    /\ k < Len(frames') => /\ tree'[y].child[frames'[k].i] \in Mine'
                                           /\ corr'[tree'[y].child[frames'[k].i]] = frames'[k + 1].at
    <3>1. k \in DOMAIN frames /\ frames'[k] = frames[k]
      BY <1>2, <1>3
    <3>2. PICK y \in Copied :
            /\ frames[k].at = CopyOf(y) /\ (y # 1 => frames[k].last = Len(tree[y].child))
            /\ k < Len(frames) => /\ tree[y].child[frames[k].i] \in Mine
                                  /\ corr[tree[y].child[frames[k].i]] = frames[k + 1].at
      BY <3>1 DEF FaithInv, CallInv
    <3>3. frames[k].i >= 1
      BY <3>1 DEF FaithInv, CallInv
    <3>4. tree[y].child[frames[k].i] \in Mine' /\ corr'[tree[y].child[frames[k].i]] = frames'[k + 1].at
      <4>1. CASE k = n
        <5>1. CopyOf(y) = CopyOf(x)
          BY <4>1, <3>2, <1>7
        <5>2. y = x
          BY <5>1, CopiedFacts
        <5> QED  BY <5>2, <4>1, <1>3, <1>4, <1>7
      <4>2. CASE k # n
        <5>1. k < Len(frames) /\ k + 1 \in 1..n
          BY <4>2, <1>1, <1>2
        <5>2. tree[y].child[frames[k].i] \in Mine /\ corr[tree[y].child[frames[k].i]] = frames[k + 1].at
          BY <5>1, <3>2
        <5>3. tree[y].child[frames[k].i] \in DOMAIN corr
          BY <5>2 DEF Mine
        <5>4. frames'[k + 1] = frames[k + 1]
          BY <5>1, <1>3
        <5> QED  BY <5>2, <5>3, <5>4, <1>4
      <4> QED  BY <4>1, <4>2
    <3>5. y \in Copied' /\ CopyOf(y)' = CopyOf(y)
      BY <1>4
    <3> QED  BY <3>1, <3>2, <3>3, <3>4, <3>5, <1>6
  <2>5. ASSUME NEW k, k = n + 1
        PROVE  /\ frames'[k].i >= 1
               /\ \E y \in Copied' :
                    /\ frames'[k].at = CopyOf(y)' /\ (y # 1 => frames'[k].last = Len(tree'[y].child))
                    /\ k < Len(frames') => /\ tree'[y].child[frames'[k].i] \in Mine'
                                           /\ corr'[tree'[y].child[frames'[k].i]] = frames'[k + 1].at
    <3>1. t \in Copied' /\ frames'[k].at = CopyOf(t)' /\ frames'[k].last = Len(tree'[t].child)
      BY <2>5, <1>3, <1>4, <1>6
    <3>2. ~ (k < Len(frames')) /\ frames'[k].i >= 1
      BY <2>5, <1>2, <1>3
    <3> QED  BY <3>1, <3>2
  <2>6. frames' # <<>> => frames'[1].at = 1 /\ frames'[1].last = round'
    BY <2>1
  <2> QED  BY <2>2, <2>3, <2>4, <2>5, <2>6 DEF CallInv
<1>10. ASSUME NEW y \in Copied, NEW j
       PROVE  Pending(y, j)' <=> Pending(y, j)
  <2>1. (\E k \in DOMAIN frames' : frames'[k].at = CopyOf(y) /\ frames'[k].i <= j)
          <=> (\E k \in DOMAIN frames : frames[k].at = CopyOf(y) /\ frames[k].i <= j)
    <3>1. \A k \in DOMAIN frames' : k \in 1..n \/ k = n + 1
      BY <1>2, <1>3
    <3>2. \A k \in 1..n : k \in DOMAIN frames'
      BY <1>2, <1>3
    <3> QED  BY <3>1, <3>2, <1>2, <1>3, <1>5
  <2>2. CopyOf(y)' = CopyOf(y)
    BY <1>4
  <2> QED  BY <2>1, <2>2, <1>6 DEF Pending
<1>11. ASSUME NEW y \in Copied, NEW j, NEW k \in DOMAIN frames', frames'[k].at = CopyOf(y)',
              frames'[k].i < j \/ (k = Len(frames') /\ frames'[k].i = j)
       PROVE  k \in DOMAIN frames /\ frames[k].at = CopyOf(y) /\ frames[k].i < j
  <2>1. k \in 1..n \/ k = n + 1
    BY <1>2, <1>3
  <2>2. k # n + 1
    BY <1>3, <1>4, <1>5, <1>11
  <2>3. k \in 1..n /\ k # Len(frames')
    BY <2>1, <2>2, <1>2, <1>3
  <2> QED  BY <2>3, <1>2, <1>3, <1>4, <1>11
<1>12. ASSUME NEW y \in Copied, NEW j, Ahead(y, j)'
       PROVE  Ahead(y, j)
  <2>1. CASE y = 1 /\ j > round
    BY <2>1 DEF Ahead
  <2>2. CASE ~ (y = 1 /\ j > round)
    <3>1. PICK k \in DOMAIN frames' : /\ frames'[k].at = CopyOf(y)'
                                      /\ frames'[k].i < j \/ (k = Len(frames') /\ frames'[k].i = j)
      BY <2>2, <1>6, <1>12 DEF Ahead
    <3>2. k \in DOMAIN frames /\ frames[k].at = CopyOf(y) /\ frames[k].i < j
      BY <3>1, <1>11
    <3> QED  BY <3>2 DEF Ahead
  <2> QED  BY <2>1, <2>2
<1>13. \E y \in Copied : \E j \in DOMAIN tree[y].child : tree[y].child[j] = t /\ ~ Ahead(y, j)'
  <2>1. PICK i \in Nat : i = frames[n].i
    BY <1>2
  <2>2. SUFFICES ASSUME Ahead(x, i)' PROVE FALSE
    BY <2>1, <1>7
  <2>3. round \in Nat
    BY NodeFacts DEF WalkInv
  <2>4. ~ (x = 1 /\ i > round')
    BY <2>1, <2>3, <1>6, <1>7
  <2>5. PICK k \in DOMAIN frames' : /\ frames'[k].at = CopyOf(x)'
                                    /\ frames'[k].i < i \/ (k = Len(frames') /\ frames'[k].i = i)
    BY <2>2, <2>4 DEF Ahead
  <2>6. k \in DOMAIN frames /\ frames[k].at = CopyOf(x) /\ frames[k].i < i
    BY <2>5, <1>11
  <2>7. k = n
    BY <2>6, <1>2, <1>7, <1>8
  <2> QED  BY <2>1, <2>6, <2>7
<1> QED  BY <1>9, <1>10, <1>12, <1>13

LEMMA StepCopies ==
  ASSUME WalkInv, FaithInv, WalkInv', Walking, Grown, NEW t, NEW c, Copies(t, c)
  PROVE  FaithInv'
<1>1. /\ t \in DOMAIN tree /\ t # 1 /\ t \notin GivenBefore(round) /\ c # 1
      /\ c > Len(nodes) \/ (c \in DOMAIN tree /\ tree[c].kind = "own")
      /\ c > Len(tree) \/ (tree[t].kind = "model" /\ c = tree[t].own)
      /\ \A x \in Copied : CopyOf(x) # c
  BY CopyApart
<1>2. /\ GivenBefore(round)' = GivenBefore(round) /\ Mine' = Mine \cup {t} /\ Copied' = Copied \cup {t}
      /\ \A x \in Copied : CopyOf(x)' = CopyOf(x) /\ nodes'[CopyOf(x)] = nodes[CopyOf(x)]
      /\ CopyOf(t)' = c
      /\ DOMAIN corr' = DOMAIN corr \cup {t} /\ corr'[t] = c
      /\ \A x \in DOMAIN corr : x # t /\ corr'[x] = corr[x]
  BY CopySame
<1>3. /\ tree' = tree /\ round' = round /\ maps' = maps /\ t = Target /\ t # 0
      /\ tree[t].kind # "own"
      /\ \A a \in DOMAIN nodes : a # c => nodes'[a] = nodes[a]
      /\ nodes'[c].child = tree[t].child /\ nodes'[c].late = tree[t].late /\ nodes'[c].copied = round
      /\ nodes'[c].kind = "dtor" <=> tree[t].kind = "dtor"
      /\ patches' = Patched(tree[t], c)
      /\ c \in Nat
  BY DEF Copies
<1>4. /\ Len(nodes) \in Nat /\ DOMAIN nodes = 1..Len(nodes) /\ Len(tree) \in Nat
      /\ DOMAIN tree = 1..Len(tree) /\ DOMAIN tree \subseteq DOMAIN nodes /\ Len(tree) <= Len(nodes)
      /\ NodesInv /\ 1 \in DOMAIN tree
  BY NodeFacts DEF WalkInv, NodesInv
<1>5. /\ \A x \in Copied : x \in DOMAIN tree /\ CopyOf(x) \in DOMAIN nodes
      /\ \A x \in Mine : x # 1 /\ x \in DOMAIN corr /\ CopyOf(x) = corr[x]
      /\ \A x, y \in Copied : CopyOf(x) = CopyOf(y) => x = y
      /\ \A x \in DOMAIN corr : x \in DOMAIN tree /\ corr[x] \in DOMAIN nodes
      /\ Mine \subseteq Copied
  BY CopiedFacts
<1>6. /\ CallInv'
      /\ \A x \in Copied : \A j : Pending(x, j)' <=> Pending(x, j)
      /\ \A x \in Copied : \A j : Ahead(x, j)' => Ahead(x, j)
      /\ \E x \in Copied : \E j \in DOMAIN tree[x].child : tree[x].child[j] = t /\ ~ Ahead(x, j)'
  BY CallsCopy
<1>7. CorrTree'
  <2>1. \A a \in GivenBefore(round) : a \in DOMAIN corr' /\ corr'[a] = tree[a].own
    BY <1>2 DEF FaithInv, CorrTree
  <2>2. ASSUME NEW y \in DOMAIN corr'
        PROVE  /\ y \in DOMAIN tree /\ y # 1 /\ corr'[y] # 1
               /\ y \notin GivenBefore(round) => \/ corr'[y] > Len(tree)
                                                 \/ tree[y].kind = "kept" /\ corr'[y] = y
                                                 \/ tree[y].kind = "model" /\ corr'[y] = tree[y].own
    <3>1. CASE y = t
      BY <3>1, <1>1, <1>2
    <3>2. CASE y # t
      BY <3>2, <1>2 DEF FaithInv, CorrTree
    <3> QED  BY <3>1, <3>2
  <2> QED  BY <2>1, <2>2, <1>2, <1>3 DEF CorrTree
<1>8. TreeStays'
  <2>1. ASSUME NEW a \in DOMAIN tree, a # 1, tree[a].kind # "own"
        PROVE  nodes'[a] = tree[a]
    <3>1. a # c
      BY <2>1, <1>1, <1>4
    <3> QED  BY <3>1, <2>1, <1>3, <1>4 DEF FaithInv, TreeStays
  <2>2. nodes'[1].copied = 0
    BY <1>1, <1>3, <1>4 DEF FaithInv, TreeStays
  <2>3. ASSUME NEW a \in DOMAIN tree, tree[a].kind = "own"
        PROVE  nodes'[a].copied \in {0, Roots}
    <3>1. CASE a # c
      BY <3>1, <2>3, <1>3, <1>4 DEF FaithInv, TreeStays
    <3>2. CASE a = c
      <4>1. ~ (c > Len(nodes))
        BY <3>2, <1>4
      <4>2. round = Roots
        BY <4>1 DEF Copies
      <4> QED  BY <3>2, <4>2, <1>3
    <3> QED  BY <3>1, <3>2
  <2> QED  BY <2>1, <2>2, <2>3, <1>3 DEF TreeStays
<1>9. CopiesApart'
  <2>1. ASSUME NEW y \in Mine \cup {t}, NEW z \in Mine \cup {t}, corr'[y] = corr'[z]
        PROVE  y = z
    <3>1. \A x \in Mine : corr'[x] = CopyOf(x) /\ CopyOf(x) # c /\ x \in Copied
      BY <1>1, <1>2, <1>5
    <3>2. CASE y = t
      BY <3>1, <3>2, <2>1, <1>2
    <3>3. CASE z = t
      BY <3>1, <3>3, <2>1, <1>2
    <3>4. CASE y # t /\ z # t
      BY <3>1, <3>4, <2>1, <1>5
    <3> QED  BY <3>2, <3>3, <3>4
  <2> QED  BY <2>1, <1>2 DEF CopiesApart
<1>10. FieldsInv'
  <2>1. ASSUME NEW y \in Copied
        PROVE  /\ Len(nodes'[CopyOf(y)].child) = Len(tree[y].child)
               /\ \A j \in DOMAIN tree[y].child :
                    IF Pending(y, j)' THEN nodes'[CopyOf(y)].child[j] = tree[y].child[j]
                    ELSE y = 1 \/ LeadsTo(corr, round, tree[y], j, nodes[CopyOf(y)].child[j])'
    <3>1. /\ Len(nodes[CopyOf(y)].child) = Len(tree[y].child)
          /\ \A j \in DOMAIN tree[y].child :
               IF Pending(y, j) THEN nodes[CopyOf(y)].child[j] = tree[y].child[j]
               ELSE y = 1 \/ LeadsTo(corr, round, tree[y], j, nodes[CopyOf(y)].child[j])
      BY DEF FaithInv, FieldsInv
    <3>2. nodes'[CopyOf(y)] = nodes[CopyOf(y)] /\ CopyOf(y)' = CopyOf(y)
      BY <1>2
    <3>3. ASSUME NEW j \in DOMAIN tree[y].child, ~ Pending(y, j), y # 1
          PROVE  LeadsTo(corr, round, tree[y], j, nodes[CopyOf(y)].child[j])'
      <4>1. LeadsTo(corr, round, tree[y], j, nodes[CopyOf(y)].child[j])
        BY <3>1, <3>3
      <4>2. PICK m : m = corr
        OBVIOUS
      <4>3. PICK w : w = corr'
        OBVIOUS
      <4>4. PICK z : z = nodes[CopyOf(y)].child[j]
        OBVIOUS
      <4>5. PICK r : r = round
        OBVIOUS
      <4>6. LeadsTo(m, r, tree[y], j, z)
        BY <4>1, <4>2, <4>4, <4>5
      <4>7. \A v \in DOMAIN m : m[v] \in DOMAIN nodes /\ v \in DOMAIN w /\ w[v] = m[v]
        BY <4>2, <4>3, <1>2, <1>5
      <4>8. \A v \in DOMAIN w : v \notin DOMAIN m =>
              v # 0 /\ tree[v].kind # "own" /\ (w[v] \in DOMAIN nodes => w[v] \in DOMAIN tree)
        <5> SUFFICES ASSUME NEW v \in DOMAIN w, v \notin DOMAIN m
                     PROVE  v # 0 /\ tree[v].kind # "own" /\ (w[v] \in DOMAIN nodes => w[v] \in DOMAIN tree)
          OBVIOUS
        <5>1. v = t /\ w[v] = c
          BY <4>2, <4>3, <1>2
        <5>2. c \in DOMAIN nodes => c \in DOMAIN tree
          BY <1>1, <1>4
        <5> QED  BY <5>1, <5>2, <1>3
      <4>9. z \in DOMAIN nodes /\ z \notin DOMAIN tree /\ z \notin Range(m) /\ nodes[z].copied = r
              => nodes'[z] = nodes[z]
        <5>1. z \in DOMAIN nodes /\ z \notin DOMAIN tree => z # c
          BY <1>1, <1>4
        <5> QED  BY <5>1, <1>3
      <4>10. y \in DOMAIN tree /\ tree' = tree
        BY <1>3, <1>5
      <4>11. LeadsTo(w, r, tree[y], j, z)'
        BY <4>6, <4>7, <4>8, <4>9, <4>10, <1>4, LeadsStays
      <4>12. corr' = w /\ round' = r /\ nodes'[CopyOf(y)'].child[j] = z
        BY <4>3, <4>4, <4>5, <3>2, <1>3
      <4> QED  BY <4>11, <4>12
    <3> QED  BY <3>1, <3>2, <3>3, <1>6
  <2>2. /\ Len(nodes'[CopyOf(t)'].child) = Len(tree[t].child)
        /\ \A j \in DOMAIN tree[t].child : Pending(t, j)' /\ nodes'[CopyOf(t)'].child[j] = tree[t].child[j]
    <3>1. nodes'[CopyOf(t)'].child = tree[t].child
      BY <1>2, <1>3
    <3>2. ASSUME NEW j \in DOMAIN tree[t].child
          PROVE  Pending(t, j)'
      <4>1. j \in Nat /\ j >= 1
        <5>1. tree[t] \in Cell
          BY <1>1, TreeFacts DEF WalkInv, NodesInv, NodeOK
        <5>2. DOMAIN tree[t].child = 1..Len(tree[t].child) /\ Len(tree[t].child) \in Nat
          BY <5>1, SeqFacts DEF Cell
        <5> QED  BY <5>2
      <4>2. PICK k : k = Len(frames) + 1
        OBVIOUS
      <4>3. k \in DOMAIN frames' /\ frames'[k].at = c /\ frames'[k].i = 1
        <5>1. DOMAIN frames' = 1..Len(frames')
          BY SeqFacts DEF WalkInv, FramesInv
        <5>2. Len(frames) \in Nat
          BY FrameList DEF WalkInv
        <5>3. Len(frames') = Len(frames) + 1 /\ frames'[k].at = c /\ frames'[k].i = 1
          BY <4>2 DEF Copies
        <5>4. k \in 1..k
          BY <5>2, <4>2
        <5> QED  BY <5>1, <5>3, <5>4, <4>2
      <4> QED  BY <4>1, <4>3, <1>2 DEF Pending
    <3> QED  BY <3>1, <3>2
  <2>3. ASSUME NEW y \in Copied'
        PROVE  /\ Len(nodes'[CopyOf(y)'].child) = Len(tree'[y].child)
               /\ \A j \in DOMAIN tree'[y].child :
                    IF Pending(y, j)' THEN nodes'[CopyOf(y)'].child[j] = tree'[y].child[j]
                    ELSE y = 1 \/ LeadsTo(corr, round, tree[y], j, nodes[CopyOf(y)].child[j])'
    <3>1. CASE y = t
      BY <3>1, <2>2, <1>3
    <3>2. CASE y \in Copied
      <4>1. CopyOf(y)' = CopyOf(y)
        BY <3>2, <1>2
      <4> QED  BY <3>2, <4>1, <2>1, <1>3
    <3> QED  BY <3>1, <3>2, <1>2
  <2> QED  BY <2>3 DEF FieldsInv
<1>11. LateInv'
  <2>1. /\ patches \in Seq(Nat) /\ patches' \in Seq(Nat)
        /\ \A p \in DOMAIN patches : patches[p] > Len(tree) /\ \E x \in Mine : patches[p] = corr[x]
    BY DEF WalkInv, PatchInv, FaithInv, LateInv
  <2>2. /\ Range(patches) \subseteq Range(patches')
        /\ tree[t].late # <<>> => c \in Range(patches')
        /\ \A p \in DOMAIN patches' : patches'[p] \in Range(patches) \/ (tree[t].late # <<>> /\ patches'[p] = c)
    <3>1. CASE tree[t].late = <<>>
      <4>1. patches' = patches
        BY <3>1, <1>3 DEF Patched
      <4> QED  BY <3>1, <4>1 DEF Range
    <3>2. CASE tree[t].late # <<>>
      <4>1. patches' = Append(patches, c)
        BY <3>2, <1>3 DEF Patched
      <4>2. /\ DOMAIN patches' = 1..Len(patches) + 1 /\ DOMAIN patches = 1..Len(patches)
            /\ Len(patches) \in Nat /\ patches'[Len(patches) + 1] = c
            /\ \A p \in 1..Len(patches) : patches'[p] = patches[p]
        <5>1. c \in Nat /\ patches \in Seq(Nat)
          BY <2>1, <1>3
        <5>2. /\ Len(patches') = Len(patches) + 1 /\ patches'[Len(patches) + 1] = c
              /\ \A p \in 1..Len(patches) : patches'[p] = patches[p]
          BY <5>1, <4>1, AppendProperties
        <5>3. /\ DOMAIN patches' = 1..Len(patches') /\ DOMAIN patches = 1..Len(patches)
              /\ Len(patches) \in Nat
          BY <2>1, SeqFacts
        <5> QED  BY <5>2, <5>3
      <4>3. \A p \in DOMAIN patches' : p = Len(patches) + 1 \/ p \in DOMAIN patches
        BY <4>2
      <4>4. Len(patches) + 1 \in DOMAIN patches' /\ \A p \in DOMAIN patches : p \in DOMAIN patches'
        BY <4>2
      <4> QED  BY <3>2, <4>2, <4>3, <4>4 DEF Range
    <3> QED  BY <3>1, <3>2
  <2>3. ASSUME NEW y \in Mine \cup {t}
        PROVE  /\ nodes'[corr'[y]].kind = "dtor" <=> tree[y].kind = "dtor"
               /\ nodes'[corr'[y]].late = tree[y].late
               /\ tree[y].late # <<>> => corr'[y] \in Range(patches')
    <3>1. CASE y = t
      BY <3>1, <2>2, <1>2, <1>3
    <3>2. CASE y \in Mine
      <4>1. corr'[y] = corr[y] /\ nodes'[corr[y]] = nodes[corr[y]]
        BY <3>2, <1>2, <1>5
      <4> QED  BY <3>2, <4>1, <2>2 DEF FaithInv, LateInv
    <3> QED  BY <3>1, <3>2
  <2>4. ASSUME NEW p \in DOMAIN patches'
        PROVE  patches'[p] > Len(tree) /\ \E x \in Mine \cup {t} : patches'[p] = corr'[x]
    <3>1. CASE patches'[p] \in Range(patches)
      <4>1. PICK q \in DOMAIN patches : patches'[p] = patches[q]
        BY <3>1 DEF Range
      <4>2. PICK x \in Mine : patches[q] = corr[x]
        BY <2>1
      <4>3. corr'[x] = corr[x]
        BY <1>2, <1>5
      <4> QED  BY <4>1, <4>2, <4>3, <2>1
    <3>2. CASE tree[t].late # <<>> /\ patches'[p] = c
      <4>1. c > Len(nodes)
        BY <3>2 DEF Copies
      <4> QED  BY <3>2, <4>1, <1>2, <1>3, <1>4
    <3> QED  BY <3>1, <3>2, <2>2
  <2> QED  BY <2>3, <2>4, <1>2, <1>3 DEF LateInv
<1>12. ListsInv'
  <2>1. ASSUME NEW v \in DOMAIN corr', tree[v].kind \in Lists, tree[v].own = 0
        PROVE  \E y \in DOMAIN corr' \cup {1} : \E j \in DOMAIN tree[y].child :
                 tree[y].child[j] = v /\ ~ Ahead(y, j)'
    <3>1. CASE v = t
      <4>1. PICK y \in Copied : \E j \in DOMAIN tree[y].child : tree[y].child[j] = t /\ ~ Ahead(y, j)'
        BY <1>6
      <4>2. y \in DOMAIN corr' \cup {1}
        BY <1>2, <1>5 DEF Copied
      <4> QED  BY <3>1, <4>1, <4>2
    <3>2. CASE v # t
      <4>1. v \in DOMAIN corr
        BY <3>2, <1>2
      <4>2. PICK y \in DOMAIN corr \cup {1} : \E j \in DOMAIN tree[y].child :
                   tree[y].child[j] = v /\ ~ Ahead(y, j)
        BY <2>1, <4>1 DEF FaithInv, ListsInv
      <4>3. PICK j \in DOMAIN tree[y].child : tree[y].child[j] = v /\ ~ Ahead(y, j)
        BY <4>2
      <4>4. ~ Ahead(y, j)'
        <5>1. CASE y \in Copied
          BY <5>1, <4>3, <1>6
        <5>2. CASE y \notin Copied
          <6>1. y # t
            BY <5>2, <1>1, <1>2 DEF Copied
          <6>2. y \notin Copied'
            BY <6>1, <5>2, <1>2
          <6> QED  BY <6>2 DEF Ahead
        <5> QED  BY <5>1, <5>2
      <4>5. y \in DOMAIN corr' \cup {1}
        BY <1>2
      <4> QED  BY <4>3, <4>4, <4>5
    <3> QED  BY <3>1, <3>2
  <2> QED  BY <2>1, <1>3 DEF ListsInv
<1>13. PastInv'
  <2>1. ASSUME NEW a \in DOMAIN nodes, nodes'[a] # nodes[a]
        PROVE  nodes[a].copied \in {0, round} /\ nodes'[a].copied \in {0, round}
    <3>1. a = c
      BY <2>1, <1>3
    <3>2. ~ (c > Len(nodes))
      BY <3>1, <1>4
    <3>3. round = Roots /\ c \in DOMAIN tree /\ tree[c].kind = "own"
      BY <3>2, <1>1 DEF Copies
    <3> QED  BY <3>1, <3>3, <1>3 DEF FaithInv, TreeStays
  <2>2. \A r \in DOMAIN maps' : r \in DOMAIN maps /\ maps'[r] = maps[r]
    BY <1>3
  <2> QED  BY <2>1, <2>2, <1>3, PastStays DEF PastInv
<1> QED  BY <1>6, <1>7, <1>8, <1>9, <1>10, <1>11, <1>12, <1>13 DEF FaithInv

LEMMA FaithCopy ==
  ASSUME WalkInv, FaithInv, WalkInv', CopyNode \/ CopyModel
  PROVE  FaithInv'
<1>1. PICK t : t = Target
  OBVIOUS
<1>2. Walking /\ t # 0 /\ t \notin DOMAIN corr
  BY <1>1 DEF CopyNode, CopyModel, New
<1>3. t \in DOMAIN tree /\ nodes[t].kind = tree[t].kind /\ t # 1
  BY <1>1, <1>2, WalkSite
<1>4. nodes[t].kind # "own"
  BY <1>1 DEF CopyNode, CopyModel, New
<1>5. nodes[t] = tree[t] /\ t \in DOMAIN nodes /\ t \in Nat
  BY <1>3, <1>4, NodeFacts DEF FaithInv, TreeStays, WalkInv
<1>6. PICK n : n = tree[t]
  OBVIOUS
<1>7. n \in Cell /\ n = nodes[t]
  BY <1>5, <1>6, NodeFacts DEF WalkInv
<1>8. ASSUME NEW c \in Nat, NEW f, f = WholeNode(c, n), frames' = Append(frames, f)
      PROVE  /\ Len(frames') = Len(frames) + 1
             /\ \A k \in DOMAIN frames : frames'[k] = frames[k]
             /\ frames'[Len(frames) + 1].at = c /\ frames'[Len(frames) + 1].i = 1
             /\ frames'[Len(frames) + 1].last = Len(n.child)
  <2>1. f \in FrameType /\ f.at = c /\ f.i = 1 /\ f.last = Len(n.child)
    BY <1>7, <1>8, WholeFrame
  <2>2. frames \in Seq(FrameType) /\ DOMAIN frames = 1..Len(frames)
    BY FrameList DEF WalkInv, FramesInv
  <2>3. /\ Len(frames') = Len(frames) + 1 /\ frames'[Len(frames) + 1] = f
        /\ \A k \in 1..Len(frames) : frames'[k] = frames[k]
    BY <2>1, <2>2, <1>8, AppendProperties
  <2> QED  BY <2>1, <2>2, <2>3
<1>9. CASE CopyNode
  <2>1. PICK c : c = Len(nodes) + 1
    OBVIOUS
  <2>2. PICK m : m = NewCopy(n)
    OBVIOUS
  <2>3. PICK f : f = WholeNode(c, n)
    OBVIOUS
  <2>4. /\ n.kind \in {"plain", "list", "names", "dtor", "type"}
        /\ nodes' = Append(nodes, m) /\ corr' = Bound(corr, t, c) /\ frames' = Append(frames, f)
        /\ patches' = Patched(n, c) /\ UNCHANGED <<tree, round, maps>>
    BY <1>1, <1>7, <1>9, <2>1, <2>2, <2>3 DEF CopyNode, New, WalkedNode, NewCopy
  <2>5. Len(nodes) \in Nat /\ c \in Nat /\ c > Len(nodes)
    BY <2>1, NodeFacts DEF WalkInv
  <2>6. /\ m \in Cell /\ NodeOK(m, c, round) /\ m.made /\ m.kind \notin {"own", "model"}
        /\ m.kind = (IF n.kind = "type" THEN "kept" ELSE n.kind)
        /\ m.child = n.child /\ m.late = n.late /\ m.copied = round
    <3>1. nodes[t].kind \in {"plain", "list", "names", "dtor", "type"} /\ NodesInv
      BY <1>7, <2>4 DEF WalkInv
    <3> QED  BY <3>1, <1>5, <1>7, <2>1, <2>2, CopyFacts
  <2>7. Grown /\ (\A a \in DOMAIN nodes : nodes'[a] = nodes[a]) /\ nodes'[c] = m
    BY <2>1, <2>4, <2>6, AddNode DEF WalkInv
  <2>8. nodes'[c].kind = "dtor" <=> n.kind = "dtor"
    BY <2>6, <2>7
  <2>9. Copies(t, c)
    <3>1. /\ Len(frames') = Len(frames) + 1
          /\ \A k \in DOMAIN frames : frames'[k] = frames[k]
          /\ frames'[Len(frames) + 1].at = c /\ frames'[Len(frames) + 1].i = 1
          /\ frames'[Len(frames) + 1].last = Len(n.child)
      BY <1>8, <2>3, <2>4, <2>5
    <3>2. tree[t].kind # "own"
      BY <1>3, <1>4
    <3> QED  BY <3>1, <3>2, <1>1, <1>2, <1>6, <2>4, <2>5, <2>6, <2>7, <2>8 DEF Copies
  <2> QED  BY <2>7, <2>9, <1>2, StepCopies
<1>10. CASE CopyModel
  <2>1. PICK c : c = n.own
    OBVIOUS
  <2>2. PICK m : m = OwnCopy(n)
    OBVIOUS
  <2>3. PICK f : f = WholeNode(c, n)
    OBVIOUS
  <2>4. /\ n.kind = "model" /\ round = Roots
        /\ nodes' = [nodes EXCEPT ![c] = m] /\ corr' = Bound(corr, t, c) /\ frames' = Append(frames, f)
        /\ UNCHANGED <<tree, patches, round, maps>>
    BY <1>1, <1>7, <1>10, <2>1, <2>2, <2>3 DEF CopyModel, New, OwnCopy
  <2>5. n.late = <<>> /\ c \in DOMAIN tree /\ c \in DOMAIN nodes
    BY <1>3, <1>5, <1>7, <2>1, <2>4, ModelFacts DEF WalkInv
  <2>6. c \in Nat
    BY <2>5, NodeFacts DEF WalkInv
  <2>7. Grown /\ \A a \in DOMAIN nodes : nodes'[a] = IF a = c THEN m ELSE nodes[a]
    BY <1>5, <1>7, <2>1, <2>2, <2>4, PutNode DEF WalkInv
  <2>8. m.kind = "own" /\ m.child = n.child /\ m.late = n.late /\ m.copied = round
    <3>1. round \in Nat
      BY NodeFacts DEF WalkInv
    <3> QED  BY <3>1, <2>2, <1>7 DEF OwnCopy, Cell
  <2>9. nodes'[c].kind = "dtor" <=> n.kind = "dtor"
    BY <2>4, <2>5, <2>7, <2>8
  <2>10. patches' = Patched(n, c)
    BY <2>4, <2>5 DEF Patched
  <2>11. Copies(t, c)
    <3>1. /\ Len(frames') = Len(frames) + 1
          /\ \A k \in DOMAIN frames : frames'[k] = frames[k]
          /\ frames'[Len(frames) + 1].at = c /\ frames'[Len(frames) + 1].i = 1
          /\ frames'[Len(frames) + 1].last = Len(n.child)
      BY <1>8, <2>3, <2>4, <2>6
    <3>2. tree[t].kind # "own" /\ tree[t].kind = "model" /\ c = tree[t].own /\ tree[t].late = <<>>
      BY <1>6, <2>1, <2>4, <2>5
    <3>3. /\ nodes'[c].child = tree[t].child /\ nodes'[c].late = tree[t].late
          /\ nodes'[c].copied = round /\ \A a \in DOMAIN nodes : a # c => nodes'[a] = nodes[a]
      BY <1>6, <2>5, <2>7, <2>8
    <3> QED  BY <3>1, <3>2, <3>3, <1>1, <1>2, <1>6, <2>4, <2>6, <2>9, <2>10 DEF Copies
  <2> QED  BY <2>7, <2>11, <1>2, StepCopies
<1> QED  BY <1>9, <1>10

\* An element of a list that is not shared is not met again.
LEMMA NoListSeen ==
  ASSUME WalkInv, FaithInv, ListsUnshared
  PROVE  ~ WalkSeenList
<1> SUFFICES ASSUME WalkSeenList PROVE FALSE
  OBVIOUS
<1>1. Walking /\ Target \in DOMAIN corr /\ nodes[Target].kind \in Lists
  BY DEF WalkSeenList
<1>2. PICK x \in Copied :
        /\ x \in DOMAIN tree /\ Top.at = CopyOf(x)
        /\ Top.i \in DOMAIN tree[x].child /\ tree[x].child[Top.i] = Target
        /\ Target # 0 => nodes[Target].kind = tree[Target].kind
  BY <1>1, WalkSite
<1>3. PICK v : v = Target
  OBVIOUS
<1>4. PICK i : i = Top.i
  OBVIOUS
<1>5. v # 0
  <2>1. DOMAIN tree = 1..Len(tree) /\ Len(tree) \in Nat
    BY NodeFacts DEF WalkInv
  <2> QED  BY <2>1, <1>1, <1>3, CopiedFacts
<1>6. i \in DOMAIN tree[x].child /\ tree[x].child[i] = v /\ tree[v].kind \in Lists
  BY <1>1, <1>2, <1>3, <1>4, <1>5
<1>7. /\ tree[v].own = 0
      /\ \A y \in DOMAIN tree : \A j \in DOMAIN tree[y].child : tree[y].child[j] = v => y = x /\ j = i
  BY <1>2, <1>5, <1>6 DEF ListsUnshared
<1>8. PICK y \in DOMAIN corr \cup {1} : \E j \in DOMAIN tree[y].child : tree[y].child[j] = v /\ ~ Ahead(y, j)
  BY <1>1, <1>3, <1>6, <1>7 DEF FaithInv, ListsInv
<1>9. y \in DOMAIN tree
  BY CopiedFacts
<1>10. ~ Ahead(x, i)
  BY <1>7, <1>8, <1>9
<1>11. Len(frames) \in DOMAIN frames /\ Top = frames[Len(frames)]
  BY <1>1, AtTop
<1> QED  BY <1>2, <1>4, <1>10, <1>11 DEF Ahead

-----------------------------------------------------------------------------
(* The end of a walk, and the theorem.                                     *)

\* Between the walks no copy of the next one is there.
LEMMA NoneCopied ==
  ASSUME WalkInv, FaithInv, NextTree, AllPatched
  PROVE  /\ round \in Nat /\ round' = round + 1 /\ UNCHANGED tree
         /\ DOMAIN corr' = DOMAIN corr \cup Given(round)
         /\ \A a \in Given(round) : corr'[a] = tree[a].own
         /\ \A a \in DOMAIN corr : a \notin Given(round) => corr'[a] = corr[a]
         /\ GivenBefore(round)' = GivenBefore(round) \cup Given(round)
         /\ Mine' = {} /\ Copied' = {1} /\ CopyOf(1)' = 1
<1>1. /\ round' = round + 1 /\ tree' = tree
      /\ corr' = [a \in DOMAIN corr \cup Given(round) |->
                   IF a \in Given(round) THEN tree[a].own ELSE corr[a]]
  BY DEF NextTree
<1>2. round \in Nat
  BY NodeFacts DEF WalkInv
<1>3. /\ DOMAIN corr' = DOMAIN corr \cup Given(round)
      /\ \A a \in Given(round) : corr'[a] = tree[a].own
      /\ \A a \in DOMAIN corr : a \notin Given(round) => corr'[a] = corr[a]
  BY <1>1
<1>4. GivenBefore(round)' = GivenBefore(round) \cup Given(round)
  <2>1. GivenBefore(round)' = {a \in Givens : tree[a].after < round + 1}
    BY <1>1 DEF GivenBefore, Givens
  <2>2. \A a \in Givens : tree[a].after \in Nat
    <3>1. \A a \in Givens : a \in DOMAIN tree /\ tree \in Trees
      BY DEF Givens, WalkInv, NodesInv
    <3>2. \A a \in Givens : tree[a] \in Cell
      BY <3>1, TreeFacts DEF NodeOK
    <3> QED  BY <3>2 DEF Cell
  <2>3. \A a \in Givens : tree[a].after < round + 1 <=> tree[a].after < round \/ tree[a].after = round
    BY <2>2, <1>2
  <2> QED  BY <2>1, <2>3 DEF GivenBefore, Given
<1>5. Mine' = {}
  <2> SUFFICES ASSUME NEW x \in DOMAIN corr', x \notin GivenBefore(round)',
                      nodes'[corr'[x]].copied = round'
               PROVE  FALSE
    BY DEF Mine
  <2>1. x \in DOMAIN corr /\ corr'[x] = corr[x]
    BY <1>3, <1>4
  <2>2. corr[x] \in DOMAIN nodes
    BY <2>1, CopiedFacts
  <2>3. nodes[corr[x]].copied <= round /\ nodes[corr[x]].copied \in Nat
    BY <2>2 DEF WalkInv, NodesInv, NodeOK, Cell
  <2>4. nodes'[corr[x]].copied = nodes[corr[x]].copied
    BY <2>2 DEF AllPatched
  <2> QED  BY <2>1, <2>3, <2>4, <1>1, <1>2
<1>6. Copied' = {1} /\ CopyOf(1)' = 1
  BY <1>5 DEF Copied, CopyOf
<1> QED  BY <1>1, <1>2, <1>3, <1>4, <1>5, <1>6

\* Only copies of the walk are patched.
LEMMA PatchedMine ==
  ASSUME WalkInv, FaithInv, AllPatched, NEW a \in DOMAIN nodes, nodes'[a] # nodes[a]
  PROVE  /\ a \notin DOMAIN tree /\ a \in Range(corr) /\ nodes[a].copied = round
         /\ nodes'[a].copied = round
<1>1. ToPatch(a)
  BY DEF AllPatched
<1>2. PICK p \in DOMAIN patches : patches[p] = a
  BY <1>1 DEF ToPatch, Range
<1>3. a > Len(tree) /\ \E x \in Mine : a = corr[x]
  BY <1>2 DEF FaithInv, LateInv
<1>4. PICK x \in Mine : a = corr[x]
  BY <1>3
<1>5. nodes[a].copied = round /\ a \in Range(corr)
  BY <1>4 DEF Mine, Range
<1>6. a \notin DOMAIN tree
  <2>1. DOMAIN tree = 1..Len(tree) /\ Len(tree) \in Nat
    BY NodeFacts DEF WalkInv
  <2> QED  BY <2>1, <1>3
<1> QED  BY <1>1, <1>5, <1>6 DEF AllPatched

\* All fields of the copies have been set when the walk is at its end.
LEMMA NonePending ==
  ASSUME WalkInv, FaithInv, NextTree, NEW x \in Mine, NEW j
  PROVE  ~ Pending(x, j)
<1>1. Len(frames) = 1 /\ frames # <<>>
  BY DEF NextTree
<1>2. DOMAIN frames = 1..Len(frames)
  BY FrameList DEF WalkInv
<1>3. frames[1].at = 1
  BY <1>1 DEF FaithInv, CallInv
<1>4. x # 1 /\ CopyOf(x) # 1
  BY CopiedFacts
<1>5. \A k \in DOMAIN frames : k = 1
  BY <1>1, <1>2
<1> QED  BY <1>3, <1>4, <1>5 DEF Pending

\* The walk that ends has been faithful.
LEMMA PastEnds ==
  ASSUME WalkInv, FaithInv, NextTree, AllPatched, Grown
  PROVE  /\ round \in Nat /\ DOMAIN maps = 1..round - 1 /\ DOMAIN maps' = 1..round
         /\ \A r \in DOMAIN maps : maps'[r] = maps[r]
         /\ \A r : r = round => Past(r)'
<1>1. /\ maps \in Seq(Maps) /\ corr \in Maps /\ Len(maps) = round - 1 /\ maps' = Append(maps, corr)
      /\ round \in Nat
  BY NodeFacts DEF WalkInv, MapsInv, CorrInv, NextTree
<1>2. /\ Len(maps') = round /\ maps'[round] = corr /\ \A r \in 1..Len(maps) : maps'[r] = maps[r]
  BY <1>1, AppendProperties
<1>3. maps' \in Seq(Maps)
  BY <1>1, AppendProperties
<1>4. DOMAIN maps = 1..round - 1 /\ DOMAIN maps' = 1..round
  BY <1>1, <1>2, <1>3, SeqFacts
<1>5. PICK m : m = corr
  OBVIOUS
<1>6. PICK r : r = round
  OBVIOUS
<1>7. PICK g : g = GivenBefore(r)
  OBVIOUS
<1>8. tree' = tree /\ GivenBefore(r)' = g
  BY <1>7, SameGiven DEF NextTree
<1>9. \A a \in g : a \in DOMAIN m /\ m[a] = tree[a].own
  BY <1>5, <1>6, <1>7 DEF FaithInv, CorrTree
<1>10. \A x \in DOMAIN m : x \in DOMAIN tree /\ m[x] \in DOMAIN nodes /\ m[x] \in DOMAIN nodes'
  BY <1>5, CopiedFacts DEF Grown
<1>11. ASSUME NEW a \in DOMAIN m \ g, nodes'[m[a]].copied = r
       PROVE  /\ Len(nodes'[m[a]].child) = Len(tree[a].child)
              /\ \A j \in DOMAIN tree[a].child : LeadsTo(m, r, tree[a], j, nodes[m[a]].child[j])'
              /\ nodes'[m[a]].late = [j \in DOMAIN tree[a].late |-> Led(m, tree[a].late[j])]
  <2>1. PICK c : c = m[a]
    OBVIOUS
  <2>2. c \in DOMAIN nodes /\ a \in DOMAIN tree
    BY <2>1, <1>10
  <2>3. nodes'[c].child = nodes[c].child /\ nodes'[c].copied = nodes[c].copied
    BY <2>2 DEF AllPatched
  <2>4. a \in Mine /\ corr[a] = c
    BY <2>1, <2>3, <1>5, <1>6, <1>7, <1>11 DEF Mine
  <2>5. a \in Copied /\ CopyOf(a) = c /\ a # 1
    BY <2>4, CopiedFacts
  <2>6. Len(nodes'[c].child) = Len(tree[a].child)
    BY <2>3, <2>5 DEF FaithInv, FieldsInv
  <2>7. ASSUME NEW j \in DOMAIN tree[a].child
        PROVE  LeadsTo(m, r, tree[a], j, nodes[m[a]].child[j])'
    <3>1. PICK x : x = nodes[c].child[j]
      OBVIOUS
    <3>2. ~ Pending(a, j)
      BY <2>4, NonePending
    <3>3. LeadsTo(corr, round, tree[a], j, nodes[CopyOf(a)].child[j])
      BY <3>2, <2>5 DEF FaithInv, FieldsInv
    <3>4. LeadsTo(m, r, tree[a], j, x)
      BY <3>1, <3>3, <2>5, <1>5, <1>6
    <3>5. x \in DOMAIN nodes /\ x \notin DOMAIN tree /\ x \notin Range(m) /\ nodes[x].copied = r
            => nodes'[x] = nodes[x]
      BY <1>5, PatchedMine
    <3>6. /\ \A v \in DOMAIN m : m[v] \in DOMAIN nodes /\ v \in DOMAIN m /\ m[v] = m[v]
          /\ \A v \in DOMAIN m : v \notin DOMAIN m =>
               v # 0 /\ tree[v].kind # "own" /\ (m[v] \in DOMAIN nodes => m[v] \in DOMAIN tree)
      BY <1>10
    <3>7. NodesInv
      BY DEF WalkInv
    <3>8. LeadsTo(m, r, tree[a], j, x)'
      BY <2>2, <3>4, <3>5, <3>6, <3>7, <1>8, LeadsStays
    <3>9. nodes'[m[a]].child[j] = x
      BY <2>1, <2>3, <3>1
    <3> QED  BY <3>8, <3>9
  <2>8. nodes'[c].late = [j \in DOMAIN tree[a].late |-> Led(m, tree[a].late[j])]
    <3>1. nodes[c].late = tree[a].late /\ (tree[a].late # <<>> => c \in Range(patches))
      BY <2>4 DEF FaithInv, LateInv
    <3>2. \A v : Probe(v) = Led(m, v)
      BY <1>5 DEF Probe
    <3>3. CASE ToPatch(c)
      <4>1. nodes'[c].late = [j \in DOMAIN nodes[c].late |-> Probe(nodes[c].late[j])]
        BY <2>2, <3>3 DEF AllPatched
      <4> QED  BY <4>1, <3>1, <3>2
    <3>4. CASE ~ ToPatch(c)
      <4>1. nodes'[c].late = <<>> /\ tree[a].late = <<>>
        BY <3>1, <3>4, <2>2 DEF AllPatched, ToPatch
      <4>2. PICK l : l = tree[a].late
        OBVIOUS
      <4>3. DOMAIN l = {} /\ l = <<>>
        BY <4>1, <4>2
      <4>4. [j \in DOMAIN l |-> Led(m, l[j])] = <<>>
        BY <4>3
      <4> QED  BY <4>1, <4>2, <4>4
    <3> QED  BY <3>3, <3>4
  <2> QED  BY <2>1, <2>6, <2>7, <2>8
<1>12. maps'[r] = m
  BY <1>2, <1>5, <1>6
<1>13. Past(r)'
  BY <1>8, <1>9, <1>10, <1>11, <1>12 DEF Past
<1>14. \A q \in DOMAIN maps : maps'[q] = maps[q]
  BY <1>1, <1>2, <1>4
<1>15. \A q : q = round => Past(q)'
  BY <1>6, <1>13
<1> QED  BY <1>1, <1>4, <1>14, <1>15

LEMMA FaithNext ==
  ASSUME WalkInv, FaithInv, WalkInv', NextTree, AllPatched, Grown
  PROVE  FaithInv'
<1>1. /\ round \in Nat /\ round' = round + 1 /\ tree' = tree
      /\ DOMAIN corr' = DOMAIN corr \cup Given(round)
      /\ \A a \in Given(round) : corr'[a] = tree[a].own
      /\ \A a \in DOMAIN corr : a \notin Given(round) => corr'[a] = corr[a]
      /\ GivenBefore(round)' = GivenBefore(round) \cup Given(round)
      /\ Mine' = {} /\ Copied' = {1} /\ CopyOf(1)' = 1
  BY NoneCopied
<1>2. /\ Len(nodes) \in Nat /\ DOMAIN nodes = 1..Len(nodes) /\ Len(tree) \in Nat
      /\ DOMAIN tree = 1..Len(tree) /\ DOMAIN tree \subseteq DOMAIN nodes /\ 1 \in DOMAIN tree
  BY NodeFacts DEF WalkInv
<1>3. \A a \in DOMAIN tree : nodes'[a] = nodes[a]
  BY <1>2, PatchedMine
<1>4. /\ patches' = <<>>
      /\ frames' = IF round < Roots THEN <<Frame(1, round + 1, round + 1)>> ELSE <<>>
  BY DEF NextTree
<1>5. \A k \in DOMAIN frames' : /\ k = 1 /\ frames'[k].at = 1 /\ frames'[k].i = round + 1
                               /\ frames'[k].last = round + 1 /\ Len(frames') = 1
  <2>1. CASE round < Roots
    <3>1. PICK f : f = Frame(1, round + 1, round + 1)
      OBVIOUS
    <3>2. f.at = 1 /\ f.i = round + 1 /\ f.last = round + 1
      BY <3>1 DEF Frame
    <3>3. frames' = <<f>>
      BY <2>1, <3>1, <1>4
    <3>4. DOMAIN <<f>> = {1} /\ <<f>>[1] = f /\ Len(<<f>>) = 1
      OBVIOUS
    <3> QED  BY <3>2, <3>3, <3>4
  <2>2. CASE ~ (round < Roots)
    <3>1. frames' = <<>> /\ DOMAIN <<>> = {}
      BY <2>2, <1>4
    <3> QED  BY <3>1
  <2> QED  BY <2>1, <2>2
<1>6. CorrTree'
  <2>1. ASSUME NEW a \in GivenBefore(round)'
        PROVE  a \in DOMAIN corr' /\ corr'[a] = tree[a].own
    BY <2>1, <1>1 DEF FaithInv, CorrTree
  <2>2. ASSUME NEW x \in DOMAIN corr'
        PROVE  /\ x \in DOMAIN tree /\ x # 1 /\ corr'[x] # 1
               /\ x \notin GivenBefore(round)' => \/ corr'[x] > Len(tree)
                                                  \/ tree[x].kind = "kept" /\ corr'[x] = x
                                                  \/ tree[x].kind = "model" /\ corr'[x] = tree[x].own
    <3>1. CASE x \in Given(round)
      <4>1. x \in Givens /\ tree \in Trees
        BY <3>1 DEF Given, WalkInv, NodesInv
      <4>2. x \in DOMAIN tree /\ x # 1
        BY <4>1, GivenFacts DEF WalkInv
      <4>3. tree[x].own # 1
        BY <4>1, <4>2, TreeFacts
      <4> QED  BY <3>1, <4>2, <4>3, <1>1
    <3>2. CASE x \notin Given(round)
      <4>1. x \in DOMAIN corr /\ corr'[x] = corr[x]
        BY <3>2, <1>1
      <4> QED  BY <4>1, <1>1 DEF FaithInv, CorrTree
    <3> QED  BY <3>1, <3>2
  <2> QED  BY <2>1, <2>2, <1>1 DEF CorrTree
<1>7. TreeStays'
  <2>1. /\ nodes'[1].copied = 0
        /\ \A a \in DOMAIN tree : a # 1 /\ tree[a].kind # "own" => nodes'[a] = tree[a]
        /\ \A a \in DOMAIN tree : tree[a].kind = "own" => nodes'[a].copied \in {0, Roots}
    BY <1>2, <1>3 DEF FaithInv, TreeStays
  <2> QED  BY <2>1, <1>1 DEF TreeStays
<1>8. CopiesApart'
  BY <1>1 DEF CopiesApart
<1>9. CallInv'
  <2>1. frames' # <<>> => frames'[1].at = 1 /\ frames'[1].last = round'
    <3>1. frames' # <<>> => 1 \in DOMAIN frames'
      <4>1. CASE round < Roots
        BY <4>1, <1>4
      <4>2. CASE ~ (round < Roots)
        BY <4>2, <1>4
      <4> QED  BY <4>1, <4>2
    <3> QED  BY <3>1, <1>1, <1>5
  <2>2. \A k, l \in DOMAIN frames' : frames'[k].at = frames'[l].at => k = l
    BY <1>5
  <2>3. ASSUME NEW k \in DOMAIN frames'
        PROVE  /\ frames'[k].i >= 1
               /\ 1 \in Copied' /\ frames'[k].at = CopyOf(1)' /\ ~ (k < Len(frames'))
    <3>1. k = 1 /\ frames'[k].at = 1 /\ frames'[k].i = round + 1 /\ Len(frames') = 1
      BY <1>5
    <3>2. round \in Nat
      BY <1>1
    <3>3. frames'[k].i >= 1 /\ ~ (k < Len(frames'))
      BY <3>1, <3>2
    <3>4. 1 \in Copied' /\ frames'[k].at = CopyOf(1)'
      BY <3>1, <1>1
    <3> QED  BY <3>3, <3>4
  <2> QED  BY <2>1, <2>2, <2>3 DEF CallInv
<1>10. ASSUME NEW j \in Nat
       PROVE  /\ Pending(1, j)' => j > round
              /\ Ahead(1, j)' => j > round
  <2>1. Pending(1, j)' => j > round
    <3>1. Pending(1, j)' <=> j > round' \/ \E k \in DOMAIN frames' : frames'[k].at = CopyOf(1)' /\ frames'[k].i <= j
      BY DEF Pending
    <3> QED  BY <3>1, <1>1, <1>5
  <2>2. Ahead(1, j)' => j > round
    <3>1. Ahead(1, j)' => \/ j > round'
                         \/ \E k \in DOMAIN frames' : frames'[k].i < j \/ frames'[k].i = j
      BY DEF Ahead
    <3> QED  BY <3>1, <1>1, <1>5
  <2> QED  BY <2>1, <2>2
<1>11. \A j \in DOMAIN tree[1].child : j \in Nat
  <2>1. tree[1].child \in Seq(Nat)
    BY <1>2, TreeFacts DEF WalkInv, NodesInv, NodeOK, Cell
  <2> QED  BY <2>1, SeqFacts
<1>12. FieldsInv'
  <2>1. Len(nodes[1].child) = Len(tree[1].child) /\ nodes'[1] = nodes[1]
    <3>1. 1 \in Copied /\ CopyOf(1) = 1
      BY DEF Copied, CopyOf
    <3> QED  BY <3>1, <1>2, <1>3 DEF FaithInv, FieldsInv
  <2>2. ASSUME NEW j \in DOMAIN tree[1].child, Pending(1, j)'
        PROVE  nodes[1].child[j] = tree[1].child[j]
    <3>1. j > round
      BY <2>2, <1>10, <1>11
    <3>2. Pending(1, j) /\ 1 \in Copied /\ CopyOf(1) = 1
      BY <3>1 DEF Pending, Copied, CopyOf
    <3> QED  BY <3>2 DEF FaithInv, FieldsInv
  <2>3. ASSUME NEW x \in Copied'
        PROVE  /\ Len(nodes'[CopyOf(x)'].child) = Len(tree'[x].child)
               /\ \A j \in DOMAIN tree'[x].child :
                    IF Pending(x, j)' THEN nodes'[CopyOf(x)'].child[j] = tree'[x].child[j]
                    ELSE x = 1 \/ LeadsTo(corr, round, tree[x], j, nodes[CopyOf(x)].child[j])'
    <3>1. x = 1
      BY <1>1
    <3> QED  BY <3>1, <2>1, <2>2, <1>1
  <2> QED  BY <2>3 DEF FieldsInv
<1>13. LateInv'
  <2>1. DOMAIN patches' = {}
    BY <1>4
  <2> QED  BY <2>1, <1>1 DEF LateInv
<1>14. ListsInv'
  <2> SUFFICES ASSUME NEW v \in DOMAIN corr', tree[v].kind \in Lists, tree[v].own = 0
               PROVE  \E x \in DOMAIN corr' \cup {1} : \E j \in DOMAIN tree[x].child :
                        tree[x].child[j] = v /\ ~ Ahead(x, j)'
    BY <1>1 DEF ListsInv
  <2>1. v \in DOMAIN corr
    BY <1>1 DEF Given, Givens
  <2>2. PICK x \in DOMAIN corr \cup {1} : \E j \in DOMAIN tree[x].child : tree[x].child[j] = v /\ ~ Ahead(x, j)
    BY <2>1 DEF FaithInv, ListsInv
  <2>3. PICK j \in DOMAIN tree[x].child : tree[x].child[j] = v /\ ~ Ahead(x, j)
    BY <2>2
  <2>4. ~ Ahead(x, j)'
    <3> SUFFICES ASSUME Ahead(x, j)' PROVE FALSE
      OBVIOUS
    <3>1. x \in Copied'
      BY DEF Ahead
    <3>2. x = 1
      BY <3>1, <1>1
    <3>3. j > round
      BY <3>2, <1>10, <1>11
    <3>4. Ahead(1, j)
      BY <3>3 DEF Ahead, Copied
    <3> QED  BY <3>2, <3>4, <2>3
  <2>5. x \in DOMAIN corr' \cup {1}
    BY <1>1, <2>2
  <2> QED  BY <2>3, <2>4, <2>5
<1>15. PastInv'
  <2>1. /\ DOMAIN maps = 1..round - 1 /\ DOMAIN maps' = 1..round
        /\ \A r \in DOMAIN maps : maps'[r] = maps[r]
        /\ \A r : r = round => Past(r)'
    BY PastEnds
  <2>2. \A a \in DOMAIN nodes : nodes'[a] # nodes[a] => /\ nodes[a].copied \in {0, round}
                                                       /\ nodes'[a].copied \in {0, round}
    BY PatchedMine
  <2>3. ASSUME NEW r \in DOMAIN maps'
        PROVE  Past(r)'
    <3>1. r \in DOMAIN maps \/ r = round
      BY <2>1, <1>1
    <3>2. CASE r \in DOMAIN maps
      BY <3>2, <2>1, <2>2, <1>1, PastStays
    <3> QED  BY <3>1, <3>2, <2>1
  <2> QED  BY <2>3 DEF PastInv
<1> QED  BY <1>6, <1>7, <1>8, <1>9, <1>12, <1>13, <1>14, <1>15 DEF FaithInv

LEMMA FaithStart ==
  ASSUME CopyInit, WalkInv
  PROVE  FaithInv
<1>1. /\ tree \in Trees /\ nodes = tree /\ round = 1 /\ maps = <<>> /\ patches = <<>>
      /\ frames = <<Frame(1, 1, 1)>> /\ corr = [a \in Given(0) |-> tree[a].own]
  BY DEF CopyInit
<1>2. /\ DOMAIN tree = 1..Len(tree) /\ Len(tree) \in Nat /\ 1 \in DOMAIN tree
      /\ \A a \in DOMAIN tree : tree[a].copied = 0 /\ tree[a].own # 1 /\ tree[a].after \in Nat
  <2>1. \A a \in DOMAIN tree : tree[a].copied = 0 /\ tree[a].own # 1 /\ NodeOK(tree[a], Len(tree), 0)
    BY <1>1, TreeFacts
  <2> QED  BY <2>1, NodeFacts DEF WalkInv, NodeOK, Cell
<1>3. /\ GivenBefore(round) = Given(0) /\ DOMAIN corr = Given(0)
      /\ \A a \in DOMAIN corr : a \in DOMAIN tree /\ a # 1 /\ tree[a].own \in DOMAIN tree
                              /\ tree[a].own # 0 /\ corr[a] = tree[a].own
  <2>1. \A a \in Givens : a \in DOMAIN tree /\ a # 1 /\ tree[a].own \in DOMAIN tree
    BY GivenFacts DEF WalkInv
  <2>2. \A a \in Givens : tree[a].after < 1 <=> tree[a].after = 0
    BY <2>1, <1>2
  <2> QED  BY <2>1, <2>2, <1>1 DEF Given, GivenBefore, Givens
<1>4. Mine = {} /\ Copied = {1} /\ CopyOf(1) = 1
  <2>1. Mine = {}
    BY <1>3 DEF Mine
  <2> QED  BY <2>1 DEF Copied, CopyOf
<1>5. DOMAIN frames = {1} /\ frames[1].at = 1 /\ frames[1].i = 1 /\ frames[1].last = 1 /\ Len(frames) = 1
  <2>1. PICK f : f = Frame(1, 1, 1)
    OBVIOUS
  <2>2. f.at = 1 /\ f.i = 1 /\ f.last = 1 /\ frames = <<f>>
    BY <2>1, <1>1 DEF Frame
  <2> QED  BY <2>2
<1>6. CorrTree
  BY <1>2, <1>3 DEF CorrTree
<1>7. TreeStays
  BY <1>1, <1>2 DEF TreeStays
<1>8. CopiesApart
  BY <1>4 DEF CopiesApart
<1>9. CallInv
  <2>1. \A k \in DOMAIN frames : k = 1 /\ frames[k].i >= 1 /\ ~ (k < Len(frames))
    BY <1>5
  <2> QED  BY <2>1, <1>1, <1>4, <1>5 DEF CallInv
<1>10. FieldsInv
  BY <1>1, <1>4 DEF FieldsInv
<1>11. LateInv
  <2>1. DOMAIN patches = {}
    BY <1>1
  <2> QED  BY <2>1, <1>4 DEF LateInv
<1>12. ListsInv
  BY <1>3 DEF ListsInv
<1>13. PastInv
  <2>1. DOMAIN maps = {}
    BY <1>1
  <2> QED  BY <2>1 DEF PastInv
<1> QED  BY <1>6, <1>7, <1>8, <1>9, <1>10, <1>11, <1>12, <1>13 DEF FaithInv

LEMMA FaithStutter ==
  ASSUME FaithInv, UNCHANGED copyVars
  PROVE  FaithInv'
<1>1. UNCHANGED <<nodes, tree, corr, frames, patches, round, maps>>
  BY DEF copyVars
<1>2. /\ Mine' = Mine /\ Copied' = Copied /\ GivenBefore(round)' = GivenBefore(round)
      /\ \A r : GivenBefore(r)' = GivenBefore(r)
  BY <1>1 DEF Mine, Copied, GivenBefore, Givens
<1>3. \A x : CopyOf(x)' = CopyOf(x)
  BY <1>1 DEF CopyOf
<1>4. \A x, j : (Pending(x, j)' <=> Pending(x, j)) /\ (Ahead(x, j)' <=> Ahead(x, j))
  BY <1>1, <1>2, <1>3 DEF Pending, Ahead
<1>5. \A m, r, n, j, x : LeadsTo(m, r, n, j, x)' <=> LeadsTo(m, r, n, j, x)
  BY <1>1 DEF LeadsTo
<1>6. CorrTree' /\ TreeStays' /\ CopiesApart'
  BY <1>1, <1>2 DEF FaithInv, CorrTree, TreeStays, CopiesApart
<1>7. CallInv'
  BY <1>1, <1>2, <1>3 DEF FaithInv, CallInv
<1>8. FieldsInv'
  <2>1. FieldsInv
    BY DEF FaithInv
  <2> QED  BY <2>1, <1>1, <1>2, <1>3, <1>4, <1>5 DEF FieldsInv
<1>9. LateInv' /\ ListsInv'
  BY <1>1, <1>2, <1>4 DEF FaithInv, LateInv, ListsInv
<1>10. PastInv'
  <2>1. \A r : Past(r) => Past(r)'
    BY <1>1, <1>2, <1>5 DEF Past
  <2> QED  BY <2>1, <1>1 DEF FaithInv, PastInv
<1> QED  BY <1>6, <1>7, <1>8, <1>9, <1>10 DEF FaithInv

\* Of trees whose lists are not shared, a copy is faithful: whatever the walks,
\* their order, and what the callers enter before them and between them, a
\* pointer of a copy leads to what corresponded to what the original leads to,
\* or, when it is the tag of a destructor and a formal, to a node of its own.
THEOREM CopiesAreFaithful == CopySpec => []CopyIsFaithful
<1>1. CopyInit => (ListsUnshared => FaithInv)
  BY StartInv, FaithStart
<1>2. ASSUME WalkInv, WalkInv', ListsUnshared => FaithInv, [CopyNext]_copyVars
      PROVE  (ListsUnshared => FaithInv)'
  <2> SUFFICES ASSUME ListsUnshared' PROVE FaithInv'
    OBVIOUS
  <2>1. tree' = tree
    BY <1>2 DEF CopyNext, copyVars, WalkNull, WalkSeen, WalkSeenList, WalkKept, WalkOwn, CopyModel,
      CopyNode, Return, NextTree
  <2>2. ListsUnshared
    BY <2>1 DEF ListsUnshared
  <2>3. FaithInv
    BY <2>2, <1>2
  <2>4. CASE WalkNull \/ WalkOwn \/ WalkKept
    BY <2>3, <2>4, <1>2, FaithKept
  <2>5. CASE WalkSeen
    BY <2>3, <2>5, <1>2, FaithSeen
  <2>6. CASE WalkSeenList
    BY <2>2, <2>3, <2>6, <1>2, NoListSeen
  <2>7. CASE CopyModel \/ CopyNode
    BY <2>3, <2>7, <1>2, FaithCopy
  <2>8. CASE Return
    BY <2>3, <2>8, <1>2, FaithReturn
  <2>9. CASE NextTree
    BY <2>3, <2>9, <1>2, StepNext, FaithNext
  <2>10. CASE UNCHANGED copyVars
    BY <2>3, <2>10, FaithStutter
  <2> QED  BY <1>2, <2>4, <2>5, <2>6, <2>7, <2>8, <2>9, <2>10 DEF CopyNext
<1>3. ASSUME WalkInv, ListsUnshared => FaithInv
      PROVE  CopyIsFaithful
  <2> SUFFICES ASSUME FaithInv, NEW r \in DOMAIN maps
               PROVE  /\ \A a \in GivenBefore(r) : a \in DOMAIN maps[r] /\ maps[r][a] = tree[a].own
                      /\ \A a \in DOMAIN maps[r] \ GivenBefore(r) : nodes[maps[r][a]].copied = r =>
                           LET n == tree[a]
                               c == nodes[maps[r][a]]
                           IN  /\ Len(c.child) = Len(n.child)
                               /\ \A j \in DOMAIN n.child : LeadsTo(maps[r], r, n, j, c.child[j])
                               /\ c.late = [j \in DOMAIN n.late |-> Led(maps[r], n.late[j])]
    BY <1>3 DEF CopyIsFaithful
  <2>1. Past(r)
    BY DEF FaithInv, PastInv
  <2> QED  BY <2>1 DEF Past
<1> QED  BY <1>1, <1>2, <1>3, WalkInvariant, PTL DEF CopySpec
=============================================================================
