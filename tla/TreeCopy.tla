------------------------------ MODULE TreeCopy ------------------------------
(***************************************************************************)
(* How the compiler copies the tree of a template for an instantiation     *)
(* (src/src/tree_walk.C, tree_copy.C, and class_copy() of template.C).     *)
(* "Tree" is a name: the nodes refer to each other at will.                *)
(*                                                                         *)
(* A walk copies a node, enters the copy in a correspondence and then goes *)
(* on with the fields of the copy.  Some pointers are not walked and are   *)
(* patched at the end.  One correspondence serves several walks: first the *)
(* arguments of the templates that are referred to, then the template.     *)
(* Between two walks the instance of a template that is referred to is     *)
(* entered, over what the walks have entered.                              *)
(*                                                                         *)
(* The correspondence is a Hash: module HashTable shows that a Hash is the *)
(* partial function it is here.                                            *)
(***************************************************************************)
EXTENDS Integers, Sequences, FiniteSets, SequencesExt

CONSTANTS
  Trees,    \* sequences of nodes: all that the compiler holds at first
  Roots,    \* of the first node, which stands for the callers' pointers to
            \* what is copied: the number of its fields
  MaxNodes  \* a bound on the nodes and their copies

(* A node has child, the fields that are walked, and late, those that are  *)
(* patched; addresses are positions in the nodes, and 0 is null.  Of kind   *)
(*   "plain"                                                               *)
(*   "list"   stmt, ELIST: the last field is the next element              *)
(*   "names"  name_list: the fields are f and l                            *)
(*   "dtor"   the name of a destructor: the second field is n_dtag         *)
(*   "type"   a class, enum or basic type that is not DEFINED              *)
(*   "kept"   a DEFINED or COPIED type, a global name, dummy, zero         *)
(*   "model"  the COBJ, NAME and CLASS of the template; late is <<>>        *)
(*   "own"    these nodes of the instance                                  *)
(* own is what a model is copied to, or else what the callers enter for    *)
(* the node themselves, and after the walk that comes before: 0 for the    *)
(* formals, the name of the template and all that is kept when the         *)
(* template is copied again, and the number of the walk for the name and   *)
(* the types of a template that is referred to.                            *)
(* formal: n_template_arg is template_type_formal.                         *)
(* made: for the instance, now or when the template was copied before.     *)
(* copied: by which walk.                                                  *)

Kinds == {"plain", "list", "names", "dtor", "type", "kept", "model", "own"}
Lists == {"list", "names"}

NodesOf(t) ==
  [kind : Kinds, child : Seq(0..Len(t) \ {1}), late : Seq(0..Len(t)),
   own : 0..Len(t) \ {1}, after : 0..Roots - 1, formal : BOOLEAN, made : BOOLEAN,
   copied : {0}]

\* The nodes have the fields that are named.
HasFields(n) ==
  /\ n.kind = "list" => n.child # <<>>
  /\ n.kind = "names" => Len(n.child) = 2
  /\ n.kind = "dtor" => Len(n.child) >= 2
  /\ n.kind = "model" => n.late = <<>>

\* Each node of the instance was made for one node of the template, and a list
\* corresponds to its copy of before.
OwnIsOwn(t, a) ==
  /\ t[a].kind = "own" => t[a].made
  /\ t[a].kind = "model" =>
       /\ ~ t[a].made /\ t[a].own # 0 /\ t[t[a].own].kind = "own"
       /\ \A b \in DOMAIN t : t[b].kind = "model" /\ t[b].own = t[a].own => a = b
  /\ t[a].kind \in Lists /\ t[a].own # 0 =>
       /\ t[a].after = 0
       /\ t[t[a].own].kind = t[a].kind /\ t[t[a].own].made

\* What the compiler can hold: nothing refers to the callers' pointers, and a
\* name_list goes on with a name_list.
IsTree(t) ==
  /\ t # <<>> /\ t \in Seq(NodesOf(t))
  /\ t[1].kind = "plain" /\ Len(t[1].child) = Roots /\ t[1].own = 0 /\ t[1].made
  /\ \A a \in DOMAIN t :
       /\ HasFields(t[a]) /\ OwnIsOwn(t, a)
       /\ t[a].kind = "names" /\ t[a].child[2] # 0 => t[t[a].child[2]].kind = "names"
       /\ t[a].formal => t[a].kind = "plain"

ASSUME TreesAssumption ==
  /\ Roots \in Nat \ {0} /\ MaxNodes \in Nat
  /\ \A t \in Trees : IsTree(t)

VARIABLES
  nodes,    \* sequence of nodes
  tree,     \* what nodes was at first
  corr,     \* the correspondence: nodes_seen_hash
  frames,   \* the walk: where its calls stand, the innermost last
  patches,  \* patch_tree::head
  round,    \* which of the roots is walked
  maps      \* for the properties: what corr was at the end of each walk

copyVars == <<nodes, tree, corr, frames, patches, round, maps>>

Top == Last(frames)
Walking == frames # <<>> /\ Top.i <= Top.last

\* A call stands at the field i of a node, or, at 0, at the last field, which
\* it walks before the others.
Frame(a, from, to) == [at |-> a, i |-> from, last |-> to]
Field(f) == IF f.i = 0 THEN f.last ELSE f.i

Target == nodes[Top.at].child[Field(Top)]

\* The frame for all fields of the node n, which stands at a.
WholeNode(a, n) == Frame(a, 1, Len(n.child))

Bound(m, k, v) == [y \in DOMAIN m \cup {k} |-> IF y = k THEN v ELSE m[y]]

Advanced(s) == [s EXCEPT ![Len(s)].i = @ + 1]

\* The field i of a is set to b.  When that is the tag of a destructor, and b
\* a formal, the field is set once more, to a copy that no one else knows of.
ToTwin(a, i, b) == nodes[a].kind = "dtor" /\ i = 2 /\ nodes[b].formal
Twin(b) == [nodes[b] EXCEPT !.made = TRUE, !.copied = round]
FieldSet(a, i, b) ==
  IF ToTwin(a, i, b)
  THEN [Append(nodes, Twin(b)) EXCEPT ![a].child[i] = Len(nodes) + 1]
  ELSE [nodes EXCEPT ![a].child[i] = b]

-----------------------------------------------------------------------------
(* walk() and pre_act_on_node(), by what they find. *)

WalkNull ==
  /\ Walking /\ Target = 0
  /\ frames' = Advanced(frames)
  /\ UNCHANGED <<nodes, tree, corr, patches, round, maps>>

\* A node that has been met: its copy is taken.
WalkSeen ==
  /\ Walking /\ Target \in DOMAIN corr /\ nodes[Target].kind \notin Lists
  /\ Len(nodes) < MaxNodes
  /\ nodes' = FieldSet(Top.at, Field(Top), corr[Target])
  /\ frames' = Advanced(frames)
  /\ UNCHANGED <<tree, corr, patches, round, maps>>

\* The fields of an element that has been met: the next one, which the copy may
\* hold as a copy already, and of a name_list, whose walk falls through, both
\* once more.
PeerFrame(a) ==
  LET n == Len(nodes[a].child)
  IN  Frame(a, IF nodes[a].kind = "names" THEN 0 ELSE n, n)

WalkSeenList ==
  /\ Walking /\ Target \in DOMAIN corr /\ nodes[Target].kind \in Lists
  /\ frames' = Append(frames, PeerFrame(corr[Target]))
  /\ UNCHANGED <<nodes, tree, corr, patches, round, maps>>

New(kind) == Walking /\ Target # 0 /\ Target \notin DOMAIN corr
             /\ nodes[Target].kind \in kind

WalkKept ==
  /\ New({"kept"})
  /\ corr' = Bound(corr, Target, Target)
  /\ frames' = Advanced(frames)
  /\ UNCHANGED <<nodes, tree, patches, round, maps>>

\* never_see_again is 0: it is not entered.  The model stops at a walk that
\* gets here, or to CopyModel, before the last: the hook still has the nodes
\* of another instance.
WalkOwn ==
  /\ New({"own"}) /\ round = Roots
  /\ frames' = Advanced(frames)
  /\ UNCHANGED <<nodes, tree, corr, patches, round, maps>>

\* templ_inst::copy_hook(): the attributes are copied, to a given node.
CopyModel ==
  /\ New({"model"}) /\ round = Roots
  /\ LET n == nodes[Target] IN
       /\ nodes' = [nodes EXCEPT ![n.own] = [n EXCEPT !.kind = "own", !.made = TRUE,
                                                    !.copied = round]]
       /\ corr' = Bound(corr, Target, n.own)
       /\ frames' = Append(frames, WholeNode(n.own, n))
  /\ UNCHANGED <<tree, patches, round, maps>>

\* Bug: the walk goes on in the node and not in its copy.
Original(c) == Target

WalkedNode(c) == c

Patched(n, c) == IF n.late # <<>> THEN Append(patches, c) ELSE patches

CopyNode ==
  /\ New({"plain", "list", "names", "dtor", "type"})
  /\ Len(nodes) < MaxNodes
  /\ LET n == nodes[Target]
         c == Len(nodes) + 1
     IN  /\ nodes' = Append(nodes, [n EXCEPT !.kind = IF @ = "type" THEN "kept" ELSE @,
                                           !.made = TRUE, !.copied = round])
         /\ corr' = Bound(corr, Target, c)
         /\ frames' = Append(frames, WholeNode(WalkedNode(c), n))
         /\ patches' = Patched(n, c)
  /\ UNCHANGED <<tree, round, maps>>

\* The call returns, and the pointer that led to the node is set to the copy.
Return ==
  /\ frames # <<>> /\ ~ Walking /\ Len(frames) > 1
  /\ Len(nodes) < MaxNodes
  /\ LET up == frames[Len(frames) - 1]
     IN  nodes' = FieldSet(up.at, Field(up), Top.at)
  /\ frames' = Advanced(Front(frames))
  /\ UNCHANGED <<tree, corr, patches, round, maps>>

Led(m, a) == IF a \in DOMAIN m THEN m[a] ELSE a

Probe(a) == Led(corr, a)

\* Bug: only the latest patch is made.
LatestOnly(a) == patches # <<>> /\ a = Last(patches)

ToPatch(a) == a \in Range(patches)

\* What the callers enter, and what of it they enter after the walk r, and what
\* they have entered before it.
Givens == {a \in DOMAIN tree : tree[a].own # 0 /\ tree[a].kind # "model"}
Given(r) == {a \in Givens : tree[a].after = r}
GivenBefore(r) == {a \in Givens : tree[a].after < r}

\* The end of walk_tree(), patch_tree::patch(), what make_ref_copy() enters,
\* and the next walk.
NextTree ==
  /\ frames # <<>> /\ ~ Walking /\ Len(frames) = 1
  /\ nodes' = [a \in DOMAIN nodes |->
                IF ToPatch(a) THEN [nodes[a] EXCEPT !.late = [j \in DOMAIN @ |-> Probe(@[j])]]
                ELSE nodes[a]]
  /\ patches' = <<>>
  /\ corr' = [a \in DOMAIN corr \cup Given(round) |->
               IF a \in Given(round) THEN tree[a].own ELSE corr[a]]
  /\ maps' = Append(maps, corr)
  /\ round' = round + 1
  /\ frames' = IF round < Roots THEN <<Frame(1, round + 1, round + 1)>> ELSE <<>>
  /\ UNCHANGED tree

CopyInit ==
  /\ tree \in Trees /\ nodes = tree
  /\ corr = [a \in Given(0) |-> tree[a].own]
  /\ patches = <<>> /\ round = 1 /\ maps = <<>>
  /\ frames = <<Frame(1, 1, 1)>>

CopyNext ==
  \/ WalkNull \/ WalkSeen \/ WalkSeenList \/ WalkKept \/ WalkOwn
  \/ CopyModel \/ CopyNode \/ Return \/ NextTree

CopySpec == CopyInit /\ [][CopyNext]_copyVars
-----------------------------------------------------------------------------
(* Properties. *)

CopyTypeOK ==
  /\ round \in 1 .. Roots + 1 /\ Len(maps) = round - 1
  /\ \A a \in DOMAIN nodes : Range(nodes[a].child) \cup Range(nodes[a].late) \subseteq 0 .. Len(nodes)
  /\ \A a \in DOMAIN corr : a \in DOMAIN nodes /\ corr[a] \in DOMAIN nodes
  /\ \A k \in DOMAIN frames : frames[k].at \in DOMAIN nodes

\* An element of a list is pointed to once at most, and was not copied before.
ListsUnshared ==
  \A m, n \in DOMAIN tree : \A i \in DOMAIN tree[m].child, j \in DOMAIN tree[n].child :
    LET a == tree[m].child[i]
    IN  a # 0 /\ tree[a].kind \in Lists =>
          tree[a].own = 0 /\ (tree[n].child[j] = a => m = n /\ i = j)

\* x is where the field j of a copy of n should lead that the walk r has made,
\* when m is the correspondence: to what corresponds to what the field of n leads
\* to, but the tag of a destructor, if that is a formal, to a node of its own.
LeadsTo(m, r, n, j, x) ==
  LET v == n.child[j]
      b == Led(m, v)
  IN  /\ v = 0 \/ v \in DOMAIN m \/ tree[v].kind = "own"
      /\ IF n.kind = "dtor" /\ j = 2 /\ b # 0 /\ nodes[b].formal
         THEN /\ x \in DOMAIN nodes \ (DOMAIN tree \cup Range(m)) /\ nodes[x].copied = r
              /\ b \in DOMAIN tree => nodes[x].child = tree[b].child /\ nodes[x].late = tree[b].late
         ELSE x = b

\* When a walk has ended, and from then on, its copies refer to each other as
\* the originals do: every pointer of a copy that the walk made, whether it was
\* walked or patched, leads to what corresponded at the end of the walk to what
\* the pointer of the original leads to, which was met, in cycles and through
\* nodes that are shared, whatever the order, what other walks copied and what
\* the callers entered between them, which is never lost.  (Of trees whose lists
\* are not shared.)
CopyIsFaithful ==
  ListsUnshared =>
    \A r \in DOMAIN maps :
      /\ \A a \in GivenBefore(r) : a \in DOMAIN maps[r] /\ maps[r][a] = tree[a].own
      /\ \A a \in DOMAIN maps[r] \ GivenBefore(r) : nodes[maps[r][a]].copied = r =>
           LET n == tree[a]
               c == nodes[maps[r][a]]
           IN  /\ Len(c.child) = Len(n.child)
               /\ \A j \in DOMAIN n.child : LeadsTo(maps[r], r, n, j, c.child[j])
               /\ c.late = [j \in DOMAIN n.late |-> Led(maps[r], n.late[j])]

\* The template can be instantiated again: what was not made for the instance
\* is as it was, also between the steps, and of trees with shared lists.
TemplateIntact == \A a \in DOMAIN tree : ~ tree[a].made => nodes[a] = tree[a]
=============================================================================
