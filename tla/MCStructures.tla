---------------------------- MODULE MCStructures ----------------------------
(***************************************************************************)
(* Instances for TLC of the sequential structures of the libraries and of  *)
(* the compiler, and of the stacks of tasks, in one run: part says which   *)
(* of them the program uses, and the others stay as they are.              *)
(***************************************************************************)
EXTENDS MCOQueue, FileBuf, ArrMap, HashTable, TreeCopy, TaskTeam, SharedString, IterList

VARIABLE part

-----------------------------------------------------------------------------
(* A filebuf: its buffer has three characters, one of them for what is put *)
(* back.                                                                   *)
TwoChars    == {1, 2}
OneText     == {<<1, 2>>}
SomeOffsets == {-1, 0, 1}

(* Arrays: two addresses that share two digits, and a third.               *)
ThreeAddresses == {<<1, 1, 1>>, <<1, 1, 0>>, <<0, 1, 1>>}
NoneOrTwo     == {0, 2}

(* A Hash: keys that fall on one slot of a table of two.                   *)
ThreeKeys == {"a", "b", "c"}
Colliding == [a |-> 0, b |-> 8, c |-> 13]

(* Trees.                                                                  *)
Node(kind, child, late) ==
  [kind |-> kind, child |-> child, late |-> late, own |-> 0, after |-> 0,
   formal |-> FALSE, made |-> kind = "own", copied |-> 0]
Entered(n, own, after) == [n EXCEPT !.own = own, !.after = after]
Made(n)   == [n EXCEPT !.made = TRUE]
Formal(n) == [n EXCEPT !.formal = TRUE]
Refs == {0, 2, 3, 4}
Pairs == Refs \X Refs
CallersPointers == Made(Node("plain", <<2, 3>>, <<>>))

\* Any references between two nodes and an undefined type.
Tangled == {<<CallersPointers, Node("plain", c2, <<l>>), Node("plain", c3, <<2>>),
              Node("type", <<c4>>, <<>>)>> :
              c2 \in Pairs, c3 \in Pairs, c4 \in {0, 2, 3}, l \in {3, 4}}

\* A list of two or two lists, which may share elements, whose elements may lead
\* back to them.
Listed == {<<CallersPointers, Node(k, c2, <<>>), Node(k, c3, <<>>), Node(k4, c4, <<>>)>> :
             k \in Lists, k4 \in {"plain", "kept"},
             c2 \in {0, 4} \X {0, 3}, c3 \in {0, 4} \X {0}, c4 \in Pairs}

\* An argument that is copied first, the model, which is copied to 5, and a
\* formal, whose copy is 6, or the template as it refers to itself.
Modelled == {<<CallersPointers, Node("plain", c2, <<3>>), Entered(Node("model", c3, <<>>), 5, 0),
               Entered(Node("plain", <<c4>>, <<>>), o[1], o[2]),
               Node("own", <<>>, <<>>), Made(Node("plain", <<4>>, <<>>))>> :
               c2 \in {0, 2, 4} \X {0, 2, 4}, c3 \in Refs \X (Refs \cup {5}),
               c4 \in {2, 3}, o \in {<<6, 0>>, <<5, 1>>}}

\* The template 3 refers to the argument 2 and to the template 4, which leads to
\* the argument too, and whose instance is 5 or itself.
Referring == {<<CallersPointers, Node("plain", c2, <<4>>), Node("plain", c3, <<4>>),
                Entered(Node("plain", <<2>>, <<>>), o, 1), Node("plain", <<2>>, <<>>)>> :
                c2 \in {0, 2, 4} \X {0, 4}, c3 \in Pairs, o \in {4, 5}}

\* The name 2 of a destructor, with the tag 4, which is a formal or not, and given
\* a copy 5 or not.
Destructors == {<<CallersPointers, Node("dtor", c2, <<l>>), Node("plain", c3, <<2>>), tag,
                  Made(Formal(Node("plain", <<3>>, <<>>)))>> :
                  c2 \in {0, 3} \X {0, 3, 4} \X {0, 2, 3}, c3 \in {0, 2, 4} \X {4},
                  l \in {3, 4},
                  tag \in {Node("plain", <<3>>, <<2>>), Formal(Node("plain", <<3>>, <<2>>)),
                           Entered(Formal(Node("plain", <<3>>, <<2>>)), 5, 0)}}

\* A template that is copied again: the walks take the copies of before, among
\* them those of a list, and the model 3 is copied anew.
Recopied == {<<CallersPointers, Entered(Node("plain", <<4, 3>>, <<4>>), 5, 0),
               Entered(Node("model", c3, <<>>), 6, 0), Entered(Node(k, <<2, 0>>, <<>>), 7, 0),
               Made(Node("plain", <<7, 6>>, <<7>>)), Node("own", <<7, 0>>, <<>>),
               Made(Node(k, c7, <<>>)), Made(Node(k, <<5, 0>>, <<>>))>> :
               c3 \in {0, 2, 4} \X {0, 2, 4}, k \in {"plain", "list", "names"},
               c7 \in {0, 5, 6} \X {0, 8}}

SomeTrees == Tangled \cup Listed \cup Modelled \cup Referring \cup Destructors \cup Recopied

(* Strings: there is room for one letter, or for two or more.              *)
TwoLetters == {1, 2}
SomeLiterals == {<<>>, <<1>>, <<2, 1>>}
Doubled    == [n \in 0..2 |-> 4]

-----------------------------------------------------------------------------
allVars == <<part, queueVars, bufVars, arrVars, hashVars, copyVars, teamVars,
             stringVars, listVars>>

StructuresInit ==
  /\ part \in {"queues", "files", "arrays", "hashes", "trees", "teams", "strings", "lists"}
  /\ Init
  /\ part # "queues" => q_max = [q \in Queues |-> 1]
  /\ BufInit
  /\ part # "files" => fb = Unopened /\ os.append = FALSE
  /\ ArrInit
  /\ HashInit
  /\ TeamInit
  /\ StringInit
  /\ ListInit
  /\ IF part = "trees" THEN CopyInit
     ELSE /\ nodes = <<>> /\ tree = <<>> /\ corr = <<>> /\ frames = <<>>
          /\ patches = <<>> /\ round = 1 /\ maps = <<>>

StructuresNext ==
  \/ /\ part = "queues" /\ Next
     /\ UNCHANGED <<part, bufVars, arrVars, hashVars, copyVars,
                    teamVars, stringVars, listVars>>
  \/ /\ part = "files" /\ BufNext
     /\ UNCHANGED <<part, queueVars, arrVars, hashVars, copyVars,
                    teamVars, stringVars, listVars>>
  \/ /\ part = "arrays" /\ ArrNext
     /\ UNCHANGED <<part, queueVars, bufVars, hashVars, copyVars,
                    teamVars, stringVars, listVars>>
  \/ /\ part = "hashes" /\ HashNext
     /\ UNCHANGED <<part, queueVars, bufVars, arrVars, copyVars,
                    teamVars, stringVars, listVars>>
  \/ /\ part = "trees" /\ CopyNext
     /\ UNCHANGED <<part, queueVars, bufVars, arrVars, hashVars,
                    teamVars, stringVars, listVars>>
  \/ /\ part = "teams" /\ TeamNext
     /\ UNCHANGED <<part, queueVars, bufVars, arrVars, hashVars,
                    copyVars, stringVars, listVars>>
  \/ /\ part = "strings" /\ StringNext
     /\ UNCHANGED <<part, queueVars, bufVars, arrVars, hashVars,
                    copyVars, teamVars, listVars>>
  \/ /\ part = "lists" /\ ListNext
     /\ UNCHANGED <<part, queueVars, bufVars, arrVars, hashVars,
                    copyVars, teamVars, stringVars>>

StructuresSpec == StructuresInit /\ [][StructuresNext]_allVars

-----------------------------------------------------------------------------
\* The state of each structure has its type.
PartsTypeOK ==
  TypeOK /\ BufTypeOK /\ ArrTypeOK /\ HashTypeOK /\ CopyTypeOK /\ TeamTypeOK
  /\ StringTypeOK /\ ListTypeOK
=============================================================================
