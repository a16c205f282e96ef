------------------------------ MODULE IterList ------------------------------
(***************************************************************************)
(* List of libSC (List.c) with its iterators.  The links form a ring in    *)
(* both directions, t is the tail.  An iterator keeps the number of links  *)
(* before it and the link before it, for which the tail serves at the      *)
(* front: so every operation of the list, or of one iterator, has to put   *)
(* right what the other iterators keep.  A link stands for its value; the  *)
(* cache of an iterator is never read.                                     *)
(***************************************************************************)
EXTENDS Naturals, Sequences, FiniteSets, Functions

CONSTANTS
  Links, Iters,
  NoLink,     \* a null pointer
  RashLists   \* what the program does that a careful one does not

ASSUME LinksAssumption == NoLink \notin Links /\ IsFiniteSet(Links)

VARIABLES
  nxt, prv,   \* of every link; of a deleted one NoLink
  t, sz,
  index, pred \* of every iterator that is on the chain iter_head

listVars == <<nxt, prv, t, sz, index, pred>>

Attached == DOMAIN index

ListTypeOK ==
  /\ nxt \in [Links -> Links \cup {NoLink}]
  /\ prv \in [Links -> Links \cup {NoLink}]
  /\ t \in Links \cup {NoLink}
  /\ sz \in 0..Cardinality(Links)
  /\ Attached \subseteq Iters /\ DOMAIN pred = Attached
  /\ \A i \in Attached : index[i] \in 0..sz /\ pred[i] \in Links \cup {NoLink}

NewLinks == {x \in Links : nxt[x] = NoLink}

ListInit ==
  /\ nxt = [x \in Links |-> NoLink] /\ prv = nxt
  /\ t = NoLink /\ sz = 0
  /\ index = <<>> /\ pred = <<>>

-----------------------------------------------------------------------------
(* The ring.                                                               *)

AtEnd(i) == index[i] = sz

\* x is linked in behind p, or alone when p is null.
LinkBehind(p, x) ==
  IF p = NoLink
  THEN nxt' = [nxt EXCEPT ![x] = x] /\ prv' = [prv EXCEPT ![x] = x]
  ELSE /\ nxt' = [nxt EXCEPT ![x] = nxt[p], ![p] = x]
       /\ prv' = [prv EXCEPT ![x] = p, ![nxt[p]] = x]

\* x is linked out and deleted.
LinkOut(x) ==
  /\ nxt' = [[nxt EXCEPT ![prv[x]] = nxt[x]] EXCEPT ![x] = NoLink]
  /\ prv' = [[prv EXCEPT ![nxt[x]] = prv[x]] EXCEPT ![x] = NoLink]
  /\ sz' = sz - 1

\* Every iterator of the chain: what becomes of its fields.
Update(newIndex(_), newPred(_)) ==
  /\ index' = [i \in Attached |-> newIndex(i)]
  /\ pred' = [i \in Attached |-> newPred(i)]

-----------------------------------------------------------------------------
(* The operations of the list.                                             *)

Unget(x) ==
  /\ LinkBehind(t, x)
  /\ t' = IF t = NoLink THEN x ELSE t
  /\ sz' = sz + 1
  /\ Update(LAMBDA i : IF sz = 0 THEN 1 ELSE index[i] + 1,
            LAMBDA i : IF sz = 0 \/ index[i] = 0 THEN x ELSE pred[i])

PutBehind(x) ==
  /\ LinkBehind(t, x)
  /\ t' = x /\ sz' = sz + 1
  /\ Update(LAMBDA i : index[i],
            LAMBDA i : IF index[i] = 0 THEN x ELSE pred[i])

\* The tail after x is gone.
TailWithout(x) == IF nxt[x] = x THEN NoLink ELSE IF t = x THEN prv[x] ELSE t

GetHead ==
  /\ t # NoLink
  /\ LinkOut(nxt[t])
  /\ t' = TailWithout(nxt[t])
  /\ Update(LAMBDA i : IF index[i] > 0 THEN index[i] - 1 ELSE 0,
            LAMBDA i : IF index[i] <= 1 THEN t' ELSE pred[i])

Unput ==
  /\ t # NoLink
  /\ LinkOut(t)
  /\ t' = TailWithout(t)
  /\ Update(LAMBDA i : IF index[i] > sz' THEN index[i] - 1 ELSE index[i],
            LAMBDA i : IF pred[i] = t THEN t' ELSE pred[i])

\* The ring of the links of a sequence, made by init_all() from the back.
RingOf(s) ==
  LET n == Len(s)
      Where(x) == CHOOSE k \in 1..n : s[k] = x
      In(x) == \E k \in 1..n : s[k] = x IN
  /\ nxt' = [x \in Links |-> IF In(x) THEN s[(Where(x) % n) + 1] ELSE NoLink]
  /\ prv' = [x \in Links |-> IF In(x) THEN s[((Where(x) + n - 2) % n) + 1] ELSE NoLink]
  /\ t' = IF n = 0 THEN NoLink ELSE s[n]
  /\ sz' = n

\* operator=: the links of another list are copied.
AssignList(s) ==
  /\ RingOf(s)
  /\ Update(LAMBDA i : 0, LAMBDA i : t')

\* ~Lizt_ATTLC() detaches the iterators; a new list takes its place.
DeleteList == RingOf(<<>>) /\ index' = <<>> /\ pred' = <<>>

\* make_empty() forgets the chain of iterators; they keep what they had.
MakeEmpty ==
  /\ Attached = {} \/ "empties under iterators" \in RashLists
  /\ RingOf(<<>>)
  /\ UNCHANGED <<index, pred>>

-----------------------------------------------------------------------------
(* The operations of an iterator.                                          *)

\* The k-th link, k > 0, found from the nearer end.
Forward[k \in 0..sz] == IF k = 0 THEN t ELSE nxt[Forward[k - 1]]
Backward[k \in 0..sz] == IF k = 0 THEN t ELSE prv[Backward[k - 1]]
GetAt(k) == IF k >= sz - k THEN Backward[sz - k - 1] ELSE Forward[k + 1]

Stands(i, k, p) ==
  /\ index' = [j \in Attached \cup {i} |-> IF j = i THEN k ELSE index[j]]
  /\ pred' = [j \in Attached \cup {i} |-> IF j = i THEN p ELSE pred[j]]
  /\ UNCHANGED <<nxt, prv, t, sz>>

\* A constructor, or operator= of an iterator of another list.
NewIter(i) == Stands(i, 0, t)
CopyIter(i, j) == i # j /\ j \in Attached /\ Stands(i, index[j], pred[j])

\* reset(), also on behalf of end_reset().
Reset(i, k) ==
  /\ i \in Attached /\ k \in 0..sz
  /\ Stands(i, k, IF k \in {0, sz} THEN t ELSE GetAt(k - 1))

StepNext(i) == i \in Attached /\ ~ AtEnd(i) /\ Stands(i, index[i] + 1, nxt[pred[i]])
StepPrev(i) == i \in Attached /\ index[i] # 0 /\ Stands(i, index[i] - 1, prv[pred[i]])

Detach(i) ==
  /\ i \in Attached
  /\ index' = [j \in Attached \ {i} |-> index[j]]
  /\ pred' = [j \in Attached \ {i} |-> pred[j]]
  /\ UNCHANGED <<nxt, prv, t, sz>>

\* insert_prev() does not look for iterators at the front when the tail changes.
NobodyMisled(i) ==
  \/ ~ AtEnd(i) \/ sz = 0
  \/ \A j \in Attached \ {i} : index[j] # 0
  \/ "inserts at the end" \in RashLists

InsertPrev(i, x) ==
  /\ i \in Attached /\ NobodyMisled(i)
  /\ LinkBehind(pred[i], x)
  /\ t' = IF AtEnd(i) THEN x ELSE t
  /\ sz' = sz + 1
  /\ Update(LAMBDA j : IF j = i \/ (pred[i] # NoLink /\ index[i] < index[j])
                       THEN index[j] + 1 ELSE index[j],
            LAMBDA j : IF j = i \/ pred[i] = NoLink THEN x ELSE pred[j])

\* Bug: an iterator at the front, which keeps the tail, is forgotten.
SameIndex(i, j) == index[j] = index[i]

\* Of another iterator: does insert_next() at i come in right before its link?
Overtakes(i, j) == index[j] = index[i] \/ (pred[j] = pred[i] /\ index[j] = 0)

InsertNext(i, x) ==
  /\ i \in Attached
  /\ LinkBehind(pred[i], x)
  /\ t' = IF AtEnd(i) THEN x ELSE t
  /\ sz' = sz + 1
  /\ Update(LAMBDA j : IF j # i /\ index[j] >= index[i] THEN index[j] + 1 ELSE index[j],
            LAMBDA j : IF (j # i /\ Overtakes(i, j)) \/ (j = i /\ pred[i] = NoLink)
                       THEN x ELSE pred[j])

\* The iterators when x goes; those in back had it before them.
Removing(x, back(_)) ==
  /\ LinkOut(x)
  /\ t' = TailWithout(x)
  /\ Update(LAMBDA j : IF sz = 1 THEN 0 ELSE IF back(j) THEN index[j] - 1 ELSE index[j],
            LAMBDA j : IF sz = 1 THEN NoLink ELSE IF pred[j] = x THEN prv[x] ELSE pred[j])

RemovePrev(i) ==
  /\ i \in Attached /\ index[i] # 0
  /\ Removing(pred[i], LAMBDA j : index[j] >= index[i])

RemoveNext(i) ==
  /\ i \in Attached /\ ~ AtEnd(i)
  /\ Removing(nxt[pred[i]], LAMBDA j : index[j] > index[i])

-----------------------------------------------------------------------------
ListCalls ==
  \/ \E x \in NewLinks : Unget(x) \/ PutBehind(x)
  \/ GetHead \/ Unput
  \/ DeleteList \/ MakeEmpty
  \/ \E n \in 0..Cardinality(Links) : \E s \in Injection(1..n, Links) : AssignList(s)

IterCalls ==
  \E i \in Iters :
    \/ NewIter(i) \/ Detach(i)
    \/ StepNext(i) \/ StepPrev(i) \/ RemovePrev(i) \/ RemoveNext(i)
    \/ \E j \in Iters : CopyIter(i, j)
    \/ \E k \in 0..sz : Reset(i, k)
    \/ \E x \in NewLinks : InsertPrev(i, x) \/ InsertNext(i, x)

ListNext == ListCalls \/ IterCalls

ListSpec == ListInit /\ [][ListNext]_listVars

-----------------------------------------------------------------------------
\* What the list looks like from its tail, and where its iterators think they
\* are: nowhere, when the link before them is not the one of their index.
Contents == [k \in 1..sz |-> Forward[k]]
Places ==
  [i \in Attached |->
     IF index[i] <= sz /\ pred[i] = Forward[index[i]] THEN index[i] ELSE sz + 1]

Cursors == INSTANCE CursorList WITH items <- Contents, place <- Places

\* The list is a sequence, and what is put in or taken out through the list or
\* through one iterator leaves all others between the same two items
\* (Lizt_ATTLC and Liztiter_ATTLC in List.c).
IteratorsKeepTheirPlace == Cursors!CursorSpec
=============================================================================
