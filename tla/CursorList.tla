----------------------------- MODULE CursorList -----------------------------
(***************************************************************************)
(* What a program may rely on of a list with iterators: the list is a      *)
(* sequence, each iterator stands between two of its items, and stays      *)
(* between them whatever is put in or taken out elsewhere.                 *)
(***************************************************************************)
EXTENDS Naturals, Sequences

CONSTANTS Links, Iters

VARIABLES
  items,  \* the sequence
  place   \* of each iterator that is attached: the number of items before it

Len0 == Len(items)

Cursors == DOMAIN place

InsertedAt(k, x) == SubSeq(items, 1, k) \o <<x>> \o SubSeq(items, k + 1, Len0)
RemovedAt(k)     == SubSeq(items, 1, k - 1) \o SubSeq(items, k + 1, Len0)

-----------------------------------------------------------------------------
\* x comes in behind k items; of the iterators that stand there those in
\* follow go behind it, the others stay before it.
Inserts(k, x, follow) ==
  /\ items' = InsertedAt(k, x)
  /\ place' = [i \in Cursors |->
                 IF place[i] > k \/ (place[i] = k /\ i \in follow)
                 THEN place[i] + 1 ELSE place[i]]

\* The k-th item goes.
Removes(k) ==
  /\ k \in 1..Len0
  /\ items' = RemovedAt(k)
  /\ place' = [i \in Cursors |-> IF place[i] >= k THEN place[i] - 1 ELSE place[i]]

AtFront(x) == Inserts(0, x, Cursors)
AtBack(x)  == Inserts(Len0, x, {})

BeforeCursor(i, x) == i \in Cursors /\ Inserts(place[i], x, {i})
AfterCursor(i, x)  == i \in Cursors /\ Inserts(place[i], x, Cursors \ {i})

\* An iterator is made, assigned or moved.
Placed(i, k) ==
  /\ k \in 0..Len0
  /\ place' = [j \in Cursors \cup {i} |-> IF j = i THEN k ELSE place[j]]
  /\ UNCHANGED items

Dropped(i) ==
  /\ place' = [j \in Cursors \ {i} |-> place[j]]
  /\ UNCHANGED items

\* The list gets other contents, its iterators go to the front or are detached.
Replaced ==
  /\ items' \in Seq(Links)
  /\ place' \in {[i \in Cursors |-> 0], <<>>}

CursorNext ==
  \/ \E x \in Links : AtFront(x) \/ AtBack(x)
  \/ \E i \in Iters, x \in Links : BeforeCursor(i, x) \/ AfterCursor(i, x)
  \/ \E k \in 1..Len0 : Removes(k)
  \/ \E i \in Iters, k \in 0..Len0 : Placed(i, k)
  \/ \E i \in Iters : Dropped(i)
  \/ Replaced

CursorSpec ==
  /\ items = <<>> /\ place = <<>>
  /\ [][CursorNext]_<<items, place>>
=============================================================================
