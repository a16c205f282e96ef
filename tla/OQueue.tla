------------------------------- MODULE OQueue -------------------------------
(***************************************************************************)
(* The queues of the task library as data structures: class oqueue         *)
(* (task.h), qhead (qhead.c) and qtail (qtail.c).                          *)
(*                                                                         *)
(* An oqueue is a circular list: q_ptr points to its last object, whose    *)
(* o_next is the first one.  It is reached through a qhead and a qtail,    *)
(* either of which may be missing, and cut() and splice() reattach them.   *)
(*                                                                         *)
(* What blocks is in module QueueTasks, which composes this module with    *)
(* the scheduler and has the modes of the ends.  A task_error() ends the   *)
(* program, as does a null pointer: they are no steps here.                *)
(***************************************************************************)
EXTENDS Integers, Sequences, FiniteSets

CONSTANTS
  Queues,   \* identities of oqueue objects
  Heads,    \* identities of qhead objects
  Tails,    \* identities of qtail objects
  Items,    \* identities of the objects that are queued
  None,     \* the null pointer
  Maxes,    \* the arguments of the constructors and of setmax()
  MaxCount, \* bound on q_count
  Api       \* names of the calls the modelled program makes

ASSUME IdentitiesAssumption ==
  /\ None \notin Queues \cup Heads \cup Tails \cup Items
  /\ Queues \cap (Heads \cup Tails) = {}
  /\ Heads \cap Tails = {}
  /\ IsFiniteSet(Items)

ASSUME BoundsAssumption ==
  /\ Maxes \subseteq Nat \ {0}
  /\ MaxCount \in Nat

VARIABLES
  q_max, q_count,  \* of every oqueue: its bound and how many it holds
  q_ptr,           \* of every oqueue: its last object
  q_head, q_tail,  \* of every oqueue: its ends, or null
  qh_queue,        \* of every qhead: its oqueue
  qt_queue,        \* of every qtail: its oqueue
  o_next,          \* of every object: its successor in a queue, or null
  heap             \* the oqueues, qheads and qtails that exist

queueVars == <<q_max, q_count, q_ptr, q_head, q_tail, qh_queue, qt_queue,
               o_next, heap>>

Calling(name) == name \in Api

IsHead(h)  == h \in Heads /\ h \in heap
IsTail(t)  == t \in Tails /\ t \in heap
IsQueue(q) == q \in Queues /\ q \in heap
Fresh(S)   == S \ heap

----------------------------------------------------------------------------
(* Construction.  The bound is positive: a constructor that is given       *)
(* another one leaves its pointer to the oqueue unset.                     *)

\* oqueue::oqueue(m), called with one end or the other.
NewQueue(q, m, h, t) ==
  /\ q_max' = [q_max EXCEPT ![q] = m]
  /\ q_count' = [q_count EXCEPT ![q] = 0]
  /\ q_head' = [q_head EXCEPT ![q] = h]
  /\ q_tail' = [q_tail EXCEPT ![q] = t]

NewHead(h, q, m) ==
  /\ Calling("qhead")
  /\ h \in Fresh(Heads) /\ q \in Fresh(Queues)
  /\ NewQueue(q, m, h, None)
  /\ qh_queue' = [qh_queue EXCEPT ![h] = q]
  /\ heap' = heap \cup {h, q}
  /\ UNCHANGED <<q_ptr, qt_queue, o_next>>

NewTail(t, q, m) ==
  /\ Calling("qtail")
  /\ t \in Fresh(Tails) /\ q \in Fresh(Queues)
  /\ NewQueue(q, m, None, t)
  /\ qt_queue' = [qt_queue EXCEPT ![t] = q]
  /\ heap' = heap \cup {t, q}
  /\ UNCHANGED <<q_ptr, qh_queue, o_next>>

\* qhead::tail() and qtail::head() make the other end when it is missing.
MakeTail(h, t) ==
  /\ Calling("tail")
  /\ IsHead(h) /\ t \in Fresh(Tails)
  /\ LET q == qh_queue[h] IN
       /\ q_tail[q] = None
       /\ q_tail' = [q_tail EXCEPT ![q] = t]
       /\ qt_queue' = [qt_queue EXCEPT ![t] = q]
  /\ heap' = heap \cup {t}
  /\ UNCHANGED <<q_max, q_count, q_ptr, q_head, qh_queue, o_next>>

MakeHead(t, h) ==
  /\ Calling("head")
  /\ IsTail(t) /\ h \in Fresh(Heads)
  /\ LET q == qt_queue[t] IN
       /\ q_head[q] = None
       /\ q_head' = [q_head EXCEPT ![q] = h]
       /\ qh_queue' = [qh_queue EXCEPT ![h] = q]
  /\ heap' = heap \cup {h}
  /\ UNCHANGED <<q_max, q_count, q_ptr, q_tail, qt_queue, o_next>>

(* Destruction.  A queue goes with its last end, and must be empty then    *)
(* (E_QDEL).                                                               *)
DeleteHead(h) ==
  /\ Calling("~qhead")
  /\ IsHead(h)
  /\ LET q == qh_queue[h] IN
       \/ /\ q_tail[q] # None
          /\ q_head' = [q_head EXCEPT ![q] = None]
          /\ heap' = heap \ {h}
       \/ /\ q_tail[q] = None
          /\ q_count[q] = 0
          /\ heap' = heap \ {h, q}
          /\ UNCHANGED q_head
  /\ UNCHANGED <<q_max, q_count, q_ptr, q_tail, qh_queue, qt_queue, o_next>>

DeleteTail(t) ==
  /\ Calling("~qtail")
  /\ IsTail(t)
  /\ LET q == qt_queue[t] IN
       \/ /\ q_head[q] # None
          /\ q_tail' = [q_tail EXCEPT ![q] = None]
          /\ heap' = heap \ {t}
       \/ /\ q_head[q] = None
          /\ q_count[q] = 0
          /\ heap' = heap \ {t, q}
          /\ UNCHANGED q_tail
  /\ UNCHANGED <<q_max, q_count, q_ptr, q_head, qh_queue, qt_queue, o_next>>

----------------------------------------------------------------------------
(* Transfer of objects.  q is the oqueue that the code has loaded.         *)

First(q) == IF q_ptr[q] = None THEN None ELSE o_next[q_ptr[q]]

NotEmpty(q) == q_count[q] # 0

\* qhead::get() on a queue that is not empty.  When the only object leaves, the
\* assignment to its own o_next is the last one.
Take(q) ==
  LET p == First(q) IN
  /\ NotEmpty(q) /\ p # None
  /\ o_next' = [[o_next EXCEPT ![q_ptr[q]] = o_next[p]] EXCEPT ![p] = None]
  /\ q_count' = [q_count EXCEPT ![q] = @ - 1]
  /\ UNCHANGED <<q_max, q_ptr, q_head, q_tail, qh_queue, qt_queue, heap>>

HasRoom(q) == q_count[q] < q_max[q]

(* int pending() of the two ends.                                          *)
HeadPending(h) == q_count[qh_queue[h]] = 0
TailPending(t) == q_max[qt_queue[t]] - q_count[qt_queue[t]] = 0

Linked(q, p) ==
  IF q_count[q] = 0 THEN [o_next EXCEPT ![p] = p]
  ELSE [o_next EXCEPT ![p] = First(q), ![q_ptr[q]] = p]

\* Bug: q_ptr stays where it is when the queue was not empty.
StayLast(q, p) == IF q_count[q] = 0 THEN p ELSE q_ptr[q]

\* put() makes the object the last one, putback() only if it is alone.
NewLast(q, p) == p

\* qtail::put() on a queue that is not full.
Add(q, p) ==
  /\ o_next[p] = None
  /\ HasRoom(q)
  /\ o_next' = Linked(q, p)
  /\ q_ptr' = [q_ptr EXCEPT ![q] = NewLast(q, p)]
  /\ q_count' = [q_count EXCEPT ![q] = @ + 1]
  /\ UNCHANGED <<q_max, q_head, q_tail, qh_queue, qt_queue, heap>>

\* qhead::putback() on a queue that is not full.
AddFirst(q, p) ==
  /\ o_next[p] = None
  /\ HasRoom(q)
  /\ o_next' = Linked(q, p)
  /\ q_ptr' = IF q_count[q] = 0 THEN [q_ptr EXCEPT ![q] = p] ELSE q_ptr
  /\ q_count' = [q_count EXCEPT ![q] = @ + 1]
  /\ UNCHANGED <<q_max, q_head, q_tail, qh_queue, qt_queue, heap>>

\* putback() on a full queue: q_count++ is part of the test that fails.  The
\* call returns 0 in ZMODE and is an error in the other modes.
CountOnly(q) ==
  /\ ~HasRoom(q)
  /\ q_count[q] < MaxCount
  /\ q_count' = [q_count EXCEPT ![q] = @ + 1]
  /\ UNCHANGED <<q_max, q_ptr, q_head, q_tail, qh_queue, qt_queue, o_next,
                 heap>>

Get(h) == Calling("get") /\ IsHead(h) /\ Take(qh_queue[h])

Put(t, p) == Calling("put") /\ IsTail(t) /\ Add(qt_queue[t], p)

PutBack(h, p) == Calling("putback") /\ IsHead(h) /\ AddFirst(qh_queue[h], p)

PutBackRefused(h, p) ==
  /\ Calling("putback")
  /\ IsHead(h) /\ o_next[p] = None
  /\ CountOnly(qh_queue[h])

----------------------------------------------------------------------------
(* Surgery.                                                                *)

\* Bug: cut() leaves the old queue attached to the old qhead.
OldHeadStays(q, h, n, r) == [q_head EXCEPT ![r] = h]

HeadsExchanged(q, h, n, r) == [q_head EXCEPT ![q] = n, ![r] = h]

\* qhead::cut(): the new qhead n takes the queue of h, and h gets the new
\* queue r.
CutHead(h, n, r) ==
  /\ Calling("qhead::cut")
  /\ IsHead(h) /\ n \in Fresh(Heads) /\ r \in Fresh(Queues)
  /\ LET q == qh_queue[h] IN
       /\ q_max' = [q_max EXCEPT ![r] = q_max[q]]
       /\ q_count' = [q_count EXCEPT ![r] = 0]
       /\ q_head' = HeadsExchanged(q, h, n, r)
       /\ q_tail' = [q_tail EXCEPT ![r] = None]
       /\ qh_queue' = [qh_queue EXCEPT ![n] = q, ![h] = r]
  /\ heap' = heap \cup {n, r}
  /\ UNCHANGED <<q_ptr, qt_queue, o_next>>

\* qtail::cut(): the new qtail n takes the queue of t, and t gets the new
\* queue r.
CutTail(t, n, r) ==
  /\ Calling("qtail::cut")
  /\ IsTail(t) /\ n \in Fresh(Tails) /\ r \in Fresh(Queues)
  /\ LET q == qt_queue[t] IN
       /\ q_max' = [q_max EXCEPT ![r] = q_max[q]]
       /\ q_count' = [q_count EXCEPT ![r] = 0]
       /\ q_tail' = [q_tail EXCEPT ![q] = n, ![r] = t]
       /\ q_head' = [q_head EXCEPT ![r] = None]
       /\ qt_queue' = [qt_queue EXCEPT ![n] = q, ![t] = r]
  /\ heap' = heap \cup {n, r}
  /\ UNCHANGED <<q_ptr, qh_queue, o_next>>

\* Bug: the first objects of the two rings are not exchanged.
UnspunRings(qh, qt) == o_next

\* The two rings made into one: the last of qt goes to the first of qh, the
\* last of qh to the first of qt.
SplicedRings(qh, qt) ==
  IF q_count[qh] = 0 \/ q_count[qt] = 0 THEN o_next
  ELSE [o_next EXCEPT ![q_ptr[qt]] = First(qh), ![q_ptr[qh]] = First(qt)]

\* Bug: only an empty queue gets the last object of the other.
LastOfEmpty(qh, qt) ==
  IF q_count[qh] = 0 \/ q_count[qt] # 0 THEN q_ptr
  ELSE [q_ptr EXCEPT ![qt] = q_ptr[qh]]

SplicedLast(qh, qt) ==
  IF q_count[qh] = 0 THEN q_ptr ELSE [q_ptr EXCEPT ![qt] = q_ptr[qh]]

\* qhead::splice(t): h and t are the two ends of a filter that has read from
\* the queue of h and written to the queue of t.  What h still holds goes
\* behind what t holds, the upstream qtail is attached to the queue of t, and
\* h, t and the queue of h are deleted.  "This qhead is supposed to be
\* upstream to the qtail t": both queues have both ends, as the code needs.
Splice(h, t) ==
  /\ Calling("splice")
  /\ IsHead(h) /\ IsTail(t)
  /\ LET qh == qh_queue[h]  qt == qt_queue[t]  up == q_tail[qh] IN
       /\ qh # qt /\ up # None /\ q_head[qt] # None
       /\ o_next' = SplicedRings(qh, qt)
       /\ q_ptr' = SplicedLast(qh, qt)
       /\ q_count' = [q_count EXCEPT ![qt] = @ + q_count[qh], ![qh] = 0]
       /\ qt_queue' = [qt_queue EXCEPT ![up] = qt]
       /\ q_tail' = [q_tail EXCEPT ![qt] = up, ![qh] = None]
       /\ heap' = heap \ {h, t, qh}
  /\ UNCHANGED <<q_max, q_head, qh_queue>>

\* setmax() of either end.
SetMax(q, m) ==
  /\ Calling("setmax")
  /\ IsQueue(q)
  /\ q_max' = [q_max EXCEPT ![q] = m]
  /\ UNCHANGED <<q_count, q_ptr, q_head, q_tail, qh_queue, qt_queue, o_next,
                 heap>>

----------------------------------------------------------------------------
\* Nothing exists; what the memory of the oqueues holds is of no consequence.
Init ==
  /\ q_max \in [Queues -> Maxes]
  /\ q_count = [q \in Queues |-> 0]
  /\ q_ptr = [q \in Queues |-> None]
  /\ q_head = [q \in Queues |-> None]
  /\ q_tail = [q \in Queues |-> None]
  /\ qh_queue = [h \in Heads |-> None]
  /\ qt_queue = [t \in Tails |-> None]
  /\ o_next = [p \in Items |-> None]
  /\ heap = {}

Build ==
  \/ \E q \in Queues, m \in Maxes :
       \/ \E h \in Heads : NewHead(h, q, m)
       \/ \E t \in Tails : NewTail(t, q, m)
  \/ \E h \in Heads, t \in Tails : MakeTail(h, t) \/ MakeHead(t, h)
  \/ \E h \in Heads : DeleteHead(h)
  \/ \E t \in Tails : DeleteTail(t)

Transfer ==
  \/ \E h \in Heads : Get(h)
  \/ \E t \in Tails, p \in Items : Put(t, p)
  \/ \E h \in Heads, p \in Items : PutBack(h, p)

Surgery ==
  \/ \E h, n \in Heads, r \in Queues : CutHead(h, n, r)
  \/ \E t, n \in Tails, r \in Queues : CutTail(t, n, r)
  \/ \E h \in Heads, t \in Tails : Splice(h, t)

Adjust == \E q \in Queues, m \in Maxes : SetMax(q, m)

Next == Build \/ Transfer \/ Surgery \/ Adjust

Spec == Init /\ [][Next]_queueVars

\* Of programs that call putback() on a full queue, too.
RefusingNext == Next \/ \E h \in Heads, p \in Items : PutBackRefused(h, p)

RefusingSpec == Init /\ [][RefusingNext]_queueVars
----------------------------------------------------------------------------
TypeOK ==
  /\ q_max \in [Queues -> Nat \ {0}]
  /\ q_count \in [Queues -> Nat]
  /\ q_ptr \in [Queues -> Items \cup {None}]
  /\ q_head \in [Queues -> Heads \cup {None}]
  /\ q_tail \in [Queues -> Tails \cup {None}]
  /\ qh_queue \in [Heads -> Queues \cup {None}]
  /\ qt_queue \in [Tails -> Queues \cup {None}]
  /\ o_next \in [Items -> Items \cup {None}]
  /\ heap \subseteq Queues \cup Heads \cup Tails

\* An end and its queue point to each other, nothing points to what has been
\* deleted, and a queue that has lost both ends is deleted ("qhead <--> oqueue
\* <--> qtail" in task.h).
EndsMatch ==
  /\ \A h \in Heads \cap heap : IsQueue(qh_queue[h]) /\ q_head[qh_queue[h]] = h
  /\ \A t \in Tails \cap heap : IsQueue(qt_queue[t]) /\ q_tail[qt_queue[t]] = t
  /\ \A q \in Queues \cap heap :
       /\ q_head[q] # None => IsHead(q_head[q]) /\ qh_queue[q_head[q]] = q
       /\ q_tail[q] # None => IsTail(q_tail[q]) /\ qt_queue[q_tail[q]] = q
       /\ q_head[q] # None \/ q_tail[q] # None

\* Sequences of different objects.
Lines == {c \in UNION {[1..n -> Items] : n \in 0..Cardinality(Items)} :
            \A i, j \in DOMAIN c : c[i] = c[j] => i = j}

\* c is what queue q holds: "q->q_ptr points to last object. last->o_next
\* points to first object. first->o_next points to the next object."
IsRing(q, c) ==
  /\ Len(c) = q_count[q]
  /\ \A i \in 1..(Len(c) - 1) : o_next[c[i]] = c[i + 1]
  /\ Len(c) > 0 => q_ptr[q] = c[Len(c)] /\ o_next[c[Len(c)]] = c[1]

AreRings(content) ==
  /\ \A q \in Queues : IsRing(q, content[q])
  /\ \A q, r \in Queues : \A i \in DOMAIN content[q], j \in DOMAIN content[r] :
       content[q][i] = content[r][j] => q = r
  /\ \A p \in Items :
       o_next[p] # None => \E q \in Queues : \E i \in DOMAIN content[q] : content[q][i] = p

\* The circular lists are what the comments say: each holds q_count objects,
\* no object is on two of them, and an object that is on none has o_next 0.
RingsSound == \E content \in [Queues -> Lines] : AreRings(content)

Ring(q) == CHOOSE c \in Lines : IsRing(q, c)

\* The queues implement first-in first-out lines (module FifoQueue).
Fifo == INSTANCE FifoQueue WITH
  content <- [q \in Queues |-> Ring(q)], limit <- q_max

FirstInFirstOut == Fifo!Spec
============================================================================
