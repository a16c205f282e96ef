---------------------------- MODULE OQueueProofs ----------------------------
(***************************************************************************)
(* Proofs about OQueue: types; the links between ends and queues; of       *)
(* programs whose putback() is never refused also that the circular lists  *)
(* are sound, RingsSound, and that the queues are first-in first-out       *)
(* lines: the refinement of FifoQueue.                                     *)
(*                                                                         *)
(* The invariant is RingsSound with EndsMatch, which says that the queue of*)
(* an end exists, and EmptyWhenFree: a new oqueue object is taken from     *)
(* memory where nothing is queued any more, because a queue that is deleted*)
(* is empty.  Each call is shown to move lines of objects, and a ring holds*)
(* one line only, so the mapping reads the lines that were moved.          *)
(***************************************************************************)
EXTENDS OQueue, SequenceTheorems, FiniteSetTheorems, FunctionTheorems,
        WellFoundedInduction, TLAPS

(* An end that exists leads to a queue that exists.                        *)
LEMMA LiveEnds ==
  ASSUME TypeOK, EndsMatch
  PROVE  /\ \A h \in Heads : IsHead(h) => IsQueue(qh_queue[h]) /\ q_head[qh_queue[h]] = h
         /\ \A t \in Tails : IsTail(t) => IsQueue(qt_queue[t]) /\ q_tail[qt_queue[t]] = t
  BY DEF EndsMatch, IsHead, IsTail

LEMMA InitType == Init => TypeOK /\ EndsMatch
<1> USE IdentitiesAssumption, BoundsAssumption
<1> SUFFICES ASSUME Init PROVE TypeOK /\ EndsMatch
  OBVIOUS
<1>1. q_max \in [Queues -> Nat \ {0}]
  BY DEF Init
<1> QED  BY <1>1 DEF Init, TypeOK, EndsMatch

(* The calls that change the queues, of careful programs and of others.    *)
LEMMA StepType ==
  ASSUME TypeOK, EndsMatch, RefusingNext
  PROVE  TypeOK'
<1> USE IdentitiesAssumption, BoundsAssumption
<1>1. ASSUME NEW q \in Queues, NEW m \in Maxes, NEW h \in Heads, NewHead(h, q, m)
      PROVE  TypeOK'
  BY <1>1 DEF NewHead, NewQueue, TypeOK
<1>2. ASSUME NEW q \in Queues, NEW m \in Maxes, NEW t \in Tails, NewTail(t, q, m)
      PROVE  TypeOK'
  BY <1>2 DEF NewTail, NewQueue, TypeOK
<1>3. ASSUME NEW h \in Heads, NEW t \in Tails, MakeTail(h, t)
      PROVE  TypeOK'
  BY <1>3 DEF MakeTail, TypeOK
<1>4. ASSUME NEW h \in Heads, NEW t \in Tails, MakeHead(t, h)
      PROVE  TypeOK'
  BY <1>4 DEF MakeHead, TypeOK
<1>5. ASSUME NEW h \in Heads, DeleteHead(h)
      PROVE  TypeOK'
  BY <1>5 DEF DeleteHead, TypeOK
<1>6. ASSUME NEW t \in Tails, DeleteTail(t)
      PROVE  TypeOK'
  BY <1>6 DEF DeleteTail, TypeOK
<1>7. ASSUME NEW h \in Heads, Get(h)
      PROVE  TypeOK'
  <2>1. qh_queue[h] \in Queues
    BY <1>7, LiveEnds DEF Get, IsQueue
  <2> QED  BY <1>7, <2>1 DEF Get, Take, First, NotEmpty, TypeOK
<1>8. ASSUME NEW t \in Tails, NEW p \in Items, Put(t, p)
      PROVE  TypeOK'
  <2>1. qt_queue[t] \in Queues
    BY <1>8, LiveEnds DEF Put, IsQueue
  <2>2. Linked(qt_queue[t], p) \in [Items -> Items \cup {None}]
    BY <2>1 DEF Linked, First, TypeOK
  <2> QED  BY <1>8, <2>1, <2>2 DEF Put, Add, NewLast, TypeOK
<1>9. ASSUME NEW h \in Heads, NEW p \in Items, PutBack(h, p)
      PROVE  TypeOK'
  <2>1. qh_queue[h] \in Queues
    BY <1>9, LiveEnds DEF PutBack, IsQueue
  <2>2. Linked(qh_queue[h], p) \in [Items -> Items \cup {None}]
    BY <2>1 DEF Linked, First, TypeOK
  <2> QED  BY <1>9, <2>1, <2>2 DEF PutBack, AddFirst, TypeOK
<1>10. ASSUME NEW h \in Heads, NEW n \in Heads, NEW r \in Queues, CutHead(h, n, r)
       PROVE  TypeOK'
  <2>1. qh_queue[h] \in Queues
    BY <1>10, LiveEnds DEF CutHead, IsQueue
  <2> QED  BY <1>10, <2>1 DEF CutHead, HeadsExchanged, TypeOK
<1>11. ASSUME NEW t \in Tails, NEW n \in Tails, NEW r \in Queues, CutTail(t, n, r)
       PROVE  TypeOK'
  <2>1. qt_queue[t] \in Queues
    BY <1>11, LiveEnds DEF CutTail, IsQueue
  <2> QED  BY <1>11, <2>1 DEF CutTail, TypeOK
<1>12. ASSUME NEW h \in Heads, NEW t \in Tails, Splice(h, t)
       PROVE  TypeOK'
  <2>1. qh_queue[h] \in Queues /\ qt_queue[t] \in Queues
    BY <1>12, LiveEnds DEF Splice, IsQueue
  <2>2. SplicedRings(qh_queue[h], qt_queue[t]) \in [Items -> Items \cup {None}]
    <3>1. /\ First(qh_queue[h]) \in Items \cup {None}
          /\ First(qt_queue[t]) \in Items \cup {None}
      BY <2>1 DEF First, TypeOK
    <3> QED  BY <3>1 DEF SplicedRings, TypeOK
  <2>3. SplicedLast(qh_queue[h], qt_queue[t]) \in [Queues -> Items \cup {None}]
    BY <2>1 DEF SplicedLast, TypeOK
  <2>4. q_tail[qh_queue[h]] \in Tails
    BY <1>12, <2>1 DEF Splice, TypeOK
  <2>5. /\ o_next' \in [Items -> Items \cup {None}]
        /\ q_ptr' \in [Queues -> Items \cup {None}]
    BY <1>12, <2>2, <2>3 DEF Splice
  <2>6. /\ q_count' \in [Queues -> Nat]
        /\ qt_queue' \in [Tails -> Queues \cup {None}]
        /\ q_tail' \in [Queues -> Tails \cup {None}]
    BY <1>12, <2>1, <2>4 DEF Splice, TypeOK
  <2> QED  BY <1>12, <2>5, <2>6 DEF Splice, TypeOK
<1>13. ASSUME NEW q \in Queues, NEW m \in Maxes, SetMax(q, m)
       PROVE  TypeOK'
  BY <1>13 DEF SetMax, TypeOK
<1>14. ASSUME NEW h \in Heads, NEW p \in Items, PutBackRefused(h, p)
       PROVE  TypeOK'
  <2>1. qh_queue[h] \in Queues
    BY <1>14, LiveEnds DEF PutBackRefused, IsQueue
  <2> QED  BY <1>14, <2>1 DEF PutBackRefused, CountOnly, TypeOK
<1> QED
  BY <1>1, <1>2, <1>3, <1>4, <1>5, <1>6, <1>7, <1>8, <1>9, <1>10, <1>11, <1>12,
     <1>13, <1>14
     DEF RefusingNext, Next, Build, Transfer, Surgery, Adjust

(* The links: only construction, destruction and surgery change them.      *)
LEMMA StepEnds ==
  ASSUME TypeOK, EndsMatch, RefusingNext
  PROVE  EndsMatch'
<1> USE IdentitiesAssumption, BoundsAssumption
<1>1. ASSUME NEW q \in Queues, NEW m \in Maxes, NEW h \in Heads, NewHead(h, q, m)
      PROVE  EndsMatch'
  BY <1>1 DEF NewHead, NewQueue, Fresh, TypeOK, EndsMatch, IsHead, IsTail, IsQueue
<1>2. ASSUME NEW q \in Queues, NEW m \in Maxes, NEW t \in Tails, NewTail(t, q, m)
      PROVE  EndsMatch'
  BY <1>2 DEF NewTail, NewQueue, Fresh, TypeOK, EndsMatch, IsHead, IsTail, IsQueue
<1>3. ASSUME NEW h \in Heads, NEW t \in Tails, MakeTail(h, t)
      PROVE  EndsMatch'
  BY <1>3 DEF MakeTail, Fresh, TypeOK, EndsMatch, IsHead, IsTail, IsQueue
<1>4. ASSUME NEW h \in Heads, NEW t \in Tails, MakeHead(t, h)
      PROVE  EndsMatch'
  BY <1>4 DEF MakeHead, Fresh, TypeOK, EndsMatch, IsHead, IsTail, IsQueue
<1>5. ASSUME NEW h \in Heads, DeleteHead(h)
      PROVE  EndsMatch'
  BY <1>5 DEF DeleteHead, TypeOK, EndsMatch, IsHead, IsTail, IsQueue
<1>6. ASSUME NEW t \in Tails, DeleteTail(t)
      PROVE  EndsMatch'
  BY <1>6 DEF DeleteTail, TypeOK, EndsMatch, IsHead, IsTail, IsQueue
<1>7. ASSUME UNCHANGED <<q_head, q_tail, qh_queue, qt_queue, heap>>
      PROVE  EndsMatch'
  BY <1>7 DEF EndsMatch, IsHead, IsTail, IsQueue
<1>8. ASSUME NEW h \in Heads, NEW n \in Heads, NEW r \in Queues, CutHead(h, n, r)
      PROVE  EndsMatch'
  BY <1>8 DEF CutHead, HeadsExchanged, Fresh, TypeOK, EndsMatch, IsHead, IsTail, IsQueue
<1>9. ASSUME NEW t \in Tails, NEW n \in Tails, NEW r \in Queues, CutTail(t, n, r)
      PROVE  EndsMatch'
  BY <1>9 DEF CutTail, Fresh, TypeOK, EndsMatch, IsHead, IsTail, IsQueue
<1>10. ASSUME NEW h \in Heads, NEW t \in Tails, Splice(h, t)
       PROVE  EndsMatch'
  BY <1>10 DEF Splice, TypeOK, EndsMatch, IsHead, IsTail, IsQueue
<1> QED
  BY <1>1, <1>2, <1>3, <1>4, <1>5, <1>6, <1>7, <1>8, <1>9, <1>10
     DEF RefusingNext, Next, Build, Transfer, Surgery, Adjust, Get, Take, Put, Add,
         PutBack, AddFirst, SetMax, PutBackRefused, CountOnly

LEMMA BothInvariant == RefusingSpec => [](TypeOK /\ EndsMatch)
<1>1. TypeOK /\ EndsMatch /\ [RefusingNext]_queueVars => (TypeOK /\ EndsMatch)'
  <2> SUFFICES ASSUME TypeOK, EndsMatch, [RefusingNext]_queueVars
               PROVE  TypeOK' /\ EndsMatch'
    OBVIOUS
  <2>1. CASE RefusingNext
    BY <2>1, StepType, StepEnds
  <2>2. CASE UNCHANGED queueVars
    BY <2>2 DEF queueVars, TypeOK, EndsMatch, IsHead, IsTail, IsQueue
  <2> QED  BY <2>1, <2>2
<1> QED  BY InitType, <1>1, PTL DEF RefusingSpec

\* The fields of the queues keep their types, in every program, also one whose
\* putback() is refused.
THEOREM TypeCorrect == RefusingSpec => []TypeOK
  BY BothInvariant, PTL

\* An end and its queue point to each other through every order of construction,
\* destruction, cut() and splice(): no end is left on a deleted queue, no queue
\* without an end.
THEOREM EndsStayMatched == RefusingSpec => []EndsMatch
  BY BothInvariant, PTL
----------------------------------------------------------------------------
(* The rings. *)

EmptyWhenFree == \A q \in Queues : q \notin heap => q_count[q] = 0

\* The queues hold these lines.
Hold(content) == content \in [Queues -> Lines] /\ AreRings(content)

LEMMA HoldingSound ==
  ASSUME NEW content, Hold(content)
  PROVE  RingsSound
BY DEF Hold, RingsSound

----------------------------------------------------------------------------
(* Lines as functions.                                                     *)

LEMMA LineIntro ==
  ASSUME NEW n \in Nat, NEW c \in [1..n -> Items],
         \A i, j \in 1..n : c[i] = c[j] => i = j
  PROVE  c \in Lines /\ Len(c) = n /\ DOMAIN c = 1..n
<1>1. c \in Injection(1..n, Items)
  BY Fun_IsInj
<1>2. Cardinality(1..n) <= Cardinality(Items)
  BY <1>1, FS_Injection, IdentitiesAssumption
<1>3. Cardinality(1..n) = n
  BY FS_Interval
<1>4. Cardinality(Items) \in Nat
  BY FS_CardinalityType, IdentitiesAssumption
<1>5. n \in 0..Cardinality(Items)
  BY <1>2, <1>3, <1>4
<1>6. c \in Seq(Items)
  BY SeqDef
<1>7. Len(c) \in Nat /\ DOMAIN c = 1..Len(c)
  BY <1>6, LenProperties
<1> QED  BY <1>5, <1>7 DEF Lines

LEMMA LineElim ==
  ASSUME NEW c \in Lines
  PROVE  /\ Len(c) \in Nat /\ DOMAIN c = 1..Len(c) /\ c \in [1..Len(c) -> Items]
         /\ c \in Seq(Items)
         /\ \A i, j \in 1..Len(c) : c[i] = c[j] => i = j
<1>1. PICK n \in 0..Cardinality(Items) : c \in [1..n -> Items]
  BY DEF Lines
<1>2. n \in Nat
  BY <1>1, FS_CardinalityType, IdentitiesAssumption
<1>a. c \in Seq(Items)
  BY <1>1, <1>2, SeqDef
<1>3. Len(c) = n /\ DOMAIN c = 1..n
  BY <1>1, <1>2, <1>a, LenProperties
<1> QED  BY <1>1, <1>2, <1>a, <1>3 DEF Lines

LEMMA EmptyLine ==
  LET nil == [i \in 1..0 |-> None] IN
  nil = <<>> /\ nil \in Lines /\ Len(nil) = 0 /\ DOMAIN nil = {}
<1> DEFINE nil == [i \in 1..0 |-> None]
<1>1. nil \in [1..0 -> Items] /\ \A i, j \in 1..0 : nil[i] = nil[j] => i = j
  OBVIOUS
<1> HIDE DEF nil
<1>2. nil \in Lines /\ Len(nil) = 0 /\ DOMAIN nil = 1..0
  BY <1>1, LineIntro
<1>3. nil = <<>>
  <2>1. nil \in Seq(Items)
    BY <1>2 DEF Lines
  <2> QED  BY <1>2, <2>1, EmptySeq
<1> QED  BY <1>2, <1>3 DEF nil

(* What an item of a ring knows: it has a successor, and it is not the item*)
(* that a put() is called with.                                            *)
LEMMA RingNext ==
  ASSUME NEW q \in Queues, NEW c \in Lines, IsRing(q, c), NEW i \in 1..Len(c)
  PROVE  o_next[c[i]] = IF i = Len(c) THEN c[1] ELSE c[i + 1]
  BY LineElim DEF IsRing

(* A ring whose cells a step leaves alone.                                 *)
LEMMA RingStays ==
  ASSUME NEW q \in Queues, NEW c \in Lines, IsRing(q, c),
         q_count'[q] = q_count[q], q_ptr'[q] = q_ptr[q],
         \A i \in 1..Len(c) : o_next'[c[i]] = o_next[c[i]]
  PROVE  IsRing(q, c)'
<1>1. Len(c) \in Nat /\ DOMAIN c = 1..Len(c)
  BY LineElim
<1> QED  BY <1>1 DEF IsRing

LEMMA RingFirst ==
  ASSUME TypeOK, NEW q \in Queues, NEW c \in Lines, IsRing(q, c), q_count[q] # 0
  PROVE  /\ Len(c) > 0 /\ q_ptr[q] = c[Len(c)] /\ First(q) = c[1]
<1>1. Len(c) \in Nat /\ DOMAIN c = 1..Len(c) /\ c \in [1..Len(c) -> Items]
  BY LineElim
<1>2. Len(c) > 0 /\ q_ptr[q] = c[Len(c)] /\ o_next[c[Len(c)]] = c[1]
  BY <1>1 DEF IsRing
<1>3. c[Len(c)] # None
  BY <1>1, <1>2, IdentitiesAssumption
<1> QED  BY <1>2, <1>3 DEF First

----------------------------------------------------------------------------
(* get(): the first item leaves.                                           *)
LEMMA TakeRings ==
  ASSUME TypeOK, NEW content \in [Queues -> Lines], AreRings(content),
         NEW q \in Queues, Take(q)
  PROVE  content[q] # <<>> /\ Hold([content EXCEPT ![q] = Tail(content[q])])'
<1> DEFINE c == content[q]
           n == Len(c)
           p == First(q)
           d == [i \in 1..(n - 1) |-> c[i + 1]]
           new == [content EXCEPT ![q] = d]
<1>1. c \in Lines /\ IsRing(q, c)
  BY DEF AreRings
<1>2. /\ n \in Nat /\ DOMAIN c = 1..n /\ c \in [1..n -> Items]
      /\ \A i, j \in 1..n : c[i] = c[j] => i = j
  BY <1>1, LineElim
<1>3. n > 0 /\ q_ptr[q] = c[n] /\ p = c[1] /\ n = q_count[q]
  BY <1>1, RingFirst DEF Take, NotEmpty, IsRing
<1>4. d \in Lines /\ Len(d) = n - 1 /\ DOMAIN d = 1..(n - 1)
  <2>1. n - 1 \in Nat /\ d \in [1..(n - 1) -> Items]
    BY <1>2, <1>3
  <2>2. \A i, j \in 1..(n - 1) : d[i] = d[j] => i = j
    BY <1>2, <1>3
  <2> HIDE DEF d
  <2> QED  BY <2>1, <2>2, LineIntro
<1>t. c # <<>> /\ d = Tail(c)
  <2>1. c \in Seq(Items) /\ d \in Seq(Items) /\ c # <<>>
    BY <1>1, <1>3, <1>4, LineElim
  <2>2. /\ Tail(c) \in Seq(Items) /\ Len(Tail(c)) = n - 1
        /\ \A i \in 1..(n - 1) : Tail(c)[i] = c[i + 1]
    BY <2>1, HeadTailProperties
  <2>3. Len(d) = Len(Tail(c)) /\ \A i \in 1..Len(d) : d[i] = Tail(c)[i]
    BY <1>4, <2>2
  <2> HIDE DEF d
  <2> QED  BY <2>1, <2>2, <2>3, SeqEqual
<1>5. \A x \in Items : o_next'[x] = IF x = c[1] THEN None
                                   ELSE IF x = c[n] THEN o_next[c[1]] ELSE o_next[x]
  BY <1>2, <1>3 DEF Take, TypeOK
<1>6. \A i \in 1..n : o_next[c[i]] = IF i = n THEN c[1] ELSE c[i + 1]
  BY <1>1, RingNext
<1>7. IsRing(q, d)'
  <2>1. q_count'[q] = n - 1 /\ q_ptr'[q] = c[n]
    BY <1>3 DEF Take, TypeOK
  <2>2. ASSUME NEW i \in 1..(n - 2)
        PROVE  o_next'[d[i]] = d[i + 1]
    <3>1. i + 1 \in 1..n /\ i + 1 # 1 /\ i + 1 # n /\ n \in 1..n /\ 1 \in 1..n
      BY <1>2, <1>3
    <3>2. c[i + 1] \in Items /\ c[i + 1] # c[1] /\ c[i + 1] # c[n]
      BY <3>1, <1>2
    <3>3. o_next'[c[i + 1]] = c[i + 2]
      <4>1. o_next'[c[i + 1]] = o_next[c[i + 1]]
        BY <3>2, <1>5
      <4>2. (i + 1) + 1 = i + 2
        OBVIOUS
      <4>3. o_next[c[i + 1]] = c[(i + 1) + 1]
        BY <3>1, <1>6, Zenon
      <4> QED  BY <4>1, <4>2, <4>3
    <3>4. i \in 1..n - 1 /\ i + 1 \in 1..n - 1 /\ (i + 1) + 1 = i + 2
      BY <3>1, <1>2, <1>3
    <3>5. d[i] = c[i + 1] /\ d[i + 1] = c[i + 2]
      BY <3>4
    <3> QED  BY <3>3, <3>5
  <2>3. n - 1 > 0 => q_ptr'[q] = d[n - 1] /\ o_next'[d[n - 1]] = d[1]
    BY <2>1, <1>2, <1>3, <1>5, <1>6
  <2> HIDE DEF d
  <2> QED  BY <2>1, <2>2, <2>3, <1>2, <1>4 DEF IsRing
<1>8. ASSUME NEW r \in Queues, r # q
      PROVE  IsRing(r, content[r])'
  <2>1. content[r] \in Lines /\ IsRing(r, content[r])
    BY DEF AreRings
  <2>2. /\ DOMAIN content[r] = 1..Len(content[r])
        /\ content[r] \in [1..Len(content[r]) -> Items]
    BY <2>1, LineElim
  <2>3. \A i \in 1..Len(content[r]) : content[r][i] # c[1] /\ content[r][i] # c[n]
    BY <2>2, <1>2, <1>3, <1>8 DEF AreRings
  <2>4. \A i \in 1..Len(content[r]) : o_next'[content[r][i]] = o_next[content[r][i]]
    BY <2>2, <2>3, <1>5
  <2>5. q_count'[r] = q_count[r] /\ q_ptr'[r] = q_ptr[r]
    BY <1>8 DEF Take, TypeOK
  <2> QED  BY <2>1, <2>4, <2>5, RingStays
<1>9. new \in [Queues -> Lines] /\ new[q] = d /\ \A r \in Queues : r # q => new[r] = content[r]
  BY <1>4
<1>10. \A r \in Queues : IsRing(r, new[r])'
  BY <1>7, <1>8, <1>9
<1>11. \A r \in Queues : \A i \in DOMAIN new[r] : \E j \in DOMAIN content[r] :
          new[r][i] = content[r][j]
  <2> SUFFICES ASSUME NEW r \in Queues, NEW i \in DOMAIN new[r]
               PROVE  \E j \in DOMAIN content[r] : new[r][i] = content[r][j]
    OBVIOUS
  <2>1. CASE r # q
    BY <2>1, <1>9
  <2>2. CASE r = q
    <3>1. i \in 1..(n - 1) /\ new[r][i] = d[i]
      BY <2>2, <1>4, <1>9
    <3>2. i + 1 \in 1..n /\ d[i] = c[i + 1]
      BY <3>1, <1>2
    <3> QED  BY <3>1, <3>2, <2>2, <1>2
  <2> QED  BY <2>1, <2>2
<1>12. \A r, s \in Queues : \A i \in DOMAIN new[r], j \in DOMAIN new[s] :
          new[r][i] = new[s][j] => r = s
  <2> HIDE DEF new
  <2> QED  BY <1>11 DEF AreRings
<1>13. \A x \in Items :
          o_next'[x] # None => \E r \in Queues : \E i \in DOMAIN new[r] : new[r][i] = x
  <2> SUFFICES ASSUME NEW x \in Items, o_next'[x] # None
               PROVE  \E r \in Queues : \E i \in DOMAIN new[r] : new[r][i] = x
    OBVIOUS
  <2>1. x # c[1]
    BY <1>5
  <2>2. \E r \in Queues : \E i \in DOMAIN content[r] : content[r][i] = x
    <3>1. CASE x = c[n]
      BY <3>1, <1>2, <1>3
    <3>2. CASE x # c[n]
      BY <3>2, <2>1, <1>5 DEF AreRings
    <3> QED  BY <3>1, <3>2
  <2>3. PICK r \in Queues : \E i \in DOMAIN content[r] : content[r][i] = x
    BY <2>2
  <2>6. PICK i \in DOMAIN content[r] : content[r][i] = x
    BY <2>3
  <2>4. CASE r = q
    <3>1. i \in 2..n /\ i - 1 \in 1..(n - 1) /\ d[i - 1] = x
      BY <2>1, <2>6, <2>4, <1>2
    <3> QED  BY <3>1, <1>4, <1>9
  <2>5. CASE r # q
    BY <2>6, <2>5, <1>9
  <2> QED  BY <2>4, <2>5
<1>14. new = [content EXCEPT ![q] = Tail(content[q])]
  BY <1>t
<1>15. Hold(new)'
  <2> HIDE DEF new
  <2> QED  BY <1>9, <1>10, <1>12, <1>13 DEF Hold, AreRings
<1> HIDE DEF new
<1> QED  BY <1>t, <1>14, <1>15

----------------------------------------------------------------------------
(* put() and putback(): an item enters behind the last or before the first.*)

\* An item whose o_next is null is on no queue.
LEMMA OffQueue ==
  ASSUME NEW content \in [Queues -> Lines], AreRings(content),
         NEW p \in Items, o_next[p] = None, NEW r \in Queues,
         NEW i \in DOMAIN content[r]
  PROVE  content[r][i] # p
<1>1. content[r] \in Lines /\ IsRing(r, content[r])
  BY DEF AreRings
<1>2. /\ Len(content[r]) \in Nat /\ i \in 1..Len(content[r])
      /\ content[r] \in [1..Len(content[r]) -> Items]
  BY <1>1, LineElim
<1>3. o_next[content[r][i]] = IF i = Len(content[r]) THEN content[r][1]
                              ELSE content[r][i + 1]
  BY <1>1, <1>2, RingNext
<1>4. o_next[content[r][i]] \in Items
  BY <1>2, <1>3
<1> QED  BY <1>4, IdentitiesAssumption

\* The cells after the assignments of put() and putback().
LEMMA LinkedCells ==
  ASSUME TypeOK, NEW content \in [Queues -> Lines], AreRings(content),
         NEW q \in Queues, NEW p \in Items, o_next[p] = None, o_next' = Linked(q, p)
  PROVE  LET c == content[q]  n == Len(c) IN
         /\ q_count[q] = n
         /\ n = 0 => o_next'[p] = p
         /\ n > 0 => o_next'[p] = c[1] /\ q_ptr[q] = c[n] /\ o_next'[c[n]] = p
         /\ \A i \in 1..(n - 1) : o_next'[c[i]] = c[i + 1]
         /\ \A x \in Items : x # p /\ (n > 0 => x # c[n]) => o_next'[x] = o_next[x]
<1> DEFINE c == content[q]
           n == Len(c)
<1>1. c \in Lines /\ IsRing(q, c)
  BY DEF AreRings
<1>2. /\ n \in Nat /\ DOMAIN c = 1..n /\ c \in [1..n -> Items]
      /\ \A i, j \in 1..n : c[i] = c[j] => i = j
  BY <1>1, LineElim
<1>3. q_count[q] = n
  BY <1>1 DEF IsRing
<1>4. \A i \in 1..n : c[i] # p
  BY <1>2, OffQueue
<1>5. \A i \in 1..n : o_next[c[i]] = IF i = n THEN c[1] ELSE c[i + 1]
  BY <1>1, RingNext
<1>6. n > 0 => q_ptr[q] = c[n] /\ First(q) = c[1] /\ c[n] \in Items
  BY <1>1, <1>2, <1>3, RingFirst
<1>7. CASE n = 0
  <2>1. o_next' = [o_next EXCEPT ![p] = p]
    BY <1>3, <1>7 DEF Linked
  <2> QED  BY <2>1, <1>3, <1>7 DEF TypeOK
<1>8. CASE n > 0
  <2>a. o_next' = [o_next EXCEPT ![p] = First(q), ![q_ptr[q]] = p]
    BY <1>3, <1>8 DEF Linked
  <2>b. First(q) = c[1] /\ q_ptr[q] = c[n]
    BY <1>6, <1>8
  <2>1. o_next' = [o_next EXCEPT ![p] = c[1], ![c[n]] = p]
    BY <2>a, <2>b, Zenon
  <2>2. c[n] # p
    BY <1>2, <1>4, <1>8
  <2>3. o_next'[p] = c[1] /\ o_next'[c[n]] = p
    BY <2>1, <2>2, <1>6, <1>8 DEF TypeOK
  <2>4. \A x \in Items : x # p /\ x # c[n] => o_next'[x] = o_next[x]
    BY <2>1 DEF TypeOK
  <2>5. ASSUME NEW i \in 1..(n - 1)
        PROVE  o_next'[c[i]] = c[i + 1]
    <3>a. n \in Nat
      BY <1>2
    <3>1. i \in 1..n /\ n \in 1..n /\ i # n
      <4> HIDE DEF n
      <4> QED  BY <3>a
    <3>2. c[i] \in Items /\ c[i] # c[n] /\ c[i] # p
      BY <3>1, <1>2, <1>4
    <3> QED  BY <3>1, <3>2, <2>4, <1>5
  <2>6. /\ q_count[q] = n
        /\ n = 0 => o_next'[p] = p
        /\ n > 0 => o_next'[p] = c[1] /\ q_ptr[q] = c[n] /\ o_next'[c[n]] = p
    BY <2>3, <1>3, <1>6, <1>8
  <2> QED  BY <2>4, <2>5, <2>6, <1>8, Zenon
<1> QED  BY <1>2, <1>7, <1>8

\* What the two calls have in common: d is the new line of q.
LEMMA EnterRings ==
  ASSUME TypeOK, NEW content \in [Queues -> Lines], AreRings(content),
         NEW q \in Queues, NEW p \in Items, o_next[p] = None, o_next' = Linked(q, p),
         \A r \in Queues : r # q => q_count'[r] = q_count[r] /\ q_ptr'[r] = q_ptr[r],
         NEW d \in Lines, IsRing(q, d)',
         \A i \in DOMAIN d : d[i] = p \/ \E j \in DOMAIN content[q] : d[i] = content[q][j],
         \E i \in DOMAIN d : d[i] = p,
         \A j \in DOMAIN content[q] : \E i \in DOMAIN d : d[i] = content[q][j]
  PROVE  Hold([content EXCEPT ![q] = d])'
<1> DEFINE c == content[q]
           n == Len(c)
           new == [content EXCEPT ![q] = d]
<1>1. c \in Lines /\ n \in Nat /\ DOMAIN c = 1..n /\ c \in [1..n -> Items]
  BY LineElim
<1>2. \A x \in Items : x # p /\ (n > 0 => x # c[n]) => o_next'[x] = o_next[x]
  BY LinkedCells
<1>3. ASSUME NEW r \in Queues, r # q
      PROVE  IsRing(r, content[r])'
  <2>1. content[r] \in Lines /\ IsRing(r, content[r])
    BY DEF AreRings
  <2>2. /\ DOMAIN content[r] = 1..Len(content[r])
        /\ content[r] \in [1..Len(content[r]) -> Items]
    BY <2>1, LineElim
  <2>3. \A i \in 1..Len(content[r]) : content[r][i] # p
    BY <2>2, OffQueue
  <2>4. \A i \in 1..Len(content[r]) : n > 0 => content[r][i] # c[n]
    BY <2>2, <1>1, <1>3 DEF AreRings
  <2>5. \A i \in 1..Len(content[r]) : o_next'[content[r][i]] = o_next[content[r][i]]
    <3> HIDE DEF c, n
    <3> QED  BY <2>2, <2>3, <2>4, <1>2
  <2> QED  BY <2>1, <2>5, <1>3, RingStays
<1>4. new \in [Queues -> Lines] /\ new[q] = d /\ \A r \in Queues : r # q => new[r] = content[r]
  OBVIOUS
<1>5. \A r \in Queues : IsRing(r, new[r])'
  BY <1>3, <1>4
<1>6. \A r, s \in Queues : \A i \in DOMAIN new[r], j \in DOMAIN new[s] :
        new[r][i] = new[s][j] => r = s
  <2> SUFFICES ASSUME NEW r \in Queues, NEW s \in Queues, r # s, NEW i \in DOMAIN new[r],
                      NEW j \in DOMAIN new[s]
               PROVE  new[r][i] # new[s][j]
    OBVIOUS
  <2>1. \A u \in Queues : \A k \in DOMAIN content[u] : content[u][k] # p
    BY OffQueue
  <2>2. \A u, v \in Queues : \A k \in DOMAIN content[u], l \in DOMAIN content[v] :
          content[u][k] = content[v][l] => u = v
    BY DEF AreRings
  <2> HIDE DEF new
  <2>3. CASE r = q
    BY <2>1, <2>2, <2>3, <1>4
  <2>4. CASE s = q
    BY <2>1, <2>2, <2>4, <1>4
  <2>5. CASE r # q /\ s # q
    BY <2>2, <2>5, <1>4
  <2> QED  BY <2>3, <2>4, <2>5
<1>7. \A x \in Items :
        o_next'[x] # None => \E r \in Queues : \E i \in DOMAIN new[r] : new[r][i] = x
  <2> SUFFICES ASSUME NEW x \in Items, o_next'[x] # None
               PROVE  \E r \in Queues : \E i \in DOMAIN new[r] : new[r][i] = x
    OBVIOUS
  <2>1. CASE x = p
    BY <2>1, <1>4
  <2>2. CASE x # p
    <3>1. \E r \in Queues : \E i \in DOMAIN content[r] : content[r][i] = x
      <4>1. CASE n > 0 /\ x = c[n]
        BY <4>1, <1>1
      <4>2. CASE n > 0 => x # c[n]
        <5>1. o_next[x] # None
          BY <4>2, <2>2, <1>2
        <5> QED  BY <5>1 DEF AreRings
      <4> QED  BY <4>1, <4>2
    <3>2. PICK r \in Queues : \E i \in DOMAIN content[r] : content[r][i] = x
      BY <3>1
    <3> HIDE DEF new
    <3>3. CASE r = q
      BY <3>2, <3>3, <1>4
    <3>4. CASE r # q
      BY <3>2, <3>4, <1>4
    <3> QED  BY <3>3, <3>4
  <2> QED  BY <2>1, <2>2
<1>8. Hold(new)'
  <2> HIDE DEF new
  <2> QED  BY <1>4, <1>5, <1>6, <1>7 DEF Hold, AreRings
<1> QED  BY <1>8

LEMMA AddRings ==
  ASSUME TypeOK, NEW content \in [Queues -> Lines], AreRings(content),
         NEW q \in Queues, NEW p \in Items, Add(q, p)
  PROVE  Hold([content EXCEPT ![q] = Append(content[q], p)])'
<1> DEFINE c == content[q]
           n == Len(c)
           d == [i \in 1..(n + 1) |-> IF i = n + 1 THEN p ELSE c[i]]
<1>1. c \in Lines /\ IsRing(q, c)
  BY DEF AreRings
<1>2. /\ n \in Nat /\ DOMAIN c = 1..n /\ c \in [1..n -> Items]
      /\ \A i, j \in 1..n : c[i] = c[j] => i = j
  BY <1>1, LineElim
<1>3. o_next[p] = None /\ o_next' = Linked(q, p) /\ q_ptr' = [q_ptr EXCEPT ![q] = p]
      /\ q_count' = [q_count EXCEPT ![q] = @ + 1]
  BY DEF Add, NewLast
<1>4. \A i \in 1..n : c[i] # p
  BY <1>2, <1>3, OffQueue
<1>5. d \in Lines /\ Len(d) = n + 1 /\ DOMAIN d = 1..(n + 1)
  <2>1. n + 1 \in Nat /\ d \in [1..(n + 1) -> Items]
    BY <1>2
  <2>2. \A i, j \in 1..(n + 1) : d[i] = d[j] => i = j
    BY <1>2, <1>4
  <2> HIDE DEF d
  <2> QED  BY <2>1, <2>2, LineIntro
<1>6. /\ q_count[q] = n
      /\ n = 0 => o_next'[p] = p
      /\ n > 0 => o_next'[p] = c[1] /\ q_ptr[q] = c[n] /\ o_next'[c[n]] = p
      /\ \A i \in 1..(n - 1) : o_next'[c[i]] = c[i + 1]
  BY ZenonT(30), <1>3, LinkedCells
<1>7. d[n + 1] = p /\ \A i \in 1..n : d[i] = c[i]
  BY <1>2
<1>8. IsRing(q, d)'
  <2>1. q_count'[q] = n + 1 /\ q_ptr'[q] = p
    BY <1>3, <1>6 DEF TypeOK
  <2> HIDE DEF d, n
  <2>2. \A i \in 1..n : o_next'[d[i]] = d[i + 1]
    BY <1>2, <1>6, <1>7
  <2>3. o_next'[d[n + 1]] = d[1]
    BY <1>2, <1>6, <1>7
  <2> QED  BY <2>1, <2>2, <2>3, <1>2, <1>5, <1>7 DEF IsRing
<1>9. \A r \in Queues : r # q => q_count'[r] = q_count[r] /\ q_ptr'[r] = q_ptr[r]
  BY <1>3 DEF TypeOK
<1>10. \A i \in DOMAIN d : d[i] = p \/ \E j \in DOMAIN c : d[i] = c[j]
  BY <1>2, <1>5, <1>7
<1>11. \E i \in DOMAIN d : d[i] = p
  BY <1>2, <1>5, <1>7
<1>12. \A j \in DOMAIN c : \E i \in DOMAIN d : d[i] = c[j]
  BY <1>2, <1>5, <1>7
<1>13. d = Append(c, p)
  <2>1. c \in Seq(Items) /\ d \in Seq(Items)
    BY <1>1, <1>5, LineElim
  <2>2. /\ Append(c, p) \in Seq(Items) /\ Len(Append(c, p)) = n + 1
        /\ \A i \in 1..n : Append(c, p)[i] = c[i] /\ Append(c, p)[n + 1] = p
    BY <2>1, AppendProperties
  <2>3. Append(c, p)[n + 1] = p
    BY <2>1, AppendProperties
  <2>4. Len(d) = Len(Append(c, p)) /\ \A i \in 1..Len(d) : d[i] = Append(c, p)[i]
    BY <1>2, <1>5, <2>2, <2>3
  <2> HIDE DEF d
  <2> QED  BY <2>1, <2>2, <2>4, SeqEqual
<1>14. Hold([content EXCEPT ![q] = d])'
  <2> HIDE DEF d
  <2> QED  BY <1>3, <1>5, <1>8, <1>9, <1>10, <1>11, <1>12, EnterRings
<1> HIDE DEF d
<1> QED  BY <1>13, <1>14

LEMMA AddFirstRings ==
  ASSUME TypeOK, NEW content \in [Queues -> Lines], AreRings(content),
         NEW q \in Queues, NEW p \in Items, AddFirst(q, p)
  PROVE  Hold([content EXCEPT ![q] = <<p>> \o content[q]])'
<1> DEFINE c == content[q]
           n == Len(c)
           d == [i \in 1..(n + 1) |-> IF i = 1 THEN p ELSE c[i - 1]]
<1>1. c \in Lines /\ IsRing(q, c)
  BY DEF AreRings
<1>2. /\ n \in Nat /\ DOMAIN c = 1..n /\ c \in [1..n -> Items]
      /\ \A i, j \in 1..n : c[i] = c[j] => i = j
  BY <1>1, LineElim
<1>3. /\ o_next[p] = None /\ o_next' = Linked(q, p)
      /\ q_ptr' = IF q_count[q] = 0 THEN [q_ptr EXCEPT ![q] = p] ELSE q_ptr
      /\ q_count' = [q_count EXCEPT ![q] = @ + 1]
  BY DEF AddFirst
<1>4. \A i \in 1..n : c[i] # p
  BY <1>2, <1>3, OffQueue
<1>5. d \in Lines /\ Len(d) = n + 1 /\ DOMAIN d = 1..(n + 1)
  <2>1. n + 1 \in Nat /\ d \in [1..(n + 1) -> Items]
    BY <1>2
  <2>2. \A i, j \in 1..(n + 1) : d[i] = d[j] => i = j
    BY <1>2, <1>4
  <2> HIDE DEF d
  <2> QED  BY <2>1, <2>2, LineIntro
<1>6. /\ q_count[q] = n
      /\ n = 0 => o_next'[p] = p
      /\ n > 0 => o_next'[p] = c[1] /\ q_ptr[q] = c[n] /\ o_next'[c[n]] = p
      /\ \A i \in 1..(n - 1) : o_next'[c[i]] = c[i + 1]
  BY ZenonT(30), <1>3, LinkedCells
<1>7. d[1] = p /\ \A i \in 1..n : d[i + 1] = c[i]
  BY <1>2
<1>8. IsRing(q, d)'
  <2>1. q_count'[q] = n + 1 /\ q_ptr'[q] = d[n + 1]
    <3> HIDE DEF d, n
    <3> QED  BY <1>2, <1>3, <1>6, <1>7 DEF TypeOK
  <2> HIDE DEF d, n
  <2>2. ASSUME NEW i \in 1..n
        PROVE  o_next'[d[i]] = d[i + 1]
    <3>1. CASE i = 1
      BY <3>1, <1>2, <1>6, <1>7
    <3>2. CASE i # 1
      <4>1. i - 1 \in 1..(n - 1) /\ i - 1 \in 1..n /\ (i - 1) + 1 = i
        BY <3>2, <1>2
      <4>2. d[i] = c[i - 1] /\ o_next'[c[i - 1]] = c[i]
        BY <4>1, <1>6, <1>7
      <4> QED  BY <4>2, <1>7
    <3> QED  BY <3>1, <3>2
  <2>3. o_next'[d[n + 1]] = d[1]
    BY <1>2, <1>6, <1>7
  <2> QED  BY <2>1, <2>2, <2>3, <1>2, <1>5 DEF IsRing
<1>9. \A r \in Queues : r # q => q_count'[r] = q_count[r] /\ q_ptr'[r] = q_ptr[r]
  BY <1>3 DEF TypeOK
<1>10. \A i \in DOMAIN d : d[i] = p \/ \E j \in DOMAIN c : d[i] = c[j]
  BY <1>2, <1>5
<1>11. \E i \in DOMAIN d : d[i] = p
  BY <1>2, <1>5, <1>7
<1>12. ASSUME NEW j \in DOMAIN c
       PROVE  \E i \in DOMAIN d : d[i] = c[j]
  <2>1. j + 1 \in DOMAIN d /\ d[j + 1] = c[j]
    BY <1>2, <1>5, <1>7
  <2> QED  BY <2>1
<1>13. d = <<p>> \o c
  <2>1. c \in Seq(Items) /\ d \in Seq(Items) /\ <<p>> \in Seq(Items) /\ Len(<<p>>) = 1
        /\ <<p>>[1] = p
    BY <1>1, <1>5, LineElim
  <2>2. /\ <<p>> \o c \in Seq(Items) /\ Len(<<p>> \o c) = 1 + n
        /\ \A i \in 1..(1 + n) : (<<p>> \o c)[i] = IF i <= 1 THEN <<p>>[i] ELSE c[i - 1]
    BY <2>1, ConcatProperties
  <2>3. Len(d) = Len(<<p>> \o c) /\ \A i \in 1..Len(d) : d[i] = (<<p>> \o c)[i]
    BY <1>2, <1>5, <2>1, <2>2
  <2> HIDE DEF d
  <2> QED  BY <2>1, <2>2, <2>3, SeqEqual
<1>14. Hold([content EXCEPT ![q] = d])'
  <2> HIDE DEF d
  <2> QED  BY <1>3, <1>5, <1>8, <1>9, <1>10, <1>11, <1>12, EnterRings
<1> HIDE DEF d
<1> QED  BY <1>13, <1>14

----------------------------------------------------------------------------
(* splice(): the objects of qh go behind those of qt.                      *)

\* The cells after the assignments of splice().
LEMMA SplicedCells ==
  ASSUME TypeOK, NEW content \in [Queues -> Lines], AreRings(content),
         NEW qh \in Queues, NEW qt \in Queues, qh # qt,
         o_next' = SplicedRings(qh, qt), q_ptr' = SplicedLast(qh, qt)
  PROVE  LET a == content[qt]  m == Len(a)  b == content[qh]  n == Len(b) IN
         /\ m = 0 \/ n = 0 => o_next' = o_next
         /\ m > 0 /\ n > 0 =>
              /\ o_next'[a[m]] = b[1] /\ o_next'[b[n]] = a[1]
              /\ \A x \in Items : x # a[m] /\ x # b[n] => o_next'[x] = o_next[x]
         /\ n > 0 => q_ptr'[qt] = b[n]
         /\ n = 0 /\ m > 0 => q_ptr'[qt] = a[m]
         /\ \A r \in Queues : r # qt => q_ptr'[r] = q_ptr[r]
<1> DEFINE a == content[qt]
           m == Len(a)
           b == content[qh]
           n == Len(b)
<1>1. a \in Lines /\ IsRing(qt, a) /\ b \in Lines /\ IsRing(qh, b)
  BY DEF AreRings
<1>2. /\ m \in Nat /\ DOMAIN a = 1..m /\ a \in [1..m -> Items]
      /\ n \in Nat /\ DOMAIN b = 1..n /\ b \in [1..n -> Items]
  BY <1>1, LineElim
<1>3. q_count[qt] = m /\ q_count[qh] = n
  BY <1>1 DEF IsRing
<1>4. m > 0 => q_ptr[qt] = a[m] /\ First(qt) = a[1] /\ a[m] \in Items
  BY <1>1, <1>2, <1>3, RingFirst
<1>5. n > 0 => q_ptr[qh] = b[n] /\ First(qh) = b[1] /\ b[n] \in Items
  BY <1>1, <1>2, <1>3, RingFirst
<1>6. m > 0 /\ n > 0 => a[m] # b[n]
  BY <1>2 DEF AreRings
<1>7. m = 0 \/ n = 0 => o_next' = o_next
  BY <1>3 DEF SplicedRings
<1>8. ASSUME m > 0, n > 0
      PROVE  /\ o_next'[a[m]] = b[1] /\ o_next'[b[n]] = a[1]
             /\ \A x \in Items : x # a[m] /\ x # b[n] => o_next'[x] = o_next[x]
  <2> HIDE DEF a, b, m, n
  <2>1. o_next' = [o_next EXCEPT ![q_ptr[qt]] = First(qh), ![q_ptr[qh]] = First(qt)]
    BY <1>3, <1>8 DEF SplicedRings
  <2>2. /\ q_ptr[qt] = a[m] /\ First(qt) = a[1]
        /\ q_ptr[qh] = b[n] /\ First(qh) = b[1]
    BY <1>4, <1>5, <1>8
  <2>3. o_next' = [o_next EXCEPT ![a[m]] = b[1], ![b[n]] = a[1]]
    BY <2>1, <2>2, Zenon
  <2>4. a[m] \in Items /\ b[n] \in Items /\ a[m] # b[n]
    BY <1>4, <1>5, <1>6, <1>8
  <2> QED  BY <2>3, <2>4 DEF TypeOK
<1>9. q_ptr' = IF n = 0 THEN q_ptr ELSE [q_ptr EXCEPT ![qt] = q_ptr[qh]]
  BY <1>3 DEF SplicedLast
<1>10. n > 0 => q_ptr'[qt] = b[n]
  BY <1>5, <1>9 DEF TypeOK
<1>11. n = 0 /\ m > 0 => q_ptr'[qt] = a[m]
  BY <1>4, <1>9
<1>12. \A r \in Queues : r # qt => q_ptr'[r] = q_ptr[r]
  BY <1>9 DEF TypeOK
<1> QED  BY <1>7, <1>8, <1>10, <1>11, <1>12

\* The line of both rings, b behind a.
LEMMA JoinedLine ==
  ASSUME NEW a \in Lines, NEW b \in Lines,
         \A i \in DOMAIN a, j \in DOMAIN b : a[i] # b[j]
  PROVE  \E e \in Lines :
           /\ Len(e) = Len(a) + Len(b) /\ DOMAIN e = 1..(Len(a) + Len(b))
           /\ \A i \in DOMAIN a : e[i] = a[i]
           /\ \A i \in DOMAIN b : e[Len(a) + i] = b[i]
           /\ \A k \in DOMAIN e : k \in DOMAIN a \/ k - Len(a) \in DOMAIN b
<1> DEFINE m == Len(a)
           n == Len(b)
<1>1. /\ m \in Nat /\ DOMAIN a = 1..m /\ a \in [1..m -> Items]
      /\ n \in Nat /\ DOMAIN b = 1..n /\ b \in [1..n -> Items]
      /\ \A i, j \in 1..m : a[i] = a[j] => i = j
      /\ \A i, j \in 1..n : b[i] = b[j] => i = j
  BY LineElim
<1>2. PICK e : e = [i \in 1..(m + n) |-> IF i <= m THEN a[i] ELSE b[i - m]]
  OBVIOUS
<1> HIDE DEF m, n
<1>3. m + n \in Nat /\ e \in [1..(m + n) -> Items]
  <2>1. ASSUME NEW k \in 1..(m + n)
        PROVE  e[k] \in Items
    <3>1. CASE k <= m
      BY <3>1, <1>1, <1>2
    <3>2. CASE ~(k <= m)
      <4>1. k - m \in 1..n /\ e[k] = b[k - m]
        BY <3>2, <1>1, <1>2
      <4> QED  BY <4>1, <1>1
    <3> QED  BY <3>1, <3>2
  <2>2. m + n \in Nat
    BY <1>1
  <2> QED  BY <2>1, <2>2, <1>2
<1>4. ASSUME NEW i \in 1..(m + n), NEW j \in 1..(m + n), e[i] = e[j]
      PROVE  i = j
  <2>1. CASE i <= m /\ j <= m
    BY <2>1, <1>1, <1>2, <1>4
  <2>2. CASE i <= m /\ ~(j <= m)
    <3>1. i \in 1..m /\ j - m \in 1..n /\ e[i] = a[i] /\ e[j] = b[j - m]
      BY <2>2, <1>1, <1>2
    <3> QED  BY <3>1, <1>1, <1>4
  <2>3. CASE ~(i <= m) /\ j <= m
    <3>1. j \in 1..m /\ i - m \in 1..n /\ e[j] = a[j] /\ e[i] = b[i - m]
      BY <2>3, <1>1, <1>2
    <3> QED  BY <3>1, <1>1, <1>4
  <2>4. CASE ~(i <= m) /\ ~(j <= m)
    <3>1. i - m \in 1..n /\ j - m \in 1..n /\ e[j] = b[j - m] /\ e[i] = b[i - m]
      BY <2>4, <1>1, <1>2
    <3>2. i - m = j - m
      BY <3>1, <1>1, <1>4
    <3> QED  BY <3>2, <1>1
  <2> QED  BY <2>1, <2>2, <2>3, <2>4
<1>5. e \in Lines /\ Len(e) = m + n /\ DOMAIN e = 1..(m + n)
  BY <1>3, <1>4, LineIntro
<1>6. \A i \in 1..m : e[i] = a[i]
  BY <1>1, <1>2
<1>7. ASSUME NEW i \in 1..n
      PROVE  e[m + i] = b[i]
  <2>1. m + i \in 1..(m + n) /\ ~(m + i <= m) /\ (m + i) - m = i
    BY <1>1
  <2>2. e[m + i] = b[(m + i) - m]
    BY <2>1, <1>2
  <2> QED  BY <2>1, <2>2
<1>8. \A k \in 1..(m + n) : k \in 1..m \/ k - m \in 1..n
  BY <1>1
<1> QED  BY <1>1, <1>5, <1>6, <1>7, <1>8 DEF m, n

\* The joined line is the ring of qt, whichever of the two was empty.
LEMMA JoinedRing ==
  ASSUME TypeOK, NEW content \in [Queues -> Lines], AreRings(content),
         NEW qh \in Queues, NEW qt \in Queues, qh # qt,
         o_next' = SplicedRings(qh, qt), q_ptr' = SplicedLast(qh, qt),
         q_count'[qt] = q_count[qt] + q_count[qh],
         NEW e \in Lines, Len(e) = Len(content[qt]) + Len(content[qh]),
         \A i \in DOMAIN content[qt] : e[i] = content[qt][i],
         \A i \in DOMAIN content[qh] : e[Len(content[qt]) + i] = content[qh][i]
  PROVE  IsRing(qt, e)'
<1> DEFINE a == content[qt]
           m == Len(a)
           b == content[qh]
           n == Len(b)
<1>1. a \in Lines /\ IsRing(qt, a) /\ b \in Lines /\ IsRing(qh, b)
  BY DEF AreRings
<1>2. /\ m \in Nat /\ DOMAIN a = 1..m /\ a \in [1..m -> Items]
      /\ n \in Nat /\ DOMAIN b = 1..n /\ b \in [1..n -> Items]
      /\ \A i, j \in 1..m : a[i] = a[j] => i = j
      /\ \A i, j \in 1..n : b[i] = b[j] => i = j
  BY <1>1, LineElim
<1>3. q_count'[qt] = m + n /\ Len(e) = m + n
  BY <1>1 DEF IsRing
<1>4. /\ \A i \in 1..m : o_next[a[i]] = IF i = m THEN a[1] ELSE a[i + 1]
      /\ \A i \in 1..n : o_next[b[i]] = IF i = n THEN b[1] ELSE b[i + 1]
  BY <1>1, RingNext
<1>5. \A i \in 1..m, j \in 1..n : a[i] # b[j]
  BY <1>2 DEF AreRings
<1>6. /\ m = 0 \/ n = 0 => o_next' = o_next
      /\ m > 0 /\ n > 0 =>
           /\ o_next'[a[m]] = b[1] /\ o_next'[b[n]] = a[1]
           /\ \A x \in Items : x # a[m] /\ x # b[n] => o_next'[x] = o_next[x]
      /\ n > 0 => q_ptr'[qt] = b[n]
      /\ n = 0 /\ m > 0 => q_ptr'[qt] = a[m]
  BY SplicedCells
<1>7. /\ \A i \in 1..m : e[i] = a[i]
      /\ \A i \in 1..n : e[m + i] = b[i]
  BY <1>2
<1> HIDE DEF a, b, m, n
<1>8. CASE n = 0
  BY <1>8, <1>2, <1>3, <1>4, <1>6, <1>7 DEF IsRing
<1>9. CASE m = 0
  BY <1>9, <1>2, <1>3, <1>4, <1>6, <1>7 DEF IsRing
<1>10. CASE m > 0 /\ n > 0
  <2>1. \A i \in 1..(m - 1) : o_next'[a[i]] = a[i + 1]
    <3> SUFFICES ASSUME NEW i \in 1..(m - 1)
                 PROVE  o_next'[a[i]] = a[i + 1]
      OBVIOUS
    <3>1. i \in 1..m /\ m \in 1..m /\ n \in 1..n /\ i # m
      BY <1>2, <1>10
    <3>2. a[i] \in Items /\ a[i] # a[m] /\ a[i] # b[n]
      BY <3>1, <1>2, <1>5
    <3> QED  BY <3>1, <3>2, <1>4, <1>6, <1>10
  <2>2. \A i \in 1..(n - 1) : o_next'[b[i]] = b[i + 1]
    <3> SUFFICES ASSUME NEW i \in 1..(n - 1)
                 PROVE  o_next'[b[i]] = b[i + 1]
      OBVIOUS
    <3>1. i \in 1..n /\ m \in 1..m /\ n \in 1..n /\ i # n
      BY <1>2, <1>10
    <3>2. b[i] \in Items /\ b[i] # b[n] /\ b[i] # a[m]
      BY <3>1, <1>2, <1>5
    <3> QED  BY <3>1, <3>2, <1>4, <1>6, <1>10
  <2>3. ASSUME NEW i \in 1..(m + n - 1)
        PROVE  o_next'[e[i]] = e[i + 1]
    <3>1. CASE i < m
      BY <3>1, <2>1, <1>2, <1>7
    <3>2. CASE i = m
      <4>1. e[m] = a[m] /\ e[m + 1] = b[1]
        BY <1>2, <1>7, <1>10
      <4> QED  BY <4>1, <3>2, <1>6, <1>10
    <3>3. CASE i > m
      <4>1. i - m \in 1..(n - 1) /\ i - m \in 1..n /\ i - m + 1 \in 1..n
            /\ m + (i - m) = i /\ m + (i - m + 1) = i + 1
        BY <3>3, <1>2
      <4>2. e[i] = b[i - m] /\ e[i + 1] = b[i - m + 1]
        BY <4>1, <1>7
      <4> QED  BY <4>1, <4>2, <2>2
    <3> QED  BY <3>1, <3>2, <3>3, <1>2
  <2>4. e[m + n] = b[n] /\ e[1] = a[1]
    BY <1>2, <1>7, <1>10
  <2>5. ASSUME NEW i \in 1..(Len(e) - 1)
        PROVE  o_next'[e[i]] = e[i + 1]
    <3>1. Len(e) = m + n
      BY <1>3
    <3>2. i \in 1..(m + n - 1)
      BY <3>1, <1>2
    <3> QED  BY <3>2, <2>3
  <2>6. q_ptr'[qt] = e[Len(e)] /\ o_next'[e[Len(e)]] = e[1] /\ Len(e) = q_count'[qt]
    BY <2>4, <1>3, <1>6, <1>10
  <2> QED  BY <2>5, <2>6 DEF IsRing
<1> QED  BY <1>2, <1>8, <1>9, <1>10

LEMMA SpliceRings ==
  ASSUME TypeOK, NEW content \in [Queues -> Lines], AreRings(content),
         NEW qh \in Queues, NEW qt \in Queues, qh # qt,
         o_next' = SplicedRings(qh, qt), q_ptr' = SplicedLast(qh, qt),
         q_count' = [q_count EXCEPT ![qt] = @ + q_count[qh], ![qh] = 0]
  PROVE  Hold([content EXCEPT ![qt] = content[qt] \o content[qh], ![qh] = <<>>])'
<1> DEFINE a == content[qt]
           m == Len(a)
           b == content[qh]
           n == Len(b)
<1>1. a \in Lines /\ IsRing(qt, a) /\ b \in Lines /\ IsRing(qh, b)
  BY DEF AreRings
<1>2. /\ m \in Nat /\ DOMAIN a = 1..m /\ a \in [1..m -> Items]
      /\ n \in Nat /\ DOMAIN b = 1..n /\ b \in [1..n -> Items]
  BY <1>1, LineElim
<1>3. \A i \in DOMAIN a, j \in DOMAIN b : a[i] # b[j]
  BY DEF AreRings
<1>4. PICK e \in Lines :
        /\ Len(e) = Len(a) + Len(b) /\ DOMAIN e = 1..(Len(a) + Len(b))
        /\ \A i \in DOMAIN a : e[i] = a[i]
        /\ \A i \in DOMAIN b : e[Len(a) + i] = b[i]
        /\ \A k \in DOMAIN e : k \in DOMAIN a \/ k - Len(a) \in DOMAIN b
  <2> HIDE DEF a, b
  <2> QED  BY <1>1, <1>3, JoinedLine
<1> DEFINE nil == [i \in 1..0 |-> None]
           new == [content EXCEPT ![qt] = e, ![qh] = nil]
<1>5. nil \in Lines /\ Len(nil) = 0 /\ DOMAIN nil = {}
  BY EmptyLine
<1>s. e = a \o b /\ nil = <<>>
  <2>1. a \in Seq(Items) /\ b \in Seq(Items) /\ e \in Seq(Items)
    BY <1>1, <1>4, LineElim
  <2>2. /\ a \o b \in Seq(Items) /\ Len(a \o b) = m + n
        /\ \A i \in 1..(m + n) : (a \o b)[i] = IF i <= m THEN a[i] ELSE b[i - m]
    BY <2>1, ConcatProperties
  <2>3. ASSUME NEW i \in 1..(m + n) PROVE e[i] = (a \o b)[i]
    <3> HIDE DEF a, b, m, n
    <3>1. CASE i <= m
      BY SMTT(30), <1>2, <1>4, <2>2, <3>1 DEF m
    <3>2. CASE ~(i <= m)
      <4>1. i - m \in 1..n /\ m + (i - m) = i
        BY <1>2, <3>2
      <4>2. e[m + (i - m)] = b[i - m]
        BY <1>2, <1>4, <4>1 DEF m
      <4> QED  BY <2>2, <3>2, <4>1, <4>2
    <3> QED  BY <3>1, <3>2
  <2>4. Len(e) = Len(a \o b)
    BY <1>4, <2>2
  <2>5. e = a \o b
    BY <1>4, <2>1, <2>2, <2>3, <2>4, SeqEqual
  <2> QED  BY <2>5, EmptyLine
<1>6. q_count'[qt] = q_count[qt] + q_count[qh] /\ q_count'[qh] = 0
      /\ \A r \in Queues : r # qt /\ r # qh => q_count'[r] = q_count[r]
  BY DEF TypeOK
<1>7. /\ m = 0 \/ n = 0 => o_next' = o_next
      /\ m > 0 /\ n > 0 => \A x \in Items : x # a[m] /\ x # b[n] => o_next'[x] = o_next[x]
      /\ \A r \in Queues : r # qt => q_ptr'[r] = q_ptr[r]
  BY SplicedCells
<1> HIDE DEF nil
<1>8. IsRing(qt, e)'
  <2>1. e \in Lines /\ Len(e) = Len(content[qt]) + Len(content[qh])
    BY <1>4
  <2>2. \A i \in DOMAIN content[qt] : e[i] = content[qt][i]
    BY <1>4
  <2>3. \A i \in DOMAIN content[qh] : e[Len(content[qt]) + i] = content[qh][i]
    BY <1>4
  <2>4. q_count'[qt] = q_count[qt] + q_count[qh]
    BY <1>6
  <2> QED  BY <2>1, <2>2, <2>3, <2>4, JoinedRing, Zenon
<1>9. IsRing(qh, nil)'
  BY <1>5, <1>6 DEF IsRing
<1>10. ASSUME NEW r \in Queues, r # qt, r # qh
       PROVE  IsRing(r, content[r])'
  <2>1. content[r] \in Lines /\ IsRing(r, content[r])
    BY DEF AreRings
  <2>2. /\ DOMAIN content[r] = 1..Len(content[r])
        /\ content[r] \in [1..Len(content[r]) -> Items]
    BY <2>1, LineElim
  <2>3. \A i \in 1..Len(content[r]) :
          /\ m > 0 => content[r][i] # a[m]
          /\ n > 0 => content[r][i] # b[n]
    BY SMTT(30), <2>2, <1>2, <1>10 DEF AreRings
  <2> HIDE DEF a, b, m, n
  <2>4. \A i \in 1..Len(content[r]) : o_next'[content[r][i]] = o_next[content[r][i]]
    BY <2>2, <2>3, <1>2, <1>7
  <2> QED  BY <2>1, <2>4, <1>6, <1>7, <1>10, RingStays
<1>11. /\ new \in [Queues -> Lines] /\ new[qt] = e /\ new[qh] = nil
       /\ \A r \in Queues : r # qt /\ r # qh => new[r] = content[r]
  BY <1>4, <1>5
<1> HIDE DEF new
<1>12. \A r \in Queues : IsRing(r, new[r])'
  BY <1>8, <1>9, <1>10, <1>11
\* Where an item of a new line was before.
<1>13. ASSUME NEW r \in Queues, NEW i \in DOMAIN new[r]
       PROVE  \E s \in Queues : /\ r # qh
                                /\ s = r \/ (s = qh /\ r = qt)
                                /\ \E j \in DOMAIN content[s] : new[r][i] = content[s][j]
  <2>1. CASE r = qt
    <3>1. i \in DOMAIN e /\ (i \in DOMAIN a \/ i - m \in DOMAIN b)
      BY <2>1, <1>4, <1>11
    <3>2. CASE i \in DOMAIN a
      BY <2>1, <3>2, <1>4, <1>11
    <3>3. CASE i - m \in DOMAIN b
      <4>1. m + (i - m) = i
        BY <3>1, <1>2, <1>4
      <4>2. e[i] = b[i - m]
        BY <3>3, <4>1, <1>4
      <4> QED  BY <2>1, <3>3, <4>2, <1>11
    <3> QED  BY <3>1, <3>2, <3>3
  <2>2. CASE r = qh
    BY <2>2, <1>5, <1>11
  <2>3. CASE r # qt /\ r # qh
    BY <2>3, <1>11
  <2> QED  BY <2>1, <2>2, <2>3
<1>14. \A r, s \in Queues : \A i \in DOMAIN new[r], j \in DOMAIN new[s] :
         new[r][i] = new[s][j] => r = s
  <2> SUFFICES ASSUME NEW r \in Queues, NEW s \in Queues, NEW i \in DOMAIN new[r],
                      NEW j \in DOMAIN new[s], new[r][i] = new[s][j]
               PROVE  r = s
    OBVIOUS
  <2>1. PICK u \in Queues : /\ r # qh /\ (u = r \/ (u = qh /\ r = qt))
                            /\ \E k \in DOMAIN content[u] : new[r][i] = content[u][k]
    BY <1>13
  <2>2. PICK v \in Queues : /\ s # qh /\ (v = s \/ (v = qh /\ s = qt))
                            /\ \E k \in DOMAIN content[v] : new[s][j] = content[v][k]
    BY <1>13
  <2>3. u = v
    BY <2>1, <2>2 DEF AreRings
  <2> QED  BY <2>1, <2>2, <2>3
<1>15. ASSUME NEW x \in Items, o_next'[x] # None
       PROVE  \E r \in Queues : \E i \in DOMAIN new[r] : new[r][i] = x
  <2>1. \E r \in Queues : \E i \in DOMAIN content[r] : content[r][i] = x
    <3>1. CASE m > 0 /\ n > 0 /\ (x = a[m] \/ x = b[n])
      <4>1. m \in DOMAIN content[qt] /\ n \in DOMAIN content[qh]
        BY <3>1, <1>2
      <4> QED  BY <3>1, <4>1
    <3>2. CASE ~(m > 0 /\ n > 0 /\ (x = a[m] \/ x = b[n]))
      <4>1. o_next'[x] = o_next[x]
        <5> HIDE DEF a, b, m, n
        <5> QED  BY <3>2, <1>2, <1>7
      <4> QED  BY <4>1, <1>15 DEF AreRings
    <3> QED  BY <3>1, <3>2
  <2>2. PICK r \in Queues : \E i \in DOMAIN content[r] : content[r][i] = x
    BY <2>1
  <2>3. PICK i \in DOMAIN content[r] : content[r][i] = x
    BY <2>2
  <2>4. CASE r = qt
    <3>1. i \in DOMAIN e /\ e[i] = x
      BY <2>3, <2>4, <1>2, <1>4
    <3> QED  BY <3>1, <1>11
  <2>5. CASE r = qh
    <3>1. m + i \in DOMAIN e /\ e[m + i] = x
      BY <2>3, <2>5, <1>2, <1>4
    <3> QED  BY <3>1, <1>11
  <2>6. CASE r # qt /\ r # qh
    BY <2>3, <2>6, <1>11
  <2> QED  BY <2>4, <2>5, <2>6
<1>16. Hold(new)'
  BY <1>11, <1>12, <1>14, <1>15 DEF Hold, AreRings
<1>17. new = [content EXCEPT ![qt] = content[qt] \o content[qh], ![qh] = <<>>]
  BY <1>s DEF new
<1> QED  BY <1>16, <1>17

----------------------------------------------------------------------------
(* The other calls leave the rings alone.                                  *)
LEMMA KeepRings ==
  ASSUME NEW content, Hold(content), o_next' = o_next, q_ptr' = q_ptr,
         \A q \in Queues : q_count'[q] = q_count[q]
  PROVE  Hold(content)'
<1>1. \A q \in Queues : content[q] \in Lines /\ IsRing(q, content[q])
  BY DEF Hold, AreRings
<1>2. \A q \in Queues : IsRing(q, content[q])'
  BY <1>1, RingStays
<1> QED  BY <1>2 DEF Hold, AreRings

\* The count of a queue that does not exist is set to 0: it was 0.
LEMMA FreshCount ==
  ASSUME TypeOK, EmptyWhenFree, NEW r \in Fresh(Queues),
         q_count' = [q_count EXCEPT ![r] = 0]
  PROVE  \A q \in Queues : q_count'[q] = q_count[q]
<1>1. r \in Queues /\ q_count[r] = 0
  BY DEF Fresh, EmptyWhenFree
<1> QED  BY <1>1 DEF TypeOK

LEMMA InitRings == Init => Hold([q \in Queues |-> <<>>]) /\ EmptyWhenFree
<1> SUFFICES ASSUME Init PROVE Hold([q \in Queues |-> <<>>]) /\ EmptyWhenFree
  OBVIOUS
<1> DEFINE content == [q \in Queues |-> <<>>]
<1>1. <<>> \in Lines /\ Len(<<>>) = 0 /\ DOMAIN <<>> = {}
  BY EmptyLine
<1>2. content \in [Queues -> Lines] /\ \A q \in Queues : content[q] = <<>>
  BY <1>1
<1>3. Hold(content)
  <2> HIDE DEF content
  <2>1. \A q \in Queues : IsRing(q, content[q])
    BY <1>1, <1>2 DEF IsRing, Init
  <2> QED  BY <1>1, <1>2, <2>1 DEF Hold, AreRings, Init
<1> QED  BY <1>3 DEF EmptyWhenFree, Init

\* What a call does to the lines.
Moves(content, new) ==
  \/ \E q \in Queues :
       content[q] # <<>> /\ new = [content EXCEPT ![q] = Tail(content[q])]
  \/ \E q \in Queues, p \in Items :
       /\ HasRoom(q) /\ o_next[p] = None
       /\ \/ new = [content EXCEPT ![q] = Append(content[q], p)]
          \/ new = [content EXCEPT ![q] = <<p>> \o content[q]]
  \/ \E q, r \in Queues :
       q # r /\ new = [content EXCEPT ![r] = content[r] \o content[q], ![q] = <<>>]

LEMMA StepRings ==
  ASSUME TypeOK, EndsMatch, EmptyWhenFree, NEW content, Hold(content), Next
  PROVE  \/ Hold(content)'
         \/ \E new : Hold(new)' /\ Moves(content, new) /\ UNCHANGED q_max
<1> DEFINE Goal == \/ Hold(content)'
                   \/ \E new : Hold(new)' /\ Moves(content, new) /\ UNCHANGED q_max
<1> HIDE DEF Goal
<1>1. content \in [Queues -> Lines] /\ AreRings(content)
  BY DEF Hold
<1>2. ASSUME NEW q \in Queues, NEW m \in Maxes, NEW h \in Heads, NewHead(h, q, m)
      PROVE  Goal
  BY <1>2, FreshCount, KeepRings DEF NewHead, NewQueue, Goal
<1>3. ASSUME NEW q \in Queues, NEW m \in Maxes, NEW t \in Tails, NewTail(t, q, m)
      PROVE  Goal
  BY <1>3, FreshCount, KeepRings DEF NewTail, NewQueue, Goal
<1>4. ASSUME UNCHANGED <<o_next, q_ptr, q_count>>
      PROVE  Goal
  BY <1>4, KeepRings DEF Goal
<1>a. ASSUME NEW new, Hold(new)', Moves(content, new), UNCHANGED q_max
      PROVE  Goal
  BY <1>a DEF Goal
<1>5. ASSUME NEW h \in Heads, Get(h)
      PROVE  Goal
  <2>1. PICK q \in Queues : Take(q)
    BY <1>5, LiveEnds DEF Get, IsQueue
  <2>2. content[q] # <<>> /\ Hold([content EXCEPT ![q] = Tail(content[q])])'
    BY <2>1, <1>1, TakeRings
  <2>3. Moves(content, [content EXCEPT ![q] = Tail(content[q])])
    BY <2>1, <2>2 DEF Moves
  <2> QED  BY <2>1, <2>2, <2>3, <1>a DEF Take
<1>6. ASSUME NEW t \in Tails, NEW p \in Items, Put(t, p)
      PROVE  Goal
  <2>1. PICK q \in Queues : Add(q, p)
    BY <1>6, LiveEnds DEF Put, IsQueue
  <2>2. Hold([content EXCEPT ![q] = Append(content[q], p)])'
    BY <2>1, <1>1, AddRings
  <2>3. Moves(content, [content EXCEPT ![q] = Append(content[q], p)])
    BY <2>1 DEF Moves, Add
  <2> QED  BY <2>1, <2>2, <2>3, <1>a DEF Add
<1>7. ASSUME NEW h \in Heads, NEW p \in Items, PutBack(h, p)
      PROVE  Goal
  <2>1. PICK q \in Queues : AddFirst(q, p)
    BY <1>7, LiveEnds DEF PutBack, IsQueue
  <2>2. Hold([content EXCEPT ![q] = <<p>> \o content[q]])'
    BY <2>1, <1>1, AddFirstRings
  <2>3. Moves(content, [content EXCEPT ![q] = <<p>> \o content[q]])
    BY <2>1 DEF Moves, AddFirst
  <2> QED  BY <2>1, <2>2, <2>3, <1>a DEF AddFirst
<1>8. ASSUME NEW h \in Heads, NEW n \in Heads, NEW r \in Queues, CutHead(h, n, r)
      PROVE  Goal
  BY <1>8, FreshCount, KeepRings DEF CutHead, Goal
<1>9. ASSUME NEW t \in Tails, NEW n \in Tails, NEW r \in Queues, CutTail(t, n, r)
      PROVE  Goal
  BY <1>9, FreshCount, KeepRings DEF CutTail, Goal
<1>10. ASSUME NEW h \in Heads, NEW t \in Tails, Splice(h, t)
       PROVE  Goal
  <2>1. qh_queue[h] \in Queues /\ qt_queue[t] \in Queues
    BY <1>10, LiveEnds DEF Splice, IsQueue
  <2>2. PICK q \in Queues, r \in Queues :
          /\ q # r /\ UNCHANGED q_max
          /\ o_next' = SplicedRings(q, r)
          /\ q_ptr' = SplicedLast(q, r)
          /\ q_count' = [q_count EXCEPT ![r] = @ + q_count[q], ![q] = 0]
    BY <1>10, <2>1 DEF Splice
  <2> DEFINE joined == [content EXCEPT ![r] = content[r] \o content[q], ![q] = <<>>]
  <2>3. Hold(joined)'
    BY <2>1, <2>2, <1>1, SpliceRings
  <2>4. Moves(content, joined)
    BY <2>1, <2>2 DEF Moves
  <2> HIDE DEF joined
  <2> QED  BY <2>2, <2>3, <2>4, <1>a
<1>11. Goal
  BY <1>2, <1>3, <1>4, <1>5, <1>6, <1>7, <1>8, <1>9, <1>10
     DEF Next, Build, Transfer, Surgery, Adjust, MakeTail, MakeHead, DeleteHead,
         DeleteTail, SetMax
<1> QED  BY <1>11 DEF Goal

LEMMA StepEmpty ==
  ASSUME TypeOK, EndsMatch, EmptyWhenFree, Next
  PROVE  EmptyWhenFree'
<1>1. ASSUME NEW q \in Queues, NEW m \in Maxes, NEW h \in Heads, NewHead(h, q, m)
      PROVE  EmptyWhenFree'
  BY <1>1 DEF NewHead, NewQueue, EmptyWhenFree, TypeOK
<1>2. ASSUME NEW q \in Queues, NEW m \in Maxes, NEW t \in Tails, NewTail(t, q, m)
      PROVE  EmptyWhenFree'
  BY <1>2 DEF NewTail, NewQueue, EmptyWhenFree, TypeOK
<1>3. ASSUME q_count' = q_count, heap \subseteq heap'
      PROVE  EmptyWhenFree'
  BY <1>3 DEF EmptyWhenFree
<1>4. ASSUME NEW h \in Heads, DeleteHead(h)
      PROVE  EmptyWhenFree'
  BY <1>4, IdentitiesAssumption DEF DeleteHead, EmptyWhenFree
<1>5. ASSUME NEW t \in Tails, DeleteTail(t)
      PROVE  EmptyWhenFree'
  BY <1>5, IdentitiesAssumption DEF DeleteTail, EmptyWhenFree
<1>6. ASSUME NEW q \in Queues, q \in heap, heap' = heap,
             \A r \in Queues : r # q => q_count'[r] = q_count[r]
      PROVE  EmptyWhenFree'
  BY <1>6 DEF EmptyWhenFree
<1>7. ASSUME NEW h \in Heads, Get(h)
      PROVE  EmptyWhenFree'
  <2>1. IsQueue(qh_queue[h])
    BY <1>7, LiveEnds DEF Get
  <2> QED  BY <2>1, <1>6, <1>7 DEF Get, Take, IsQueue, TypeOK
<1>8. ASSUME NEW t \in Tails, NEW p \in Items, Put(t, p)
      PROVE  EmptyWhenFree'
  <2>1. IsQueue(qt_queue[t])
    BY <1>8, LiveEnds DEF Put
  <2> QED  BY <2>1, <1>6, <1>8 DEF Put, Add, IsQueue, TypeOK
<1>9. ASSUME NEW h \in Heads, NEW p \in Items, PutBack(h, p)
      PROVE  EmptyWhenFree'
  <2>1. IsQueue(qh_queue[h])
    BY <1>9, LiveEnds DEF PutBack
  <2> QED  BY <2>1, <1>6, <1>9 DEF PutBack, AddFirst, IsQueue, TypeOK
<1>10. ASSUME NEW h \in Heads, NEW n \in Heads, NEW r \in Queues, CutHead(h, n, r)
       PROVE  EmptyWhenFree'
  BY <1>10 DEF CutHead, EmptyWhenFree, TypeOK
<1>11. ASSUME NEW t \in Tails, NEW n \in Tails, NEW r \in Queues, CutTail(t, n, r)
       PROVE  EmptyWhenFree'
  BY <1>11 DEF CutTail, EmptyWhenFree, TypeOK
<1>12. ASSUME NEW h \in Heads, NEW t \in Tails, Splice(h, t)
       PROVE  EmptyWhenFree'
  <2>1. IsQueue(qh_queue[h]) /\ IsQueue(qt_queue[t])
    BY <1>12, LiveEnds DEF Splice
  <2> QED  BY <2>1, <1>12, IdentitiesAssumption DEF Splice, EmptyWhenFree, IsQueue, IsHead, IsTail, TypeOK
<1> QED
  BY <1>1, <1>2, <1>3, <1>4, <1>5, <1>7, <1>8, <1>9, <1>10, <1>11, <1>12
     DEF Next, Build, Transfer, Surgery, Adjust, MakeTail, MakeHead, SetMax

RingInv == TypeOK /\ EndsMatch /\ EmptyWhenFree /\ RingsSound

LEMMA RingInvariant ==
  /\ Init => RingInv
  /\ RingInv /\ [Next]_queueVars => RingInv'
<1>1. Init => RingInv
  BY InitType, InitRings, HoldingSound DEF RingInv
<1>2. RingInv /\ [Next]_queueVars => RingInv'
  <2> SUFFICES ASSUME RingInv, [Next]_queueVars
               PROVE  RingInv'
    OBVIOUS
  <2>0. TypeOK /\ EndsMatch /\ EmptyWhenFree
    BY DEF RingInv
  <2>1. PICK content : Hold(content)
    BY DEF RingInv, RingsSound, Hold
  <2>2. CASE Next
    <3>1. TypeOK' /\ EndsMatch' /\ EmptyWhenFree'
      BY <2>0, <2>2, StepType, StepEnds, StepEmpty DEF RefusingNext
    <3>2. \E new : Hold(new)'
      BY <2>0, <2>1, <2>2, StepRings
    <3>3. RingsSound'
      BY <3>2 DEF RingsSound, Hold
    <3> QED  BY <3>1, <3>3 DEF RingInv
  <2>3. CASE UNCHANGED queueVars
    <3>1. TypeOK' /\ EndsMatch' /\ EmptyWhenFree'
      BY <2>0, <2>3
         DEF queueVars, TypeOK, EndsMatch, EmptyWhenFree, IsHead, IsTail, IsQueue
    <3>2. Hold(content)'
      BY <2>1, <2>3, KeepRings DEF queueVars
    <3>3. RingsSound'
      BY <3>2 DEF RingsSound, Hold
    <3> QED  BY <3>1, <3>3 DEF RingInv
  <2> QED  BY <2>2, <2>3
<1> QED  BY <1>1, <1>2

\* Every ring holds q_count objects, no object is on two of them, and an object
\* that is on none has o_next 0, through every order of put(), get(), putback(),
\* cut(), splice(), construction and destruction, for any number of queues, ends
\* and objects.
THEOREM RingsStaySound == Spec => []RingsSound
<1>1. RingInv => RingsSound
  BY DEF RingInv
<1> QED  BY <1>1, RingInvariant, PTL DEF Spec

----------------------------------------------------------------------------
(* The queues implement first-in first-out lines.                          *)

LEMMA RingUnique ==
  ASSUME NEW q \in Queues, NEW c \in Lines, NEW d \in Lines, IsRing(q, c), IsRing(q, d)
  PROVE  c = d
<1> DEFINE n == Len(c)
<1>1. /\ n \in Nat /\ Len(d) = n /\ c \in Seq(Items) /\ d \in Seq(Items)
      /\ n = q_count[q]
  BY LineElim DEF IsRing
<1>2. \A i \in 1..n : /\ o_next[c[i]] = IF i = n THEN c[1] ELSE c[i + 1]
                      /\ o_next[d[i]] = IF i = n THEN d[1] ELSE d[i + 1]
  BY <1>1, RingNext
<1>3. n > 0 => c[n] = d[n]
  BY <1>1 DEF IsRing
<1> HIDE DEF n
<1>4. \A i \in 1..n : c[i] = d[i]
  <2> DEFINE Differ == {i \in 1..n : c[i] # d[i]}
  <2>1. SUFFICES ASSUME Differ # {} PROVE FALSE
    OBVIOUS
  <2>2. Differ \in SUBSET Nat
    BY <1>1
  <2>3. PICK m \in Differ : \A k \in Differ : ~ (<<k, m>> \in OpToRel(<, Nat))
    <3> HIDE DEF Differ
    <3> QED  BY <2>1, <2>2, NatLessThanWellFounded, WFMin
  <2>4. m \in 1..n /\ c[m] # d[m]
    OBVIOUS
  <2>5. \A k \in Differ : ~ (k < m)
    BY <2>2, <2>3 DEF OpToRel
  <2>6. n > 0 /\ n \in 1..n
    BY <1>1, <2>4
  <2>7. c[1] = d[1]
    BY <1>2, <1>3, <2>6
  <2>8. m - 1 \in 1..n /\ m - 1 # n /\ m - 1 < m /\ (m - 1) + 1 = m
    BY <1>1, <2>4, <2>7
  <2>9. c[m - 1] = d[m - 1]
    BY <2>5, <2>8
  <2> QED  BY <1>2, <2>4, <2>8, <2>9
<1> QED  BY <1>1, <1>4, SeqEqual DEF n

\* What the mapping reads is what the queues hold.
RingsRead == \A content : Hold(content) => \A q \in Queues : Ring(q) = content[q]

LEMMA RingsAreRead == RingsRead
<1> SUFFICES ASSUME NEW content, Hold(content), NEW q \in Queues PROVE Ring(q) = content[q]
  BY DEF RingsRead
<1>1. content[q] \in Lines /\ IsRing(q, content[q])
  BY DEF Hold, AreRings
<1>2. Ring(q) \in Lines /\ IsRing(q, Ring(q))
  BY <1>1 DEF Ring
<1> QED  BY <1>1, <1>2, RingUnique

LEMMA FifoMoves ==
  ASSUME NEW content, Hold(content), NEW new, Hold(new)', Moves(content, new), UNCHANGED q_max
  PROVE  Fifo!Move
<1>1. /\ content \in [Queues -> Lines] /\ AreRings(content) /\ new \in [Queues -> Lines]
      /\ \A q \in Queues : Ring(q) = content[q]
      /\ \A q \in Queues : Ring(q)' = new[q]
  <2>1. RingsRead /\ RingsRead'
    BY RingsAreRead, PTL
  <2> QED  BY <2>1 DEF RingsRead, Hold
<1>2. CASE \E q \in Queues :
             content[q] # <<>> /\ new = [content EXCEPT ![q] = Tail(content[q])]
  <2>1. PICK q \in Queues :
          content[q] # <<>> /\ new = [content EXCEPT ![q] = Tail(content[q])]
    BY <1>2
  <2>2. new[q] = Tail(content[q]) /\ \A r \in Queues : r # q => new[r] = content[r]
    BY <1>1, <2>1
  <2>3. Fifo!Only({q})
    BY <1>1, <2>2 DEF Fifo!Only
  <2>4. Fifo!Get(q)
    BY <1>1, <2>1, <2>2, <2>3 DEF Fifo!Get
  <2> QED  BY <2>4 DEF Fifo!Move
<1>3. CASE \E q \in Queues, p \in Items :
             /\ HasRoom(q) /\ o_next[p] = None
             /\ \/ new = [content EXCEPT ![q] = Append(content[q], p)]
                \/ new = [content EXCEPT ![q] = <<p>> \o content[q]]
  <2>1. PICK q \in Queues, p \in Items :
             /\ HasRoom(q) /\ o_next[p] = None
             /\ \/ new = [content EXCEPT ![q] = Append(content[q], p)]
                \/ new = [content EXCEPT ![q] = <<p>> \o content[q]]
    BY <1>3
  <2>2. /\ new[q] = Append(content[q], p) \/ new[q] = <<p>> \o content[q]
        /\ \A r \in Queues : r # q => new[r] = content[r]
    BY <1>1, <2>1
  <2>3. Fifo!Only({q})
    BY <1>1, <2>2 DEF Fifo!Only
  <2>4. ~ Fifo!Queued(p)
    BY <1>1, <2>1, OffQueue DEF Fifo!Queued
  <2>5. Fifo!Room(q)
    BY <1>1, <2>1 DEF Fifo!Room, HasRoom, AreRings, IsRing
  <2>6. Fifo!Put(q) \/ Fifo!PutBack(q)
    BY <1>1, <2>2, <2>3, <2>4, <2>5 DEF Fifo!Put, Fifo!PutBack
  <2> QED  BY <2>6 DEF Fifo!Move
<1>4. CASE \E q, r \in Queues :
             q # r /\ new = [content EXCEPT ![r] = content[r] \o content[q], ![q] = <<>>]
  <2>1. PICK q \in Queues, r \in Queues :
          q # r /\ new = [content EXCEPT ![r] = content[r] \o content[q], ![q] = <<>>]
    BY <1>4
  <2>2. /\ new[q] = <<>> /\ new[r] = content[r] \o content[q]
        /\ \A u \in Queues : u # q /\ u # r => new[u] = content[u]
    BY <1>1, <2>1
  <2>3. Fifo!Only({q, r})
    BY <1>1, <2>2 DEF Fifo!Only
  <2>4. Fifo!Join(q, r)
    BY <1>1, <2>1, <2>2, <2>3 DEF Fifo!Join
  <2> QED  BY <2>4 DEF Fifo!Move
<1> QED  BY <1>2, <1>3, <1>4 DEF Moves

\* The lines as users see them do not change.
LEMMA FifoStays ==
  ASSUME NEW content, Hold(content), Hold(content)'
  PROVE  UNCHANGED [q \in Queues |-> Ring(q)]
<1>1. RingsRead /\ RingsRead'
  BY RingsAreRead, PTL
<1>2. \A q \in Queues : Ring(q)' = Ring(q)
  BY <1>1 DEF RingsRead
<1> QED  BY <1>2

\* put(), get(), putback(), cut() and splice() on rings are what users of bounded
\* first-in first-out lines may rely on: nothing is lost, doubled or overtaken,
\* and a spliced line goes behind what the other holds (qhead.c, qtail.c).
THEOREM QueuesAreFifo == Spec => FirstInFirstOut
<1>1. Init => Fifo!Init
  <2> SUFFICES ASSUME Init PROVE Fifo!Init
    OBVIOUS
  <2>1. \A q \in Queues : Ring(q) = <<>>
    BY InitRings, RingsAreRead DEF RingsRead
  <2>2. q_max \in [Queues -> Nat \ {0}]
    BY InitType DEF TypeOK
  <2> QED  BY <2>1, <2>2 DEF Fifo!Init
<1>2. RingInv /\ RingInv' /\ [Next]_queueVars => [Fifo!Next]_(Fifo!fifoVars)
  <2> SUFFICES ASSUME RingInv, RingInv', [Next]_queueVars
               PROVE  [Fifo!Next]_(Fifo!fifoVars)
    OBVIOUS
  <2>1. PICK content : Hold(content)
    BY DEF RingInv, RingsSound, Hold
  <2>2. CASE \E new : Hold(new)' /\ Moves(content, new) /\ UNCHANGED q_max
    BY <2>1, <2>2, FifoMoves DEF Fifo!Next
  <2>3. CASE Hold(content)'
    <3>1. UNCHANGED [q \in Queues |-> Ring(q)]
      BY <2>1, <2>3, FifoStays
    <3>2. q_max' \in [Queues -> Nat \ {0}]
      BY DEF RingInv, TypeOK
    <3> QED  BY <3>1, <3>2 DEF Fifo!Next, Fifo!SetLimits
  <2>4. UNCHANGED queueVars => Hold(content)'
    BY <2>1, KeepRings DEF queueVars
  <2>5. Next => \/ Hold(content)'
                \/ \E new : Hold(new)' /\ Moves(content, new) /\ UNCHANGED q_max
    BY <2>1, StepRings DEF RingInv
  <2> QED  BY <2>2, <2>3, <2>4, <2>5
<1> QED  BY <1>1, <1>2, RingInvariant, PTL DEF Spec, FirstInFirstOut, Fifo!Spec
=============================================================================
