-------------------------- MODULE TaskSchedProofs --------------------------
(***************************************************************************)
(* Proofs about TaskSched, for any tasks, timers, objects and any set of   *)
(* calls the program makes.                                                *)
(***************************************************************************)
EXTENDS TaskSched, SequenceTheorems, FiniteSetTheorems, WellFoundedInduction, TLAPS

(***************************************************************************)
(* Chains.                                                                 *)
(***************************************************************************)

(* A function on an initial segment of the naturals is a sequence.         *)
LEMMA FunIsSeq ==
  ASSUME NEW S, NEW n \in Nat, NEW f \in [1..n -> S]
  PROVE  f \in Seq(S) /\ Len(f) = n /\ DOMAIN f = 1..n
<1>1. f \in Seq(S)
  BY SeqDef
<1>2. Len(f) \in Nat /\ DOMAIN f = 1..Len(f)
  BY <1>1, LenProperties
<1> QED  BY <1>1, <1>2

LEMMA AtIsIndex ==
  ASSUME NEW c, NEW x \in Elems(c)
  PROVE  At(c, x) \in DOMAIN c /\ c[At(c, x)] = x
BY DEF At, Elems

(* Removing x gives a chain one shorter if x is on it.                     *)
LEMMA WithoutSeq ==
  ASSUME NEW S, NEW c \in Seq(S), NEW x
  PROVE  /\ Without(c, x) \in Seq(S)
         /\ x \in Elems(c) =>
              /\ At(c, x) \in 1..Len(c)
              /\ c[At(c, x)] = x
              /\ Len(Without(c, x)) = Len(c) - 1
              /\ \A j \in 1..(Len(c) - 1) :
                   Without(c, x)[j] = IF j < At(c, x) THEN c[j] ELSE c[j + 1]
<1>1. Len(c) \in Nat /\ c \in [1..Len(c) -> S] /\ DOMAIN c = 1..Len(c)
  BY LenProperties
<1>2. CASE x \notin Elems(c)
  BY <1>2 DEF Without
<1>3. CASE x \in Elems(c)
  <2> DEFINE k == At(c, x)
             f == [j \in 1..(Len(c) - 1) |-> IF j < k THEN c[j] ELSE c[j + 1]]
  <2>1. k \in 1..Len(c) /\ c[k] = x
    BY <1>1, <1>3, AtIsIndex
  <2>2. Without(c, x) = f
    BY <1>3 DEF Without
  <2> HIDE DEF k
  <2>3. Len(c) - 1 \in Nat
    BY <1>1, <2>1
  <2>4. f \in [1..(Len(c) - 1) -> S]
    BY <1>1, <2>1
  <2>5. f \in Seq(S) /\ Len(f) = Len(c) - 1
    BY <2>3, <2>4, FunIsSeq
  <2> QED  BY <2>1, <2>2, <2>5 DEF k
<1> QED  BY <1>2, <1>3

(* Splicing w into c behind its first k elements.                          *)
LEMMA SpliceSeq ==
  ASSUME NEW S, NEW c \in Seq(S), NEW w \in Seq(S), NEW k \in 0..Len(c)
  PROVE  /\ SpliceAt(c, k, w) \in Seq(S)
         /\ Len(SpliceAt(c, k, w)) = Len(c) + Len(w)
         /\ \A j \in 1..(Len(c) + Len(w)) :
              SpliceAt(c, k, w)[j] =
                IF j <= k THEN c[j]
                ELSE IF j <= k + Len(w) THEN w[j - k] ELSE c[j - Len(w)]
<1>1. /\ Len(c) \in Nat /\ c \in [1..Len(c) -> S]
      /\ Len(w) \in Nat /\ w \in [1..Len(w) -> S]
  BY LenProperties
<1> DEFINE f == SpliceAt(c, k, w)
<1>2. f = [j \in 1..(Len(c) + Len(w)) |->
             IF j <= k THEN c[j]
             ELSE IF j <= k + Len(w) THEN w[j - k] ELSE c[j - Len(w)]]
  BY DEF SpliceAt
<1>3. ASSUME NEW j \in 1..(Len(c) + Len(w))
      PROVE  f[j] \in S
  <2>1. CASE j <= k
    BY <1>1, <1>2, <2>1
  <2>2. CASE ~(j <= k) /\ j <= k + Len(w)
    <3>1. j - k \in 1..Len(w)
      BY <1>1, <2>2
    <3> QED  BY <1>1, <1>2, <2>2, <3>1
  <2>3. CASE ~(j <= k) /\ ~(j <= k + Len(w))
    <3>1. j - Len(w) \in 1..Len(c)
      BY <1>1, <2>3
    <3> QED  BY <1>1, <1>2, <2>3, <3>1
  <2> QED  BY <1>1, <2>1, <2>2, <2>3
<1>4. f \in [1..(Len(c) + Len(w)) -> S]
  <2> HIDE DEF f
  <2> QED  BY <1>2, <1>3
<1>5. Len(c) + Len(w) \in Nat
  BY <1>1
<1>6. f \in Seq(S) /\ Len(f) = Len(c) + Len(w)
  BY <1>4, <1>5, FunIsSeq
<1> QED  BY <1>2, <1>6

LEMMA ConsSeq ==
  ASSUME NEW S, NEW c \in Seq(S), NEW x \in S
  PROVE  /\ <<x>> \o c \in Seq(S)
         /\ Len(<<x>> \o c) = Len(c) + 1
         /\ \A i \in 1..(Len(c) + 1) :
              (<<x>> \o c)[i] = IF i = 1 THEN x ELSE c[i - 1]
<1>1. <<x>> \in Seq(S) /\ Len(<<x>>) = 1 /\ <<x>>[1] = x
  OBVIOUS
<1>2. Len(c) \in Nat
  BY LenProperties
<1> QED  BY <1>1, <1>2, ConcatProperties

LEMMA RememberingSeq ==
  ASSUME NEW S, NEW c \in Seq(S), NEW t \in S
  PROVE  Remembering(c, t) \in Seq(S)
BY WithoutSeq, ConsSeq DEF Remembering

(* insert() finds its place: it walks past exactly the scheds in front that *)
(* are not due later.                                                      *)
LEMMA WalkPastPlace ==
  ASSUME NEW S, NEW c \in Seq(S), NEW time \in [S -> Int], NEW tt \in Int
  PROVE  LET k == WalkPast(c, time, tt) IN
         /\ k \in 0..Len(c)
         /\ \A i \in 1..k : time[c[i]] <= tt
         /\ k < Len(c) => tt < time[c[k + 1]]
<1>1. Len(c) \in Nat /\ c \in [1..Len(c) -> S]
  BY LenProperties
<1> DEFINE P(k) == /\ \A i \in 1..k : ~(tt < time[c[i]])
                   /\ k < Len(c) => tt < time[c[k + 1]]
           T == {i \in 1..Len(c) : tt < time[c[i]]}
<1>2. \E k \in 0..Len(c) : P(k)
  <2>1. CASE T = {}
    <3>1. P(Len(c))
      BY <1>1, <2>1
    <3> QED  BY <1>1, <3>1
  <2>2. CASE T # {}
    <3>1. T \subseteq Nat
      BY <1>1
    <3>2. PICK m \in T : \A i \in T : ~(<<i, m>> \in OpToRel(<, Nat))
      <4> HIDE DEF T
      <4> QED  BY <2>2, <3>1, NatLessThanWellFounded, WFMin
    <3>3. \A i \in T : ~(i < m)
      BY <3>1, <3>2 DEF OpToRel
    <3>4. m - 1 \in 0..Len(c) /\ P(m - 1)
      BY <1>1, <3>3
    <3> QED  BY <3>4
  <2> QED  BY <2>1, <2>2
<1>3. WalkPast(c, time, tt) \in 0..Len(c) /\ P(WalkPast(c, time, tt))
  BY <1>2 DEF WalkPast
<1>4. \A i \in 1..Len(c) : time[c[i]] \in Int
  BY <1>1
<1> QED  BY <1>1, <1>3, <1>4

(***************************************************************************)
(* What insert() and alert() leave.                                        *)
(***************************************************************************)

(* alert() splices some IDLE tasks into the run chain at one place.        *)
LEMMA AlertedSplice ==
  ASSUME o_link \in [Objects -> Seq(Tasks)], NEW o \in Objects,
         NEW st, NEW time, NEW rc, NEW now, Alerted(o, st, time, rc, now)
  PROVE  \E w \in Seq(Tasks) :
           /\ runchain' = SpliceAt(rc, WalkPast(rc, time, now), w)
           /\ \A i \in 1..Len(w) : st[w[i]] = "IDLE"
           /\ \A i, j \in 1..Len(w) : w[i] = w[j] => i = j
           /\ s_state' = [s \in Scheds |->
                            IF \E i \in 1..Len(w) : w[i] = s THEN "RUNNING" ELSE st[s]]
           /\ s_time'  = [s \in Scheds |->
                            IF \E i \in 1..Len(w) : w[i] = s THEN now ELSE time[s]]
           /\ o_link'  = [o_link EXCEPT ![o] = <<>>]
<1> DEFINE W == Idlers(o, st)
<1>0. W \subseteq Tasks /\ \A t \in W : st[t] = "IDLE" /\ t \in Elems(o_link[o])
  <2>1. o_link[o] \in Seq(Tasks)
    OBVIOUS
  <2>2. Elems(o_link[o]) \subseteq Tasks
    BY <2>1, LenProperties DEF Elems
  <2> QED  BY <2>2 DEF Idlers
<1>1. IsFiniteSet(W)
  <2> HIDE DEF W
  <2> QED  BY <1>0, IdentitiesAssumption, FS_Subset
<1>2. Cardinality(W) \in Nat
  <2> HIDE DEF W
  <2> QED  BY <1>1, FS_CardinalityType
<1>3. PICK w \in WakeOrders(o, W) : runchain' = SpliceAt(rc, WalkPast(rc, time, now), w)
  BY DEF Alerted
<1>4. /\ w \in [1..Cardinality(W) -> W]
      /\ \A i, j \in DOMAIN w : i < j => At(o_link[o], w[i]) < At(o_link[o], w[j])
      /\ \A t \in W : \E i \in DOMAIN w : w[i] = t
  <2> HIDE DEF W
  <2> QED  BY <1>3 DEF WakeOrders
<1> HIDE DEF W
<1>5. w \in Seq(Tasks) /\ Len(w) = Cardinality(W) /\ DOMAIN w = 1..Len(w)
  <2>1. w \in [1..Cardinality(W) -> Tasks]
    BY <1>0, <1>4
  <2> QED  BY <1>2, <2>1, FunIsSeq
<1>6. \A i, j \in 1..Len(w) : w[i] = w[j] => i = j
  <2> SUFFICES ASSUME NEW i \in 1..Len(w), NEW j \in 1..Len(w), i < j
               PROVE  w[i] # w[j]
    BY <1>2, <1>5
  <2>1. At(o_link[o], w[i]) < At(o_link[o], w[j])
    BY <1>4, <1>5
  <2>2. At(o_link[o], w[i]) \in Int
    <3>1. w[i] \in Elems(o_link[o])
      BY <1>0, <1>4, <1>5
    <3>2. At(o_link[o], w[i]) \in DOMAIN o_link[o]
      BY <3>1, AtIsIndex
    <3>3. o_link[o] \in Seq(Tasks)
      OBVIOUS
    <3> QED  BY <3>2, <3>3, LenProperties
  <2> QED  BY <2>1, <2>2
<1>7. \A s : s \in W <=> \E i \in 1..Len(w) : w[i] = s
  BY <1>4, <1>5
<1>8. \A i \in 1..Len(w) : st[w[i]] = "IDLE"
  BY <1>0, <1>7
<1>9. /\ s_state' = [s \in Scheds |-> IF s \in W THEN "RUNNING" ELSE st[s]]
      /\ s_time'  = [s \in Scheds |-> IF s \in W THEN now ELSE time[s]]
      /\ o_link'  = [o_link EXCEPT ![o] = <<>>]
  BY DEF Alerted, W
<1>10. /\ s_state' = [s \in Scheds |->
                       IF \E i \in 1..Len(w) : w[i] = s THEN "RUNNING" ELSE st[s]]
       /\ s_time'  = [s \in Scheds |->
                       IF \E i \in 1..Len(w) : w[i] = s THEN now ELSE time[s]]
  BY <1>7, <1>9
<1> QED  BY <1>3, <1>5, <1>6, <1>8, <1>9, <1>10

LEMMA AlertedType ==
  ASSUME o_link \in [Objects -> Seq(Tasks)], NEW o \in Objects,
         NEW st \in [Scheds -> States], NEW time \in [Scheds -> Int],
         NEW rc \in Seq(Scheds), NEW now \in Int, Alerted(o, st, time, rc, now)
  PROVE  /\ runchain' \in Seq(Scheds)
         /\ s_state' \in [Scheds -> States]
         /\ s_time' \in [Scheds -> Int]
         /\ o_link' \in [Objects -> Seq(Tasks)]
<1>1. PICK w \in Seq(Tasks) :
        /\ runchain' = SpliceAt(rc, WalkPast(rc, time, now), w)
        /\ \A i \in 1..Len(w) : st[w[i]] = "IDLE"
        /\ \A i, j \in 1..Len(w) : w[i] = w[j] => i = j
        /\ s_state' = [s \in Scheds |->
                         IF \E i \in 1..Len(w) : w[i] = s THEN "RUNNING" ELSE st[s]]
        /\ s_time'  = [s \in Scheds |->
                         IF \E i \in 1..Len(w) : w[i] = s THEN now ELSE time[s]]
        /\ o_link'  = [o_link EXCEPT ![o] = <<>>]
  BY AlertedSplice
<1>2. WalkPast(rc, time, now) \in 0..Len(rc)
  BY WalkPastPlace
<1>3. w \in Seq(Scheds)
  BY SeqMonotonic DEF Scheds
<1>4. runchain' \in Seq(Scheds)
  BY <1>1, <1>2, <1>3, SpliceSeq
<1>5. <<>> \in Seq(Tasks)
  OBVIOUS
<1> QED  BY <1>1, <1>4, <1>5 DEF States

LEMMA InsertedType ==
  ASSUME TypeOK, NEW s \in Scheds, NEW d \in Int, NEW rc \in Seq(Scheds),
         Inserted(s, d, rc)
  PROVE  /\ runchain' \in Seq(Scheds)
         /\ s_state' \in [Scheds -> States]
         /\ s_time' \in [Scheds -> Int]
<1>1. WalkPast(rc, s_time, clxck + d) \in 0..Len(rc)
  <2>1. s_time \in [Scheds -> Int] /\ clxck + d \in Int
    BY DEF TypeOK
  <2> QED  BY <2>1, WalkPastPlace
<1>2. <<s>> \in Seq(Scheds)
  OBVIOUS
<1>3. runchain' \in Seq(Scheds)
  BY <1>1, <1>2, SpliceSeq DEF Inserted
<1> QED  BY <1>3 DEF Inserted, TypeOK, States

LEMMA CancelledType ==
  ASSUME TypeOK, NEW s \in Scheds, NEW val \in Int, Cancelled(s, val)
  PROVE  /\ runchain' \in Seq(Scheds)
         /\ s_state' \in [Scheds -> States]
         /\ s_time' \in [Scheds -> Int]
         /\ o_link' \in [Objects -> Seq(Tasks)]
<1> DEFINE st == [s_state EXCEPT ![s] = "TERMINATED"]
           time == [s_time EXCEPT ![s] = val]
           rc == IF s_state[s] = "RUNNING" THEN Without(runchain, s) ELSE runchain
<1>1. st \in [Scheds -> States] /\ time \in [Scheds -> Int]
  BY DEF TypeOK, States
<1>2. rc \in Seq(Scheds)
  BY WithoutSeq DEF TypeOK
<1>3. Alerted(s, st, time, rc, clxck)
  BY DEF Cancelled
<1>4. s \in Objects /\ clxck \in Int /\ o_link \in [Objects -> Seq(Tasks)]
  BY DEF TypeOK, Objects
<1> HIDE DEF st, time, rc
<1> QED  BY <1>1, <1>2, <1>3, <1>4, AlertedType

LEMMA RemovedType ==
  ASSUME TypeOK, NEW s \in Scheds, RemovedIfRunning(s)
  PROVE  runchain' \in Seq(Scheds) /\ s_state' \in [Scheds -> States]
<1>1. runchain \in Seq(Scheds) /\ s_state \in [Scheds -> States]
  BY DEF TypeOK
<1>2. Without(runchain, s) \in Seq(Scheds)
  BY <1>1, WithoutSeq
<1> QED  BY <1>1, <1>2 DEF RemovedIfRunning, States

(* The step of TypeOK, for the calls of user code.                         *)
LEMMA UserCallType ==
  ASSUME TypeOK, UserCall
  PROVE  TypeOK'
<1> USE DEF Calling, Scheds
<1>1. ASSUME NEW e \in Errors, Fail(e)
      PROVE  TypeOK'
  BY <1>1 DEF Fail, TypeOK, Phases
<1>2. ASSUME NEW t \in Tasks, NewTask(t)
      PROVE  TypeOK'
  <2>1. CASE InsertError(thistask, 0) # "none"
    <3>1. Fail(InsertError(thistask, 0))
      BY <1>2, <2>1 DEF NewTask
    <3>2. InsertError(thistask, 0) \in Errors
      BY DEF InsertError, Errors
    <3> QED  BY <1>1, <3>1, <3>2
  <2>2. CASE InsertError(thistask, 0) = "none"
    <3>1. WalkPast(runchain, s_time, clxck) \in 0..Len(runchain)
      BY WalkPastPlace DEF TypeOK
    <3>2. <<thistask>> \in Seq(Scheds)
      BY DEF TypeOK
    <3>3. runchain' \in Seq(Scheds)
      <4>1. runchain' = SpliceAt(runchain, WalkPast(runchain, s_time, clxck), <<thistask>>)
        BY <1>2, <2>2 DEF NewTask
      <4>2. runchain \in Seq(Scheds)
        BY DEF TypeOK
      <4> QED  BY <3>1, <3>2, <4>1, <4>2, SpliceSeq
    <3> QED  BY <1>2, <2>2, <3>3 DEF NewTask, TypeOK, States
  <2> QED  BY <2>1, <2>2
<1>3. ASSUME NEW m \in Timers, NEW d \in Delays, SetTimer(m, d)
      PROVE  TypeOK'
  <2>1. CASE d < 0 /\ Fail("E_NEGTIME")
    BY <1>1, <2>1 DEF Errors
  <2>2. CASE d >= 0 /\ Inserted(m, d, Without(runchain, m))
    <3>1. Without(runchain, m) \in Seq(Scheds)
      BY WithoutSeq DEF TypeOK
    <3>2. d \in Int
      BY BoundsAssumption
    <3>3. /\ runchain' \in Seq(Scheds)
          /\ s_state' \in [Scheds -> States]
          /\ s_time' \in [Scheds -> Int]
      BY <2>2, <3>1, <3>2, InsertedType
    <3>4. d < 0 => FALSE
      BY <2>2, <3>2
    <3> QED  BY <1>3, <3>3, <3>4 DEF SetTimer, TypeOK
  <2> QED  BY <1>3, <2>1, <2>2 DEF SetTimer
<1>4. ASSUME NEW t \in Tasks, NEW d \in Delays, Delay(t, d)
      PROVE  TypeOK'
  <2>1. CASE Fail(InsertError(t, d))
    BY <1>1, <2>1 DEF InsertError, Errors, Fail, TypeOK, Phases
  <2>2. CASE Inserted(t, d, runchain) /\ ~Fail(InsertError(t, d))
    <3>1. d \in Int
      BY BoundsAssumption
    <3>2. /\ runchain' \in Seq(Scheds)
          /\ s_state' \in [Scheds -> States]
          /\ s_time' \in [Scheds -> Int]
      BY <2>2, <3>1, InsertedType DEF TypeOK
    <3> QED  BY <1>4, <2>2, <3>2 DEF Delay, TypeOK, GoesOn, Phases
  <2> QED  BY <1>4, <2>1, <2>2 DEF Delay
<1>5. ASSUME NEW t \in Tasks, NEW o \in Objects \cup {None}, Sleep(t, o)
      PROVE  TypeOK'
  <2>1. runchain' \in Seq(Scheds) /\ s_state' \in [Scheds -> States]
    BY <1>5, RemovedType DEF Sleep
  <2>2. o_link' \in [Objects -> Seq(Tasks)]
    <3>1. ASSUME o # None PROVE Remembering(o_link[o], t) \in Seq(Tasks)
      BY <3>1, RememberingSeq DEF TypeOK
    <3> QED  BY <1>5, <3>1 DEF Sleep, TypeOK
  <2> QED  BY <1>5, <2>1, <2>2 DEF Sleep, TypeOK, GoesOn, Phases
<1>6. ASSUME NEW t \in Tasks, Preempt(t)
      PROVE  TypeOK'
  <2>1. CASE Fail("E_TASKPRE")
    BY <1>1, <2>1 DEF Errors
  <2>2. CASE ~Fail("E_TASKPRE")
    <3>1. runchain' \in Seq(Scheds) /\ s_state' \in [Scheds -> States]
      BY <1>6, <2>2, RemovedType DEF Preempt
    <3> QED  BY <1>6, <2>2, <3>1 DEF Preempt, TypeOK
  <2> QED  BY <2>1, <2>2
<1>7. ASSUME NEW s \in Scheds, NEW val \in Results, Cancel(s, val)
      PROVE  TypeOK'
  <2>1. val \in Int
    BY BoundsAssumption
  <2>2. /\ runchain' \in Seq(Scheds)
        /\ s_state' \in [Scheds -> States]
        /\ s_time' \in [Scheds -> Int]
        /\ o_link' \in [Objects -> Seq(Tasks)]
    BY <1>7, <2>1, CancelledType DEF Cancel, TypeOK
  <2> QED  BY <1>7, <2>2 DEF Cancel, TypeOK
<1>8. ASSUME NEW t \in Tasks, NEW val \in Results, ResultIs(t, val)
      PROVE  TypeOK'
  <2>1. val \in Int
    BY BoundsAssumption
  <2>2. /\ runchain' \in Seq(Scheds)
        /\ s_state' \in [Scheds -> States]
        /\ s_time' \in [Scheds -> Int]
        /\ o_link' \in [Objects -> Seq(Tasks)]
    BY <1>8, <2>1, CancelledType DEF ResultIs, TypeOK
  <2> QED  BY <1>8, <2>2 DEF ResultIs, TypeOK, GoesOn, Phases
<1>9. ASSUME NEW loop \in {"wait", "waitvec"}, NEW S \in SUBSET Objects,
             phase = "user", Enter(loop, S)
      PROVE  TypeOK'
  BY <1>9 DEF Enter, TypeOK, Calls
<1>10. ASSUME NEW s \in Scheds, Result(s)
       PROVE  TypeOK'
  BY <1>1, <1>9, <1>10 DEF Result, Errors, Objects
<1>11. ASSUME NEW o \in Objects, Wait(o)
       PROVE  TypeOK'
  BY <1>1, <1>9, <1>11 DEF Wait, Errors
<1>12. ASSUME NEW S \in Lists, WaitVec(S)
       PROVE  TypeOK'
  BY <1>9, <1>12, BoundsAssumption DEF WaitVec
<1>13. ASSUME NEW o \in Objects, NEW t \in Tasks, Remember(o, t)
       PROVE  TypeOK'
  <2>1. Remembering(o_link[o], t) \in Seq(Tasks)
    BY RememberingSeq DEF TypeOK
  <2> QED  BY <1>13, <2>1 DEF Remember, TypeOK
<1>14. ASSUME NEW o \in Objects, NEW t \in Tasks, Forget(o, t)
       PROVE  TypeOK'
  <2>1. Without(o_link[o], t) \in Seq(Tasks)
    BY WithoutSeq DEF TypeOK
  <2> QED  BY <1>14, <2>1 DEF Forget, TypeOK
<1>15. ASSUME NEW o \in Objects, Alert(o)
       PROVE  TypeOK'
  <2>1. /\ runchain' \in Seq(Scheds)
        /\ s_state' \in [Scheds -> States]
        /\ s_time' \in [Scheds -> Int]
        /\ o_link' \in [Objects -> Seq(Tasks)]
    BY <1>15, AlertedType DEF Alert, TypeOK
  <2> QED  BY <1>15, <2>1 DEF Alert, TypeOK
<1>16. ASSUME NEW t \in Times, SetClock(t)
       PROVE  TypeOK'
  <2>1. t \in Int
    BY BoundsAssumption DEF Times
  <2> QED  BY <1>1, <1>16, <2>1 DEF SetClock, TypeOK, Errors
<1>17. ASSUME NEW s \in Scheds, SetPrioritySched(s)
       PROVE  TypeOK'
  BY <1>17 DEF SetPrioritySched, TypeOK
<1>18. ASSUME NEW t \in Tasks, SetClockTask(t)
       PROVE  TypeOK'
  BY <1>18 DEF SetClockTask, TypeOK
<1>19. ASSUME NEW n \in {1, -1}, KeepWaiting(n)
       PROVE  TypeOK'
  BY <1>19 DEF KeepWaiting, TypeOK
<1> QED
  BY <1>2, <1>3, <1>4, <1>5, <1>6, <1>7, <1>8, <1>10, <1>11, <1>12, <1>13, <1>14,
     <1>15, <1>16, <1>17, <1>18, <1>19 DEF UserCall

(* The step of TypeOK, for wait loops and schedule().                      *)
LEMMA SystemType ==
  ASSUME TypeOK,
         WaitReturns \/ WaitVecReturns \/ LoopSleeps \/ Schedule \/ PauseReturns
  PROVE  TypeOK'
<1> USE DEF Scheds
<1>1. ASSUME NEW e \in Errors, Fail(e)
      PROVE  TypeOK'
  BY <1>1 DEF Fail, TypeOK, Phases
<1>2. NotInCall \in Calls
  BY DEF NotInCall, Calls
<1>3. ASSUME WaitReturns
      PROVE  TypeOK'
  BY <1>2, <1>3 DEF WaitReturns, Return, TypeOK
<1>4. ASSUME WaitVecReturns
      PROVE  TypeOK'
  <2>1. \A o \in Objects : Without(o_link[o], thistask) \in Seq(Tasks)
    BY WithoutSeq DEF TypeOK
  <2>2. o_link' \in [Objects -> Seq(Tasks)]
    BY <1>4, <2>1 DEF WaitVecReturns, TypeOK
  <2> QED  BY <1>2, <1>4, <2>2 DEF WaitVecReturns, Return, TypeOK
<1>5. ASSUME LoopSleeps
      PROVE  TypeOK'
  <2>1. CASE Fail("E_WAIT")
    BY <1>1, <2>1 DEF Errors
  <2>2. CASE ~Fail("E_WAIT")
    <3>1. \A o \in Objects : Remembering(o_link[o], thistask) \in Seq(Tasks)
      BY RememberingSeq DEF TypeOK
    <3>2. o_link' \in [Objects -> Seq(Tasks)]
      BY <1>5, <2>2, <3>1 DEF LoopSleeps, TypeOK
    <3>3. thistask \in Scheds
      BY DEF TypeOK
    <3>4. runchain' \in Seq(Scheds) /\ s_state' \in [Scheds -> States]
      BY <1>5, <2>2, <3>3, RemovedType DEF LoopSleeps
    <3>5. phase # "picked"
      BY <1>5 DEF LoopSleeps, InLoop
    <3> QED  BY <1>5, <2>2, <3>2, <3>4, <3>5 DEF LoopSleeps, InLoop, TypeOK, Phases
  <2> QED  BY <2>1, <2>2
<1>6. ASSUME PickPriority
      PROVE  TypeOK'
  <2>1. priority_sched \in Scheds
    BY <1>6 DEF PickPriority, HasPriority, TypeOK
  <2>2. Without(runchain, priority_sched) \in Seq(Scheds)
    BY WithoutSeq DEF TypeOK
  <2> QED  BY <1>6, <2>1, <2>2 DEF PickPriority, TypeOK, States, Phases
<1>7. ASSUME PickFront
      PROVE  TypeOK'
  <2>1. Head(runchain) \in Scheds /\ Tail(runchain) \in Seq(Scheds)
    BY <1>7, HeadTailProperties DEF PickFront, TypeOK
  <2> QED  BY <1>7, <2>1 DEF PickFront, TypeOK, Phases
<1>8. ASSUME NothingToRun
      PROVE  TypeOK'
  <2>1. s_state' \in [Scheds -> States] /\ s_time' \in [Scheds -> Int]
    BY <1>8 DEF NothingToRun, TypeOK, States
  <2> QED  BY <1>8, <2>1 DEF NothingToRun, TypeOK, Phases
<1>9. ASSUME BadTime
      PROVE  TypeOK'
  BY <1>1, <1>9 DEF BadTime, Errors
<1>10. ASSUME ResumeTask
       PROVE  TypeOK'
  <2>1. s_time[picked] \in Int
    BY <1>10 DEF ResumeTask, TypeOK
  <2> QED  BY <1>10, <2>1 DEF ResumeTask, TypeOK, Phases
<1>11. ASSUME ResumeClockTask
       PROVE  TypeOK'
  <2>1. picked \in Scheds /\ s_time[picked] \in Int
    BY <1>11 DEF ResumeClockTask, TypeOK
  <2>2. <<picked>> \o runchain \in Seq(Scheds)
    BY <2>1, ConsSeq DEF TypeOK
  <2> QED  BY <1>11, <2>1, <2>2 DEF ResumeClockTask, PutBack, Ticks, TypeOK, Phases
<1>12. ASSUME FireTimer
       PROVE  TypeOK'
  <2>1. picked \in Scheds /\ picked \in Objects /\ s_time[picked] \in Int
    BY <1>12 DEF FireTimer, TypeOK, Objects
  <2>2. [s_state EXCEPT ![picked] = "TERMINATED"] \in [Scheds -> States]
    BY DEF TypeOK, States
  <2>3. /\ runchain' \in Seq(Scheds)
        /\ s_state' \in [Scheds -> States]
        /\ s_time' \in [Scheds -> Int]
        /\ o_link' \in [Objects -> Seq(Tasks)]
    BY <1>12, <2>1, <2>2, AlertedType DEF FireTimer, TypeOK
  <2> QED  BY <1>12, <2>1, <2>3 DEF FireTimer, TypeOK, Phases
<1>13. ASSUME PauseReturns
       PROVE  TypeOK'
  BY <1>13 DEF PauseReturns, TypeOK, Phases
<1> QED
  BY <1>3, <1>4, <1>5, <1>6, <1>7, <1>8, <1>9, <1>10, <1>11, <1>12, <1>13
     DEF Schedule

LEMMA InitType == Init => TypeOK
<1> SUFFICES ASSUME Init PROVE TypeOK
  OBVIOUS
<1>1. <<>> \in Seq(Scheds) /\ <<>> \in Seq(Tasks)
  OBVIOUS
<1>2. 0 \in -MaxKeep..MaxKeep
  BY BoundsAssumption
<1> QED
  BY <1>1, <1>2, IdentitiesAssumption
     DEF Init, TypeOK, Scheds, States, Calls, NotInCall, Phases, Errors

(* The variables always have their types, whatever calls the program makes. *)
(* TypeOK is inductive as it stands: the one relation in it, that picked    *)
(* is null outside schedule(), is kept by every action.                     *)
THEOREM TypeCorrect == Spec => []TypeOK
<1>1. TypeOK /\ [Next]_schedVars => TypeOK'
  <2>1. CASE UNCHANGED schedVars
    BY <2>1 DEF TypeOK, schedVars
  <2> QED  BY <2>1, UserCallType, SystemType DEF Next, Stopped
<1> QED  BY InitType, <1>1, PTL DEF Spec

(***************************************************************************)
(* The run chain.                                                          *)
(***************************************************************************)

(* Removing x leaves a sound chain without x, whatever becomes of x.       *)
LEMMA WithoutKeeps ==
  ASSUME NEW c \in Seq(Scheds), NEW x,
         NEW st \in [Scheds -> States], WellFormed(c, st),
         NEW st2, \A s \in Scheds : s # x => st2[s] = st[s]
  PROVE  /\ WellFormed(Without(c, x), st2)
         /\ \A i \in DOMAIN Without(c, x) : Without(c, x)[i] # x
<1>1. /\ Len(c) \in Nat /\ DOMAIN c = 1..Len(c) /\ c \in [1..Len(c) -> Scheds]
      /\ Without(c, x) \in Seq(Scheds)
  BY LenProperties, WithoutSeq
<1>2. CASE x \notin Elems(c)
  <2>1. Without(c, x) = c
    BY <1>2 DEF Without
  <2>2. \A i \in DOMAIN c : c[i] # x
    BY <1>2 DEF Elems
  <2> QED  BY <1>1, <2>1, <2>2 DEF WellFormed
<1>3. CASE x \in Elems(c)
  <2> DEFINE d == Without(c, x)
             k == At(c, x)
  <2>1. /\ k \in 1..Len(c) /\ c[k] = x
        /\ Len(d) = Len(c) - 1
        /\ \A j \in 1..(Len(c) - 1) : d[j] = IF j < k THEN c[j] ELSE c[j + 1]
    BY <1>3, WithoutSeq
  <2>2. DOMAIN d = 1..(Len(c) - 1)
    BY <1>1, <2>1, LenProperties
  <2> HIDE DEF d, k
  <2>3. \A i, j \in 1..Len(c) : c[i] = c[j] => i = j
    BY <1>1 DEF WellFormed
  <2>4. \A i \in DOMAIN d : d[i] # x
    BY <1>1, <2>1, <2>2, <2>3
  <2>5. \A i, j \in DOMAIN d : d[i] = d[j] => i = j
    BY SMTT(30), <1>1, <2>1, <2>2, <2>3
  <2>a. ASSUME NEW i \in DOMAIN d
        PROVE  \/ i < k /\ i \in 1..Len(c) /\ d[i] = c[i]
               \/ i >= k /\ i + 1 \in 1..Len(c) /\ d[i] = c[i + 1]
    BY <1>1, <2>1, <2>2
  <2>6. \A i \in DOMAIN d : d[i] \in Scheds /\ st[d[i]] = "RUNNING"
    BY <1>1, <2>a DEF WellFormed
  <2> QED  BY <2>4, <2>5, <2>6 DEF WellFormed, d
<1> QED  BY <1>2, <1>3

(* It also leaves an ordered chain.                                        *)
LEMMA WithoutOrdered ==
  ASSUME NEW c \in Seq(Scheds), NEW x, NEW now \in Int,
         NEW time \in [Scheds -> Int], Ordered(c, time, now),
         \A i, j \in DOMAIN c : c[i] = c[j] => i = j,
         NEW time2, \A s \in Scheds : s # x => time2[s] = time[s]
  PROVE  Ordered(Without(c, x), time2, now)
<1>1. /\ Len(c) \in Nat /\ DOMAIN c = 1..Len(c) /\ c \in [1..Len(c) -> Scheds]
      /\ Without(c, x) \in Seq(Scheds)
  BY LenProperties, WithoutSeq
<1>2. CASE x \notin Elems(c)
  <2>1. Without(c, x) = c
    BY <1>2 DEF Without
  <2>2. \A i \in DOMAIN c : c[i] # x
    BY <1>2 DEF Elems
  <2> QED  BY <1>1, <2>1, <2>2 DEF Ordered
<1>3. CASE x \in Elems(c)
  <2> DEFINE d == Without(c, x)
             k == At(c, x)
  <2>1. /\ k \in 1..Len(c) /\ c[k] = x
        /\ Len(d) = Len(c) - 1
        /\ \A j \in 1..(Len(c) - 1) : d[j] = IF j < k THEN c[j] ELSE c[j + 1]
    BY <1>3, WithoutSeq
  <2>2. DOMAIN d = 1..(Len(c) - 1)
    BY <1>1, <2>1, LenProperties
  <2> HIDE DEF d, k
  <2>3. \A i, j \in 1..Len(c) : i < j => time[c[i]] <= time[c[j]]
    BY <1>1 DEF Ordered
  <2> DEFINE e(j) == IF j < k THEN j ELSE j + 1
  <2>b. \A j \in DOMAIN d : e(j) \in 1..Len(c) /\ e(j) # k /\ d[j] = c[e(j)]
    BY <1>1, <2>1, <2>2
  <2>c. \A i, j \in DOMAIN d : i < j => e(i) < e(j)
    BY SMTT(30), <1>1, <2>1, <2>2
  <2>d. \A i, j \in 1..Len(c) : c[i] = c[j] => i = j
    BY <1>1
  <2> HIDE DEF e
  <2>4. \A i \in DOMAIN d : d[i] \in Scheds /\ d[i] # x
    BY <1>1, <2>1, <2>b, <2>d
  <2>5. \A i, j \in DOMAIN d : i < j => time[d[i]] <= time[d[j]]
    BY <2>3, <2>b, <2>c
  <2>6. \A i \in DOMAIN d : now <= time[d[i]]
    BY <1>1, <2>b DEF Ordered
  <2> QED  BY <2>4, <2>5, <2>6 DEF Ordered, d
<1> QED  BY <1>2, <1>3

(* Splicing in scheds that were not on the chain and are RUNNING now.      *)
LEMMA SpliceKeeps ==
  ASSUME NEW c \in Seq(Scheds), NEW w \in Seq(Scheds), NEW k \in 0..Len(c),
         NEW st, WellFormed(c, st), NEW st2,
         \A i \in DOMAIN c : st2[c[i]] = st[c[i]],
         WellFormed(w, st2),
         \A i \in DOMAIN c, j \in DOMAIN w : c[i] # w[j]
  PROVE  /\ WellFormed(SpliceAt(c, k, w), st2)
         /\ \A i \in DOMAIN SpliceAt(c, k, w) :
              \/ \E j \in DOMAIN c : SpliceAt(c, k, w)[i] = c[j]
              \/ \E j \in DOMAIN w : SpliceAt(c, k, w)[i] = w[j]
<1> DEFINE f == SpliceAt(c, k, w)
<1>1. /\ Len(c) \in Nat /\ DOMAIN c = 1..Len(c)
      /\ Len(w) \in Nat /\ DOMAIN w = 1..Len(w)
  BY LenProperties
<1>2. /\ f \in Seq(Scheds) /\ Len(f) = Len(c) + Len(w)
      /\ \A j \in 1..(Len(c) + Len(w)) :
           f[j] = IF j <= k THEN c[j]
                  ELSE IF j <= k + Len(w) THEN w[j - k] ELSE c[j - Len(w)]
  <2>1. /\ SpliceAt(c, k, w) \in Seq(Scheds)
        /\ Len(SpliceAt(c, k, w)) = Len(c) + Len(w)
        /\ \A j \in 1..(Len(c) + Len(w)) :
             SpliceAt(c, k, w)[j] =
               IF j <= k THEN c[j]
               ELSE IF j <= k + Len(w) THEN w[j - k] ELSE c[j - Len(w)]
    BY SpliceSeq, SMTT(60)
  <2> QED  BY <2>1
<1>3. DOMAIN f = 1..(Len(c) + Len(w))
  BY <1>2, LenProperties
<1> HIDE DEF f
<1>4. ASSUME NEW i \in DOMAIN f
      PROVE  \/ i <= k /\ i \in DOMAIN c /\ f[i] = c[i]
             \/ i > k /\ i <= k + Len(w) /\ i - k \in DOMAIN w /\ f[i] = w[i - k]
             \/ i > k + Len(w) /\ i - Len(w) \in DOMAIN c /\ f[i] = c[i - Len(w)]
  BY <1>1, <1>2, <1>3
<1>5. \A i, j \in DOMAIN f : f[i] = f[j] => i = j
  BY <1>1, <1>3, <1>4 DEF WellFormed
<1>6. \A i \in DOMAIN f : \/ \E j \in DOMAIN c : f[i] = c[j]
                          \/ \E j \in DOMAIN w : f[i] = w[j]
  BY <1>4
<1>7. \A i \in DOMAIN f : st2[f[i]] = "RUNNING"
  BY <1>6 DEF WellFormed
<1> QED  BY <1>5, <1>6, <1>7 DEF WellFormed, f

(* Splicing in, where insert() does it, scheds that are due at time tt.    *)
LEMMA SpliceOrdered ==
  ASSUME NEW c \in Seq(Scheds), NEW w \in Seq(Scheds), NEW now \in Int,
         NEW tt \in Int, now <= tt,
         NEW time \in [Scheds -> Int], Ordered(c, time, now), NEW time2,
         \A i \in DOMAIN c : time2[c[i]] = time[c[i]],
         \A j \in DOMAIN w : time2[w[j]] = tt
  PROVE  Ordered(SpliceAt(c, WalkPast(c, time, tt), w), time2, now)
<1> DEFINE k == WalkPast(c, time, tt)
           f == SpliceAt(c, k, w)
<1>1. /\ Len(c) \in Nat /\ DOMAIN c = 1..Len(c) /\ c \in [1..Len(c) -> Scheds]
      /\ Len(w) \in Nat /\ DOMAIN w = 1..Len(w)
  BY LenProperties
<1>2. /\ k \in 0..Len(c)
      /\ \A i \in 1..k : time[c[i]] <= tt
      /\ k < Len(c) => tt < time[c[k + 1]]
  BY WalkPastPlace
<1>3. /\ f \in Seq(Scheds) /\ Len(f) = Len(c) + Len(w)
      /\ \A j \in 1..(Len(c) + Len(w)) :
           f[j] = IF j <= k THEN c[j]
                  ELSE IF j <= k + Len(w) THEN w[j - k] ELSE c[j - Len(w)]
  <2> HIDE DEF k
  <2> QED  BY <1>2, SpliceSeq
<1>4. DOMAIN f = 1..(Len(c) + Len(w))
  BY <1>3, LenProperties
<1> HIDE DEF f, k
<1>5. \A i \in DOMAIN c : time[c[i]] \in Int /\ now <= time[c[i]]
  BY <1>1 DEF Ordered
<1>6. \A i \in DOMAIN c : i > k => tt < time[c[i]]
  <2> SUFFICES ASSUME NEW i \in DOMAIN c, i > k
               PROVE  tt < time[c[i]]
    OBVIOUS
  <2>1. k + 1 \in DOMAIN c /\ tt < time[c[k + 1]]
    BY <1>1, <1>2
  <2>2. i = k + 1 \/ time[c[k + 1]] <= time[c[i]]
    <3>1. i \in Nat /\ k + 1 \in Nat /\ (i = k + 1 \/ k + 1 < i)
      BY <1>1, <1>2
    <3> QED  BY <2>1, <3>1 DEF Ordered
  <2> QED  BY <1>5, <2>1, <2>2
<1>a. /\ \A i \in DOMAIN f : i \in Nat
      /\ k \in Nat
  BY <1>1, <1>2, <1>4
<1>b. ASSUME NEW i \in DOMAIN f, i <= k
      PROVE  i \in DOMAIN c /\ time2[f[i]] = time[c[i]] /\ time[c[i]] <= tt
  <2>1. i \in DOMAIN c /\ i \in 1..k
    BY <1>1, <1>2, <1>4, <1>b
  <2>2. f[i] = c[i]
    BY <1>3, <1>4, <1>b
  <2> QED  BY <1>2, <2>1, <2>2
<1>c. ASSUME NEW i \in DOMAIN f, i > k, i <= k + Len(w)
      PROVE  time2[f[i]] = tt
  <2>1. i - k \in DOMAIN w
    BY <1>1, <1>a, <1>c
  <2>2. f[i] = w[i - k]
    BY <1>3, <1>4, <1>a, <1>c
  <2> QED  BY <2>1, <2>2
<1>d. ASSUME NEW i \in DOMAIN f, i > k + Len(w)
      PROVE  /\ i - Len(w) \in DOMAIN c
             /\ time2[f[i]] = time[c[i - Len(w)]]
             /\ tt < time[c[i - Len(w)]]
  <2>1. i - Len(w) \in DOMAIN c /\ i - Len(w) > k
    BY <1>1, <1>4, <1>a, <1>d
  <2>2. f[i] = c[i - Len(w)]
    <3>1. i \in 1..(Len(c) + Len(w)) /\ ~(i <= k) /\ ~(i <= k + Len(w))
      BY <1>1, <1>4, <1>a, <1>d
    <3> QED  BY <1>3, <3>1
  <2> QED  BY <1>6, <2>1, <2>2
<1>8. ASSUME NEW i \in DOMAIN f
      PROVE  now <= time2[f[i]]
  <2>1. i <= k \/ (i > k /\ i <= k + Len(w)) \/ i > k + Len(w)
    BY <1>1, <1>a
  <2>2. CASE i <= k
    BY <1>5, <1>b, <2>2
  <2>3. CASE i > k /\ i <= k + Len(w)
    BY <1>c, <2>3
  <2>4. CASE i > k + Len(w)
    BY <1>5, <1>d, <2>4
  <2> QED  BY <2>1, <2>2, <2>3, <2>4
<1>9. ASSUME NEW i \in DOMAIN f, NEW j \in DOMAIN f, i < j
      PROVE  time2[f[i]] <= time2[f[j]]
  <2>1. \A a, b \in DOMAIN c : a < b => time[c[a]] <= time[c[b]]
    BY DEF Ordered
  <2>2. i \in Nat /\ j \in Nat
    BY <1>a
  <2>3. CASE j <= k
    <3>1. i <= k
      BY <1>9, <1>a, <2>2, <2>3
    <3> QED  BY <1>9, <1>b, <2>1, <2>3, <3>1
  <2>4. CASE j > k /\ j <= k + Len(w)
    <3>1. time2[f[j]] = tt
      BY <1>c, <2>4
    <3>2. i <= k \/ (i > k /\ i <= k + Len(w))
      BY <1>1, <1>9, <1>a, <2>2, <2>4
    <3> QED  BY <1>b, <1>c, <3>1, <3>2
  <2>5. CASE j > k + Len(w)
    <3>1. CASE i > k + Len(w)
      <4>1. i - Len(w) < j - Len(w)
        BY <1>1, <1>9, <2>2
      <4> QED  BY <1>d, <2>1, <2>5, <3>1, <4>1
    <3>2. CASE ~(i > k + Len(w))
      <4>1. time2[f[i]] \in Int /\ time2[f[i]] <= tt
        <5>1. i <= k \/ (i > k /\ i <= k + Len(w))
          BY <1>1, <1>a, <2>2, <3>2
        <5>2. CASE i <= k
          BY <1>5, <1>b, <5>2
        <5>3. CASE i > k /\ i <= k + Len(w)
          BY <1>c, <5>3
        <5> QED  BY <5>1, <5>2, <5>3
      <4>2. time2[f[j]] \in Int /\ tt < time2[f[j]]
        BY <1>5, <1>d, <2>5
      <4> QED  BY <4>1, <4>2
    <3> QED  BY <3>1, <3>2
  <2> QED  BY <1>1, <1>a, <2>2, <2>3, <2>4, <2>5
<1> QED  BY <1>8, <1>9 DEF Ordered, f, k

(* insert() of a sched that is not on the chain.                           *)
LEMMA InsertKeeps ==
  ASSUME TypeOK, NEW s \in Scheds, NEW d \in Int, NEW rc \in Seq(Scheds),
         WellFormed(rc, s_state), \A i \in DOMAIN rc : rc[i] # s,
         Inserted(s, d, rc)
  PROVE  /\ WellFormed(runchain', s_state')
         /\ d >= 0 /\ Ordered(rc, s_time, clxck) => Ordered(runchain', s_time', clxck)
<1>1. /\ s_time \in [Scheds -> Int] /\ s_state \in [Scheds -> States]
      /\ clxck \in Int /\ clxck + d \in Int
  BY DEF TypeOK
<1>2. /\ <<s>> \in Seq(Scheds) /\ DOMAIN <<s>> = {1} /\ <<s>>[1] = s
  OBVIOUS
<1>3. /\ runchain' = SpliceAt(rc, WalkPast(rc, s_time, clxck + d), <<s>>)
      /\ s_state' = [s_state EXCEPT ![s] = "RUNNING"]
      /\ s_time' = [s_time EXCEPT ![s] = clxck + d]
  BY DEF Inserted
<1>4. WalkPast(rc, s_time, clxck + d) \in 0..Len(rc)
  BY <1>1, WalkPastPlace
<1>5. \A i \in DOMAIN rc : rc[i] \in Scheds
  BY LenProperties
<1>6. /\ \A i \in DOMAIN rc : s_state'[rc[i]] = s_state[rc[i]]
      /\ \A i \in DOMAIN rc : s_time'[rc[i]] = s_time[rc[i]]
      /\ s_state'[s] = "RUNNING" /\ s_time'[s] = clxck + d
  BY <1>1, <1>3, <1>5
<1>7. WellFormed(<<s>>, s_state')
  BY <1>2, <1>6 DEF WellFormed
<1>8. WellFormed(runchain', s_state')
  <2>1. \A i \in DOMAIN rc, j \in DOMAIN <<s>> : rc[i] # <<s>>[j]
    BY <1>2
  <2> DEFINE k == WalkPast(rc, s_time, clxck + d)
             w == <<s>>
  <2>2. k \in 0..Len(rc) /\ w \in Seq(Scheds) /\ WellFormed(w, s_state')
    BY <1>2, <1>4, <1>7
  <2>3. \A i \in DOMAIN rc, j \in DOMAIN w : rc[i] # w[j]
    BY <2>1
  <2>4. runchain' = SpliceAt(rc, k, w)
    BY <1>3
  <2> HIDE DEF k, w
  <2>5. WellFormed(SpliceAt(rc, k, w), s_state')
    BY <1>6, <2>2, <2>3, SpliceKeeps
  <2> QED  BY <2>4, <2>5
<1>9. ASSUME d >= 0, Ordered(rc, s_time, clxck)
      PROVE  Ordered(runchain', s_time', clxck)
  <2>1. clxck <= clxck + d
    BY <1>1, <1>9
  <2>2. \A j \in DOMAIN <<s>> : s_time'[<<s>>[j]] = clxck + d
    BY <1>2, <1>6
  <2> QED  BY <1>1, <1>2, <1>3, <1>6, <1>9, <2>1, <2>2, SpliceOrdered
<1> QED  BY <1>8, <1>9

(* alert() of the tasks on an object.                                      *)
LEMMA AlertKeeps ==
  ASSUME o_link \in [Objects -> Seq(Tasks)], NEW o \in Objects,
         NEW st \in [Scheds -> States], NEW time \in [Scheds -> Int],
         NEW rc \in Seq(Scheds), NEW now \in Int,
         WellFormed(rc, st), Alerted(o, st, time, rc, now)
  PROVE  /\ WellFormed(runchain', s_state')
         /\ \A n \in Int : n <= now /\ Ordered(rc, time, n) => Ordered(runchain', s_time', n)
<1>1. PICK w \in Seq(Tasks) :
        /\ runchain' = SpliceAt(rc, WalkPast(rc, time, now), w)
        /\ \A i \in 1..Len(w) : st[w[i]] = "IDLE"
        /\ \A i, j \in 1..Len(w) : w[i] = w[j] => i = j
        /\ s_state' = [s \in Scheds |->
                         IF \E i \in 1..Len(w) : w[i] = s THEN "RUNNING" ELSE st[s]]
        /\ s_time'  = [s \in Scheds |->
                         IF \E i \in 1..Len(w) : w[i] = s THEN now ELSE time[s]]
        /\ o_link'  = [o_link EXCEPT ![o] = <<>>]
  BY AlertedSplice
<1>2. w \in Seq(Scheds) /\ DOMAIN w = 1..Len(w)
  <2>1. w \in Seq(Scheds)
    BY SeqMonotonic DEF Scheds
  <2> QED  BY <2>1, LenProperties
<1>3. /\ \A i \in DOMAIN rc : rc[i] \in Scheds
      /\ \A j \in DOMAIN w : w[j] \in Scheds
  BY <1>2, LenProperties
<1>4. \A i \in DOMAIN rc, j \in DOMAIN w : rc[i] # w[j]
  <2>1. \A i \in DOMAIN rc : st[rc[i]] = "RUNNING"
    BY DEF WellFormed
  <2>2. \A j \in DOMAIN w : st[w[j]] = "IDLE"
    BY <1>1, <1>2
  <2> QED  BY <2>1, <2>2
<1>5. /\ \A i \in DOMAIN rc : s_state'[rc[i]] = st[rc[i]]
      /\ \A i \in DOMAIN rc : s_time'[rc[i]] = time[rc[i]]
  BY <1>1, <1>2, <1>3, <1>4
<1>6. /\ \A j \in DOMAIN w : s_state'[w[j]] = "RUNNING"
      /\ \A j \in DOMAIN w : s_time'[w[j]] = now
  BY <1>1, <1>2, <1>3
<1>7. WellFormed(w, s_state')
  BY <1>1, <1>2, <1>6 DEF WellFormed
<1>8. WalkPast(rc, time, now) \in 0..Len(rc)
  BY WalkPastPlace
<1>9. WellFormed(runchain', s_state')
  BY <1>1, <1>2, <1>4, <1>5, <1>7, <1>8, SpliceKeeps
<1>10. ASSUME NEW n \in Int, n <= now, Ordered(rc, time, n)
       PROVE  Ordered(runchain', s_time', n)
  BY ZenonT(60), <1>1, <1>2, <1>5, <1>6, <1>10, SpliceOrdered
<1> QED  BY <1>9, <1>10

(* cancel() takes a RUNNING sched off the chain before anything else.      *)
LEMMA CancelKeeps ==
  ASSUME TypeOK, WellFormed(runchain, s_state), NEW s \in Scheds, NEW val \in Int,
         Cancelled(s, val)
  PROVE  /\ WellFormed(runchain', s_state')
         /\ Ordered(runchain, s_time, clxck) => Ordered(runchain', s_time', clxck)
<1> DEFINE st == [s_state EXCEPT ![s] = "TERMINATED"]
           time == [s_time EXCEPT ![s] = val]
           rc == IF s_state[s] = "RUNNING" THEN Without(runchain, s) ELSE runchain
<1>1. /\ st \in [Scheds -> States] /\ time \in [Scheds -> Int]
      /\ s_state \in [Scheds -> States] /\ s_time \in [Scheds -> Int]
      /\ runchain \in Seq(Scheds) /\ clxck \in Int
      /\ s \in Objects /\ o_link \in [Objects -> Seq(Tasks)]
  BY DEF TypeOK, States, Objects
<1>2. /\ \A u \in Scheds : u # s => st[u] = s_state[u]
      /\ \A u \in Scheds : u # s => time[u] = s_time[u]
  BY <1>1
<1>3. Alerted(s, st, time, rc, clxck)
  BY DEF Cancelled
<1>4. /\ rc \in Seq(Scheds) /\ WellFormed(rc, st)
      /\ Ordered(runchain, s_time, clxck) => Ordered(rc, time, clxck)
  <2>1. CASE s_state[s] = "RUNNING"
    <3> HIDE DEF st, time
    <3>1. \A i, j \in DOMAIN runchain : runchain[i] = runchain[j] => i = j
      BY DEF WellFormed
    <3> QED  BY ZenonT(60), <1>1, <1>2, <2>1, <3>1, WithoutSeq, WithoutKeeps, WithoutOrdered
  <2>2. CASE s_state[s] # "RUNNING"
    <3>1. \A i \in DOMAIN runchain : runchain[i] \in Scheds /\ runchain[i] # s
      BY <1>1, <2>2, LenProperties DEF WellFormed
    <3> HIDE DEF st, time
    <3> QED  BY <1>1, <1>2, <2>2, <3>1 DEF WellFormed, Ordered
  <2> QED  BY <2>1, <2>2
<1> HIDE DEF st, time, rc
<1>5. /\ WellFormed(runchain', s_state')
      /\ \A n \in Int : n <= clxck /\ Ordered(rc, time, n) => Ordered(runchain', s_time', n)
  BY <1>1, <1>3, <1>4, AlertKeeps
<1>6. clxck <= clxck
  BY <1>1
<1> QED  BY <1>1, <1>4, <1>5, <1>6

LEMMA RemoveKeeps ==
  ASSUME TypeOK, WellFormed(runchain, s_state), NEW s \in Scheds,
         RemovedIfRunning(s)
  PROVE  /\ WellFormed(runchain', s_state')
         /\ Ordered(runchain, s_time, clxck) => Ordered(runchain', s_time, clxck)
<1>1. /\ s_state \in [Scheds -> States] /\ s_time \in [Scheds -> Int]
      /\ runchain \in Seq(Scheds) /\ clxck \in Int
  BY DEF TypeOK
<1>2. \A i, j \in DOMAIN runchain : runchain[i] = runchain[j] => i = j
  BY DEF WellFormed
<1>3. CASE s_state[s] = "RUNNING"
  <2>1. runchain' = Without(runchain, s) /\ s_state' = [s_state EXCEPT ![s] = "IDLE"]
    BY <1>3 DEF RemovedIfRunning
  <2>2. \A u \in Scheds : u # s => s_state'[u] = s_state[u]
    BY <1>1, <2>1
  <2> QED  BY <1>1, <1>2, <2>1, <2>2, WithoutKeeps, WithoutOrdered
<1>4. CASE s_state[s] # "RUNNING"
  BY <1>4 DEF RemovedIfRunning
<1> QED  BY <1>3, <1>4

(* The calls that leave the order of the run chain alone: all but the two  *)
(* that change the clock or a key of the chain from outside.               *)
OrderlyCalls == Api \cap {"set_priority_sched", "setclock"} = {}

LEMMA UserCallChain ==
  ASSUME TypeOK, ChainWellFormed, UserCall
  PROVE  /\ phase = "user" /\ phase' # "picked"
         /\ WellFormed(runchain', s_state')
         /\ OrderlyCalls =>
              /\ clxck' = clxck
              /\ Ordered(runchain, s_time, clxck) => Ordered(runchain', s_time', clxck)
         /\ error # "E_SCHTIME" => error' # "E_SCHTIME"
<1> DEFINE Good == /\ phase = "user" /\ phase' # "picked"
                   /\ WellFormed(runchain', s_state')
                   /\ OrderlyCalls =>
                        /\ clxck' = clxck
                        /\ Ordered(runchain, s_time, clxck)
                             => Ordered(runchain', s_time', clxck)
                   /\ error # "E_SCHTIME" => error' # "E_SCHTIME"
<1> USE DEF Calling, Scheds
<1>0. /\ WellFormed(runchain, s_state) /\ thistask \in Scheds
      /\ runchain \in Seq(Scheds) /\ s_state \in [Scheds -> States]
  BY DEF ChainWellFormed, TypeOK
<1>1. ASSUME NEW e, e # "E_SCHTIME", phase = "user", Fail(e)
      PROVE  Good
  BY <1>0, <1>1 DEF Fail
<1>2. ASSUME phase = "user", phase' # "picked",
             UNCHANGED <<runchain, s_state, s_time, clxck, error>>
      PROVE  Good
  BY <1>0, <1>2
<1>3. ASSUME NEW s \in Scheds, NEW d \in Int, InsertError(s, d) = "none"
      PROVE  d >= 0 /\ \A i \in DOMAIN runchain : runchain[i] # s
  BY <1>3 DEF InsertError, Elems
<1>4. ASSUME NEW s \in Scheds, NEW d \in Int
      PROVE  InsertError(s, d) # "E_SCHTIME"
  BY DEF InsertError
<1>5. ASSUME NEW t \in Tasks, NewTask(t)
      PROVE  Good
  <2>0. phase = "user"
    BY <1>5 DEF NewTask
  <2>1. CASE InsertError(thistask, 0) # "none"
    BY <1>0, <1>1, <1>4, <1>5, <2>0, <2>1 DEF NewTask
  <2>2. CASE InsertError(thistask, 0) = "none"
    <3>1. /\ runchain' = SpliceAt(runchain, WalkPast(runchain, s_time, clxck), <<thistask>>)
          /\ s_state' = [s_state EXCEPT ![thistask] = "RUNNING", ![t] = "RUNNING"]
          /\ s_time' = [s_time EXCEPT ![thistask] = clxck]
          /\ UNCHANGED <<clxck, phase, error>>
          /\ s_state[t] = "UNBORN"
      BY <1>5, <2>2 DEF NewTask, Born
    <3>2. \A i \in DOMAIN runchain : runchain[i] # thistask
      BY <1>0, <1>3, <2>2
    <3>3. \A i \in DOMAIN runchain : runchain[i] # t /\ runchain[i] \in Scheds
      BY <1>0, <3>1, LenProperties DEF WellFormed
    <3>4. s_time \in [Scheds -> Int] /\ clxck \in Int /\ clxck <= clxck
      BY DEF TypeOK
    <3>5. /\ \A i \in DOMAIN runchain : s_state'[runchain[i]] = s_state[runchain[i]]
          /\ \A i \in DOMAIN runchain : s_time'[runchain[i]] = s_time[runchain[i]]
          /\ s_state'[thistask] = "RUNNING" /\ s_time'[thistask] = clxck
      BY <1>0, <3>1, <3>2, <3>3, <3>4
    <3> DEFINE w == <<thistask>>
               k == WalkPast(runchain, s_time, clxck)
    <3>6. w \in Seq(Scheds) /\ DOMAIN w = {1} /\ w[1] = thistask
      BY <1>0
    <3>7. k \in 0..Len(runchain)
      BY <1>0, <3>4, WalkPastPlace
    <3>8. runchain' = SpliceAt(runchain, k, w)
      BY <3>1
    <3> HIDE DEF w
    <3>9. Ordered(runchain, s_time, clxck) => Ordered(runchain', s_time', clxck)
      <4>1. \A j \in DOMAIN w : s_time'[w[j]] = clxck
        BY <3>5, <3>6
      <4> QED  BY <1>0, <3>4, <3>5, <3>6, <3>8, <4>1, SpliceOrdered
    <3> HIDE DEF k
    <3>10. WellFormed(runchain', s_state')
      <4>1. WellFormed(w, s_state')
        BY <3>5, <3>6 DEF WellFormed
      <4>2. \A i \in DOMAIN runchain, j \in DOMAIN w : runchain[i] # w[j]
        BY <3>2, <3>6
      <4> QED  BY <1>0, <3>5, <3>6, <3>7, <3>8, <4>1, <4>2, SpliceKeeps
    <3> QED  BY <2>0, <3>1, <3>9, <3>10
  <2> QED  BY <2>1, <2>2
<1>6. ASSUME NEW m \in Timers, NEW d \in Delays, SetTimer(m, d)
      PROVE  Good
  <2>0. phase = "user" /\ d \in Int /\ m \in Scheds
    BY <1>6, BoundsAssumption DEF SetTimer
  <2>1. CASE d < 0 /\ Fail("E_NEGTIME")
    BY <1>1, <2>0, <2>1
  <2>2. CASE ~(d < 0 /\ Fail("E_NEGTIME"))
    <3>1. /\ d >= 0 /\ Inserted(m, d, Without(runchain, m))
          /\ UNCHANGED <<clxck, phase, error>>
      BY <1>6, <2>2 DEF SetTimer
    <3>2. /\ Without(runchain, m) \in Seq(Scheds)
          /\ WellFormed(Without(runchain, m), s_state)
          /\ \A i \in DOMAIN Without(runchain, m) : Without(runchain, m)[i] # m
      BY <1>0, WithoutSeq, WithoutKeeps
    <3>3. Ordered(runchain, s_time, clxck) => Ordered(Without(runchain, m), s_time, clxck)
      <4>1. /\ s_time \in [Scheds -> Int] /\ clxck \in Int
            /\ \A i, j \in DOMAIN runchain : runchain[i] = runchain[j] => i = j
        BY <1>0 DEF TypeOK, WellFormed
      <4> QED  BY <1>0, <4>1, WithoutOrdered
    <3>4. /\ WellFormed(runchain', s_state')
          /\ Ordered(Without(runchain, m), s_time, clxck) => Ordered(runchain', s_time', clxck)
      BY <2>0, <3>1, <3>2, InsertKeeps
    <3> QED  BY <2>0, <3>1, <3>3, <3>4
  <2> QED  BY <2>1, <2>2
<1>7. ASSUME NEW t \in Tasks, NEW d \in Delays, Delay(t, d)
      PROVE  Good
  <2>0. phase = "user" /\ d \in Int /\ t \in Scheds
    BY <1>7, BoundsAssumption DEF Delay
  <2>1. CASE InsertError(t, d) # "none"
    BY <1>1, <1>4, <1>7, <2>0, <2>1 DEF Delay
  <2>2. CASE InsertError(t, d) = "none"
    <3>1. /\ Inserted(t, d, runchain) /\ GoesOn(t)
          /\ UNCHANGED <<clxck, error>>
      BY <1>7, <2>2 DEF Delay
    <3>2. /\ WellFormed(runchain', s_state')
          /\ Ordered(runchain, s_time, clxck) => Ordered(runchain', s_time', clxck)
      BY <1>0, <1>3, <2>0, <2>2, <3>1, InsertKeeps
    <3> QED  BY <2>0, <3>1, <3>2 DEF GoesOn
  <2> QED  BY <2>1, <2>2
<1>8. ASSUME NEW t \in Tasks, NEW o \in Objects \cup {None}, Sleep(t, o)
      PROVE  Good
  <2>1. RemovedIfRunning(t) /\ GoesOn(t) /\ UNCHANGED <<clxck, error, s_time>> /\ phase = "user"
    BY <1>8 DEF Sleep
  <2> QED  BY <1>0, <2>1, RemoveKeeps DEF GoesOn
<1>9. ASSUME NEW t \in Tasks, Preempt(t)
      PROVE  Good
  <2>0. phase = "user"
    BY <1>9 DEF Preempt
  <2>1. CASE Fail("E_TASKPRE")
    BY <1>1, <2>0, <2>1
  <2>2. CASE ~Fail("E_TASKPRE")
    <3>1. RemovedIfRunning(t) /\ UNCHANGED <<clxck, error, s_time, phase>>
      BY <1>9, <2>2 DEF Preempt
    <3> QED  BY <1>0, <2>0, <3>1, RemoveKeeps
  <2> QED  BY <2>1, <2>2
<1>10. ASSUME NEW s \in Scheds, NEW val \in Int, phase = "user", phase' # "picked",
              \/ UNCHANGED <<runchain, s_state, s_time, o_link>>
              \/ Cancelled(s, val),
              UNCHANGED <<clxck, error>>
       PROVE  Good
  <2>1. CASE Cancelled(s, val)
    BY <1>0, <1>10, <2>1, CancelKeeps
  <2>2. CASE UNCHANGED <<runchain, s_state, s_time, o_link>>
    BY <1>2, <1>10, <2>2
  <2> QED  BY <1>10, <2>1, <2>2
<1>11. ASSUME NEW s \in Scheds, NEW val \in Results, Cancel(s, val)
       PROVE  Good
  <2>1. val \in Int
    BY BoundsAssumption
  <2>2. /\ phase = "user" /\ phase' # "picked" /\ UNCHANGED <<clxck, error>>
        /\ UNCHANGED <<runchain, s_state, s_time, o_link>> \/ Cancelled(s, val)
    BY <1>11 DEF Cancel
  <2> QED  BY <1>10, <2>1, <2>2
<1>12. ASSUME NEW t \in Tasks, NEW val \in Results, ResultIs(t, val)
       PROVE  Good
  <2>1. val \in Int
    BY BoundsAssumption
  <2>2. /\ phase = "user" /\ phase' # "picked" /\ UNCHANGED <<clxck, error>>
        /\ UNCHANGED <<runchain, s_state, s_time, o_link>> \/ Cancelled(t, val)
    BY <1>12 DEF ResultIs, GoesOn
  <2> QED  BY <1>10, <2>1, <2>2
<1>13. ASSUME NEW s \in Scheds, Result(s)
       PROVE  Good
  BY <1>1, <1>2, <1>13 DEF Result, Enter
<1>14. ASSUME NEW o \in Objects, Wait(o)
       PROVE  Good
  BY <1>1, <1>2, <1>14 DEF Wait, Enter
<1>15. ASSUME NEW S \in Lists, WaitVec(S)
       PROVE  Good
  BY <1>2, <1>15 DEF WaitVec, Enter
<1>16. ASSUME NEW o \in Objects, NEW t \in Tasks, Remember(o, t) \/ Forget(o, t)
       PROVE  Good
  BY <1>2, <1>16 DEF Remember, Forget
<1>17. ASSUME NEW o \in Objects, Alert(o)
       PROVE  Good
  <2>1. /\ Alerted(o, s_state, s_time, runchain, clxck)
        /\ phase = "user" /\ UNCHANGED <<clxck, error, phase>>
    BY <1>17 DEF Alert
  <2>2. /\ o_link \in [Objects -> Seq(Tasks)] /\ s_time \in [Scheds -> Int]
        /\ clxck \in Int /\ clxck <= clxck
    BY DEF TypeOK
  <2>3. /\ WellFormed(runchain', s_state')
        /\ \A n \in Int : n <= clxck /\ Ordered(runchain, s_time, n)
                            => Ordered(runchain', s_time', n)
    BY <1>0, <2>1, <2>2, AlertKeeps
  <2> QED  BY <2>1, <2>2, <2>3
<1>18. ASSUME NEW t \in Times, SetClock(t)
       PROVE  Good
  <2>1. CASE Fail("E_SETCLOCK")
    BY <1>1, <1>18, <2>1 DEF SetClock
  <2>2. CASE ~Fail("E_SETCLOCK")
    BY <1>0, <1>18, <2>2 DEF SetClock, OrderlyCalls
  <2> QED  BY <2>1, <2>2
<1>19. ASSUME NEW s \in Scheds, SetPrioritySched(s)
       PROVE  Good
  BY <1>0, <1>19 DEF SetPrioritySched, OrderlyCalls
<1>20. ASSUME NEW t \in Tasks, SetClockTask(t)
       PROVE  Good
  BY <1>2, <1>20 DEF SetClockTask
<1>21. ASSUME NEW n \in {1, -1}, KeepWaiting(n)
       PROVE  Good
  BY <1>2, <1>21 DEF KeepWaiting
<1> HIDE DEF Good
<1>22. Good
  BY <1>5, <1>6, <1>7, <1>8, <1>9, <1>11, <1>12, <1>13, <1>14, <1>15, <1>16, <1>17,
     <1>18, <1>19, <1>20, <1>21 DEF UserCall
<1> QED  BY <1>22 DEF Good

LEMMA SystemChain ==
  ASSUME TypeOK, ChainWellFormed,
         WaitReturns \/ WaitVecReturns \/ LoopSleeps \/ Schedule \/ PauseReturns
  PROVE  /\ ChainWellFormed'
         /\ priority_sched = None /\ ChainOrdered =>
              /\ ChainOrdered'
              /\ priority_sched' = None
              /\ error # "E_SCHTIME" => error' # "E_SCHTIME"
<1> DEFINE Good == /\ ChainWellFormed'
                   /\ priority_sched = None /\ ChainOrdered =>
                        /\ ChainOrdered'
                        /\ priority_sched' = None
                        /\ error # "E_SCHTIME" => error' # "E_SCHTIME"
<1> USE DEF Scheds
<1>0. /\ WellFormed(runchain, s_state) /\ thistask \in Scheds
      /\ runchain \in Seq(Scheds) /\ s_state \in [Scheds -> States]
      /\ s_time \in [Scheds -> Int] /\ clxck \in Int
      /\ o_link \in [Objects -> Seq(Tasks)]
      /\ Len(runchain) \in Nat /\ DOMAIN runchain = 1..Len(runchain)
      /\ \A i \in DOMAIN runchain : runchain[i] \in Scheds
  BY LenProperties DEF ChainWellFormed, TypeOK
<1>1. ASSUME NEW e, e # "E_SCHTIME", phase # "picked", Fail(e)
      PROVE  Good
  BY <1>1 DEF Fail, ChainWellFormed, ChainOrdered
<1>2. ASSUME phase # "picked", phase' # "picked",
             UNCHANGED <<runchain, s_state, s_time, clxck, error, priority_sched>>
      PROVE  Good
  BY <1>2 DEF ChainWellFormed, ChainOrdered
<1>3. ASSUME WaitReturns \/ WaitVecReturns
      PROVE  Good
  BY <1>2, <1>3 DEF WaitReturns, WaitVecReturns, InLoop, Return
<1>4. ASSUME LoopSleeps
      PROVE  Good
  <2>1. phase = "user"
    BY <1>4 DEF LoopSleeps, InLoop
  <2>2. CASE Fail("E_WAIT")
    BY <1>1, <2>1, <2>2
  <2>3. CASE ~Fail("E_WAIT")
    <3>1. /\ RemovedIfRunning(thistask) /\ phase' = "schedule"
          /\ UNCHANGED <<clxck, error, s_time, priority_sched>>
      BY <1>4, <2>3 DEF LoopSleeps
    <3>2. /\ WellFormed(runchain', s_state')
          /\ Ordered(runchain, s_time, clxck) => Ordered(runchain', s_time, clxck)
      BY <1>0, <3>1, RemoveKeeps
    <3> QED  BY <2>1, <3>1, <3>2 DEF ChainWellFormed, ChainOrdered
  <2> QED  BY <2>2, <2>3
<1>5. ASSUME PickPriority
      PROVE  Good
  <2>1. priority_sched # None /\ priority_sched \in Scheds
    BY <1>5 DEF PickPriority, HasPriority, TypeOK
  <2>2. /\ picked' = priority_sched /\ phase' = "picked"
        /\ runchain' = Without(runchain, priority_sched)
        /\ s_state' = [s_state EXCEPT ![priority_sched] = "RUNNING"]
    BY <1>5 DEF PickPriority
  <2>3. \A u \in Scheds : u # priority_sched => s_state'[u] = s_state[u]
    BY <1>0, <2>2
  <2>4. /\ WellFormed(runchain', s_state')
        /\ \A i \in DOMAIN runchain' : runchain'[i] # priority_sched
    <3> DEFINE x == priority_sched
               d == Without(runchain, x)
    <3>1. \A u \in Scheds : u # x => s_state'[u] = s_state[u]
      BY <2>3
    <3>2. WellFormed(d, s_state') /\ \A i \in DOMAIN d : d[i] # x
      <4> HIDE DEF x
      <4> QED  BY <1>0, <3>1, WithoutKeeps
    <3> QED  BY <2>2, <3>2
  <2>5. s_state'[priority_sched] = "RUNNING"
    BY <1>0, <2>1, <2>2
  <2> QED  BY <2>1, <2>2, <2>4, <2>5 DEF ChainWellFormed
<1>6. ASSUME PickFront
      PROVE  Good
  <2>1. /\ runchain # <<>> /\ phase = "schedule" /\ phase' = "picked"
        /\ picked' = Head(runchain) /\ runchain' = Tail(runchain)
        /\ UNCHANGED <<s_state, s_time, clxck, error, priority_sched>>
    BY <1>6 DEF PickFront
  <2>2. /\ Len(runchain) > 0 /\ Head(runchain) = runchain[1]
        /\ Tail(runchain) \in Seq(Scheds) /\ Len(Tail(runchain)) = Len(runchain) - 1
        /\ \A i \in 1..Len(Tail(runchain)) : Tail(runchain)[i] = runchain[i + 1]
    <3>1. Len(runchain) > 0 /\ Head(runchain) = runchain[1]
      BY <1>0, <2>1
    <3> QED  BY <1>0, <2>1, <3>1, HeadTailProperties
  <2>3. /\ DOMAIN runchain' = 1..(Len(runchain) - 1)
        /\ \A i \in DOMAIN runchain' : /\ i + 1 \in DOMAIN runchain
                                       /\ 1 \in DOMAIN runchain /\ 1 < i + 1
                                       /\ runchain'[i] = runchain[i + 1]
    BY <1>0, <2>1, <2>2, LenProperties
  <2>4. \A i, j \in DOMAIN runchain' : i + 1 = j + 1 => i = j
    BY <1>0, <2>3
  <2>5. \A i, j \in DOMAIN runchain' : i < j => i + 1 < j + 1
    BY <1>0, <2>3
  <2>6. WellFormed(runchain', s_state')
    BY <1>0, <2>1, <2>3, <2>4 DEF WellFormed
  <2>7. \A i \in DOMAIN runchain' : runchain'[i] # picked'
    <3>1. \A i, j \in DOMAIN runchain : runchain[i] = runchain[j] => i = j
      BY <1>0 DEF WellFormed
    <3>2. \A i \in DOMAIN runchain' : i + 1 # 1
      BY <1>0, <2>3
    <3> QED  BY <2>1, <2>2, <2>3, <3>1, <3>2
  <2>8. 1 \in DOMAIN runchain /\ picked' = runchain[1]
    BY <1>0, <2>1, <2>2
  <2>9. ChainWellFormed'
    BY <1>0, <2>1, <2>6, <2>7, <2>8 DEF ChainWellFormed, WellFormed
  <2>10. ASSUME ChainOrdered
         PROVE  ChainOrdered'
    <3>1. Ordered(runchain, s_time, clxck)
      BY <2>1, <2>10 DEF ChainOrdered
    <3>2. clxck <= s_time[runchain[1]]
      BY <2>8, <3>1 DEF Ordered
    <3>3. Ordered(runchain', s_time, s_time[runchain[1]])
      BY <2>3, <2>5, <3>1 DEF Ordered
    <3> QED  BY <2>1, <2>8, <3>2, <3>3 DEF ChainOrdered
  <2> QED  BY <2>1, <2>9, <2>10
<1>7. ASSUME NothingToRun
      PROVE  Good
  <2>1. /\ runchain = <<>> /\ runchain' = <<>> /\ phase' # "picked"
        /\ UNCHANGED <<error, priority_sched>>
    BY <1>7 DEF NothingToRun
  <2>2. DOMAIN runchain' = {}
    BY <2>1
  <2> QED  BY <2>1, <2>2 DEF ChainWellFormed, ChainOrdered, WellFormed, Ordered
<1>8. ASSUME BadTime
      PROVE  Good
  <2>1. CASE s_time[picked] < clxck /\ Fail("E_SCHTIME")
    <3>1. phase = "picked" /\ picked \in Scheds
      BY <1>8 DEF BadTime, TypeOK
    <3>2. ~ChainOrdered
      BY <1>0, <2>1, <3>1 DEF ChainOrdered
    <3> QED  BY <2>1, <3>2 DEF Fail, ChainWellFormed
  <2>2. CASE Fail("E_CLOCKIDLE") /\ s_time[picked] > clxck
    <3>1. phase = "picked" /\ picked \in Scheds
      BY <1>8 DEF BadTime, TypeOK
    <3>2. ASSUME ChainOrdered PROVE Ordered(runchain, s_time, clxck)
      <4>1. Ordered(runchain, s_time, s_time[picked]) /\ clxck <= s_time[picked]
        BY <3>1, <3>2 DEF ChainOrdered
      <4> QED  BY <1>0, <3>1, <4>1 DEF Ordered
    <3> QED  BY <2>2, <3>2 DEF Fail, ChainWellFormed, ChainOrdered
  <2> QED  BY <1>8, <2>1, <2>2 DEF BadTime
<1>9. ASSUME ResumeTask
      PROVE  Good
  <2>1. /\ phase = "picked" /\ phase' = "user" /\ clxck' = s_time[picked]
        /\ UNCHANGED <<runchain, s_state, s_time, error, priority_sched>>
    BY <1>9 DEF ResumeTask
  <2> QED  BY <2>1 DEF ChainWellFormed, ChainOrdered
<1>10. ASSUME ResumeClockTask
       PROVE  Good
  <2>1. /\ phase = "picked" /\ phase' = "user" /\ clxck' = s_time[picked]
        /\ runchain' = <<picked>> \o runchain
        /\ UNCHANGED <<s_state, s_time, error, priority_sched>>
        /\ picked \in Scheds
    BY <1>10 DEF ResumeClockTask, PutBack, TypeOK
  <2>2. /\ runchain' \in Seq(Scheds) /\ Len(runchain') = Len(runchain) + 1
        /\ \A i \in 1..(Len(runchain) + 1) :
             runchain'[i] = IF i = 1 THEN picked ELSE runchain[i - 1]
    BY <1>0, <2>1, ConsSeq
  <2>3. \A i \in DOMAIN runchain' :
          \/ i = 1 /\ runchain'[i] = picked
          \/ i > 1 /\ i - 1 \in DOMAIN runchain /\ runchain'[i] = runchain[i - 1]
    BY <1>0, <2>2, LenProperties
  <2>4. \A i \in DOMAIN runchain' : i \in Nat
    BY <2>2, LenProperties
  <2>5. /\ s_state[picked] = "RUNNING"
        /\ \A i \in DOMAIN runchain : runchain[i] # picked
    BY <2>1 DEF ChainWellFormed
  <2>6. WellFormed(runchain', s_state')
    <3>1. \A i \in DOMAIN runchain' : s_state'[runchain'[i]] = "RUNNING"
      BY <1>0, <2>1, <2>3, <2>5 DEF WellFormed
    <3>2. ASSUME NEW i \in DOMAIN runchain', NEW j \in DOMAIN runchain',
                 runchain'[i] = runchain'[j]
          PROVE  i = j
      <4>1. \A a, b \in DOMAIN runchain : runchain[a] = runchain[b] => a = b
        BY <1>0 DEF WellFormed
      <4>2. i \in Nat /\ j \in Nat
        BY <2>4
      <4> QED  BY <2>3, <2>5, <3>2, <4>1, <4>2
    <3> QED  BY <3>1, <3>2 DEF WellFormed
  <2>7. ASSUME ChainOrdered
        PROVE  Ordered(runchain', s_time', s_time[picked])
    <3>1. Ordered(runchain, s_time, s_time[picked]) /\ s_time[picked] \in Int
      BY <1>0, <2>1, <2>7 DEF ChainOrdered
    <3>2. \A i \in DOMAIN runchain' : s_time[picked] <= s_time[runchain'[i]]
      BY <2>3, <3>1 DEF Ordered
    <3>3. ASSUME NEW i \in DOMAIN runchain', NEW j \in DOMAIN runchain', i < j
          PROVE  s_time[runchain'[i]] <= s_time[runchain'[j]]
      <4>1. \A a, b \in DOMAIN runchain : a < b => s_time[runchain[a]] <= s_time[runchain[b]]
        BY <3>1 DEF Ordered
      <4>2. i \in Nat /\ j \in Nat
        BY <2>4
      <4>3. CASE i = 1
        BY <2>3, <3>2, <4>3
      <4>4. CASE i # 1
        <5>1. j # 1 /\ i - 1 < j - 1
          BY <2>3, <3>3, <4>2, <4>4
        <5> QED  BY <2>3, <4>1, <4>4, <5>1
      <4> QED  BY <4>3, <4>4
    <3> QED  BY <2>1, <3>2, <3>3 DEF Ordered
  <2> QED  BY <2>1, <2>6, <2>7 DEF ChainWellFormed, ChainOrdered
<1>11. ASSUME FireTimer
       PROVE  Good
  <2>1. /\ phase = "picked" /\ phase' = "schedule" /\ clxck' = s_time[picked]
        /\ UNCHANGED <<error, priority_sched>>
        /\ Alerted(picked, [s_state EXCEPT ![picked] = "TERMINATED"], s_time, runchain,
                   s_time[picked])
        /\ picked \in Scheds /\ picked \in Objects /\ s_time[picked] \in Int
    BY <1>0, <1>11 DEF FireTimer, TypeOK, Objects
  <2> DEFINE st == [s_state EXCEPT ![picked] = "TERMINATED"]
  <2>2. \A i \in DOMAIN runchain : runchain[i] # picked
    BY <2>1 DEF ChainWellFormed
  <2>3. st \in [Scheds -> States] /\ WellFormed(runchain, st)
    BY <1>0, <2>2 DEF WellFormed, States
  <2>4. Alerted(picked, st, s_time, runchain, s_time[picked])
    BY <2>1
  <2> HIDE DEF st
  <2>5. /\ WellFormed(runchain', s_state')
        /\ \A n \in Int : n <= s_time[picked] /\ Ordered(runchain, s_time, n)
                            => Ordered(runchain', s_time', n)
    BY <1>0, <2>1, <2>3, <2>4, AlertKeeps
  <2>6. ChainOrdered => Ordered(runchain', s_time', s_time[picked])
    BY <2>1, <2>5 DEF ChainOrdered
  <2> QED  BY <2>1, <2>5, <2>6 DEF ChainWellFormed, ChainOrdered
<1>12. ASSUME PauseReturns
       PROVE  Good
  BY <1>2, <1>12 DEF PauseReturns
<1> HIDE DEF Good
<1>13. Good
  BY <1>3, <1>4, <1>5, <1>6, <1>7, <1>8, <1>9, <1>10, <1>11, <1>12 DEF Schedule
<1> QED  BY <1>13 DEF Good

(* The links of the run chain are sound in every program, also in one that *)
(* calls set_priority_sched() and setclock(): no sched is linked twice,    *)
(* and only RUNNING scheds are on the chain.                               *)
THEOREM ChainSound == Spec => []ChainWellFormed
<1>1. Init => ChainWellFormed
  <2> SUFFICES ASSUME Init PROVE ChainWellFormed
    OBVIOUS
  <2>1. runchain = <<>> /\ phase # "picked" /\ DOMAIN runchain = {}
    BY DEF Init
  <2> QED  BY <2>1 DEF ChainWellFormed, WellFormed
<1>2. TypeOK /\ ChainWellFormed /\ [Next]_schedVars => ChainWellFormed'
  <2> SUFFICES ASSUME TypeOK, ChainWellFormed, [Next]_schedVars
               PROVE  ChainWellFormed'
    OBVIOUS
  <2>1. CASE UNCHANGED schedVars
    BY <2>1 DEF ChainWellFormed, schedVars
  <2>2. CASE UserCall
    BY <2>2, UserCallChain DEF ChainWellFormed
  <2> QED  BY <2>1, <2>2, SystemChain DEF Next, Stopped
<1> QED  BY <1>1, <1>2, TypeCorrect, PTL DEF Spec

(* What is needed besides ChainWellFormed for the order of the chain to be *)
(* inductive: priority_sched is never set, so that schedule() takes the    *)
(* front of the chain.                                                     *)
TimeInv == ChainOrdered /\ priority_sched = None /\ NoBadTime

LEMMA TimeInvariant ==
  ASSUME OrderlyCalls
  PROVE  Spec => []TimeInv
<1>1. Init => TimeInv
  <2> SUFFICES ASSUME Init PROVE TimeInv
    OBVIOUS
  <2>1. runchain = <<>> /\ phase # "picked" /\ DOMAIN runchain = {}
    BY DEF Init
  <2> QED  BY <2>1 DEF Init, TimeInv, ChainOrdered, Ordered, NoBadTime
<1>2. TypeOK /\ ChainWellFormed /\ TimeInv /\ [Next]_schedVars => TimeInv'
  <2> SUFFICES ASSUME TypeOK, ChainWellFormed, TimeInv, [Next]_schedVars
               PROVE  TimeInv'
    OBVIOUS
  <2>1. CASE UNCHANGED schedVars
    BY <2>1 DEF TimeInv, ChainOrdered, NoBadTime, schedVars
  <2>2. CASE UserCall
    <3>1. priority_sched' = None
      BY <2>2 DEF TimeInv, OrderlyCalls, UserCall, NewTask, SetTimer, Delay, Sleep,
         Preempt, Cancel, ResultIs, Result, Wait, WaitVec, Enter, Remember, Forget,
         Alert, SetClock, SetPrioritySched, SetClockTask, KeepWaiting, Fail, Calling
    <3> QED  BY <2>2, <3>1, UserCallChain DEF TimeInv, ChainOrdered, NoBadTime
  <2> QED  BY <2>1, <2>2, SystemChain DEF Next, Stopped, TimeInv, NoBadTime
<1> QED  BY <1>1, <1>2, TypeCorrect, ChainSound, PTL DEF Spec

(* In a program without set_priority_sched() and setclock() the run chain  *)
(* is sorted by s_time and nothing on it is overdue.                       *)
THEOREM ChainStaysOrdered ==
  ASSUME OrderlyCalls
  PROVE  Spec => []ChainOrdered
<1>1. TimeInv => ChainOrdered
  BY DEF TimeInv
<1> QED  BY <1>1, TimeInvariant, PTL

(* Such a program never dies of "runchain corrupted: bad time".            *)
THEOREM NeverBadTime ==
  ASSUME OrderlyCalls
  PROVE  Spec => []NoBadTime
<1>1. TimeInv => NoBadTime
  BY DEF TimeInv
<1> QED  BY <1>1, TimeInvariant, PTL

(***************************************************************************)
(* What a step may never do.                                               *)
(***************************************************************************)

(* alert() wakes tasks that are IDLE, and changes no other state.          *)
LEMMA AlertedSpares ==
  ASSUME NEW o, NEW st, NEW time, NEW rc, NEW now, Alerted(o, st, time, rc, now),
         NEW t \in Scheds, st[t] # "IDLE"
  PROVE  s_state'[t] = st[t]
BY DEF Alerted, Idlers

LEMMA CancelledSpares ==
  ASSUME TypeOK, NEW s \in Scheds, NEW val, Cancelled(s, val),
         NEW t \in Scheds, s_state[t] = "TERMINATED"
  PROVE  s_state'[t] = "TERMINATED"
<1> DEFINE st == [s_state EXCEPT ![s] = "TERMINATED"]
<1>1. st[t] = "TERMINATED"
  BY DEF TypeOK
<1>2. Alerted(s, st, [s_time EXCEPT ![s] = val],
              IF s_state[s] = "RUNNING" THEN Without(runchain, s) ELSE runchain, clxck)
  BY DEF Cancelled
<1> HIDE DEF st
<1> QED  BY <1>1, <1>2, AlertedSpares

LEMMA RemovedSpares ==
  ASSUME TypeOK, NEW s \in Scheds, RemovedIfRunning(s),
         NEW t \in Scheds, s_state[t] = "TERMINATED"
  PROVE  s_state'[t] = "TERMINATED"
BY DEF TypeOK, RemovedIfRunning

LEMMA UserCallSpares ==
  ASSUME TypeOK, UserCall, NEW t \in Tasks, s_state[t] = "TERMINATED"
  PROVE  s_state'[t] = "TERMINATED"
<1> USE DEF Scheds
<1>1. ASSUME NEW e, Fail(e) PROVE s_state'[t] = "TERMINATED"
  BY <1>1 DEF Fail
<1>2. ASSUME UNCHANGED s_state PROVE s_state'[t] = "TERMINATED"
  BY <1>2
<1>3. thistask \in Tasks /\ s_state \in [Scheds -> States]
  BY DEF TypeOK
<1>4. ASSUME NEW c \in Tasks, NewTask(c) PROVE s_state'[t] = "TERMINATED"
  BY <1>1, <1>3, <1>4 DEF NewTask, InsertError, Born
<1>5. ASSUME NEW m \in Timers, NEW d \in Delays, SetTimer(m, d)
      PROVE  s_state'[t] = "TERMINATED"
  BY <1>1, <1>3, <1>5, IdentitiesAssumption DEF SetTimer, Inserted
<1>6. ASSUME NEW u \in Tasks, NEW d \in Delays, Delay(u, d)
      PROVE  s_state'[t] = "TERMINATED"
  BY <1>1, <1>3, <1>6 DEF Delay, InsertError, Inserted
<1>7. ASSUME NEW u \in Tasks, NEW o, Sleep(u, o) PROVE s_state'[t] = "TERMINATED"
  BY <1>7, RemovedSpares DEF Sleep
<1>8. ASSUME NEW u \in Tasks, Preempt(u) PROVE s_state'[t] = "TERMINATED"
  BY <1>1, <1>8, RemovedSpares DEF Preempt
<1>9. ASSUME NEW s \in Scheds, NEW val, Cancel(s, val) PROVE s_state'[t] = "TERMINATED"
  BY <1>9, CancelledSpares DEF Cancel
<1>10. ASSUME NEW u \in Tasks, NEW val, ResultIs(u, val)
       PROVE  s_state'[t] = "TERMINATED"
  BY <1>10, CancelledSpares DEF ResultIs
<1>11. ASSUME NEW o, Alert(o) PROVE s_state'[t] = "TERMINATED"
  BY <1>11, AlertedSpares DEF Alert
<1>12. ASSUME \/ \E u \in Tasks : SetClockTask(u)
              \/ \E o, u : Remember(o, u) \/ Forget(o, u)
              \/ \E s \in Scheds : Result(s) \/ SetPrioritySched(s)
              \/ \E o : Wait(o) \/ WaitVec(o) \/ SetClock(o) \/ KeepWaiting(o)
       PROVE  s_state'[t] = "TERMINATED"
  BY <1>12 DEF SetClockTask, Remember, Forget, Result, SetPrioritySched, Wait, WaitVec, SetClock,
               KeepWaiting, Enter, Fail
<1> QED
  BY <1>4, <1>5, <1>6, <1>7, <1>8, <1>9, <1>10, <1>11, <1>12, Zenon DEF UserCall

LEMMA SystemSpares ==
  ASSUME TypeOK, priority_sched = None,
         WaitReturns \/ WaitVecReturns \/ LoopSleeps \/ Schedule \/ PauseReturns,
         NEW t \in Tasks, s_state[t] = "TERMINATED"
  PROVE  s_state'[t] = "TERMINATED"
<1> USE DEF Scheds
<1>1. CASE WaitReturns \/ WaitVecReturns
  BY <1>1 DEF WaitReturns, WaitVecReturns, Return
<1>2. CASE LoopSleeps
  BY <1>2, RemovedSpares DEF LoopSleeps, Fail, TypeOK
<1>3. CASE PickPriority
  BY <1>3 DEF PickPriority, HasPriority
<1>4. CASE PickFront \/ BadTime \/ ResumeTask \/ ResumeClockTask \/ PauseReturns
  BY <1>4 DEF PickFront, BadTime, ResumeTask, ResumeClockTask, PauseReturns, Fail
<1>5. CASE NothingToRun
  BY <1>5 DEF NothingToRun, Born
<1>6. CASE FireTimer
  <2>1. t # picked
    BY <1>6, IdentitiesAssumption DEF FireTimer
  <2>2. [s_state EXCEPT ![picked] = "TERMINATED"][t] = "TERMINATED"
    BY <2>1 DEF TypeOK
  <2> QED  BY <1>6, <2>2, AlertedSpares DEF FireTimer
<1> QED  BY <1>1, <1>2, <1>3, <1>4, <1>5, <1>6 DEF Schedule

(* A task that has terminated is never scheduled again, whatever the other *)
(* tasks do to it, in a program that leaves the next task to the run chain.*)
THEOREM TerminatedForGood ==
  ASSUME OrderlyCalls
  PROVE  Spec => TerminatedStays
<1> DEFINE Stay == \A t \in Tasks : s_state[t] = "TERMINATED" => s_state'[t] = "TERMINATED"
<1>1. TypeOK /\ TimeInv /\ [Next]_schedVars => [Stay]_schedVars
  <2> SUFFICES ASSUME TypeOK, TimeInv, Next, NEW t \in Tasks, s_state[t] = "TERMINATED"
               PROVE  s_state'[t] = "TERMINATED"
    OBVIOUS
  <2>1. CASE UserCall
    BY <2>1, UserCallSpares
  <2>2. CASE Stopped
    BY <2>2 DEF Stopped, schedVars
  <2> QED  BY <2>1, <2>2, SystemSpares DEF Next, TimeInv
<1>2. TerminatedStays <=> [][Stay]_schedVars
  BY DEF TerminatedStays
<1> HIDE DEF Stay
<1> QED  BY <1>1, <1>2, TypeCorrect, TimeInvariant, PTL DEF Spec

(***************************************************************************)
(* The event list of module EventList.                                     *)
(***************************************************************************)

(* What the invariants say of the scheds that are due.                     *)
ListInv == TypeOK /\ ChainWellFormed /\ ChainOrdered

DueSound ==
  /\ Due \in [Scheds -> Int \cup {None}]
  /\ \A s \in Scheds : Due[s] # None <=> s \in Elems(Queue)
  /\ \A s \in Scheds : Due[s] # None => Due[s] = s_time[s] /\ clxck <= Due[s]
  /\ phase = "picked" =>
       /\ picked \in Scheds /\ Due[picked] = s_time[picked]
       /\ \A s \in Scheds : Due[s] # None => s_time[picked] <= Due[s]

LEMMA DueFacts == ListInv => DueSound
<1> SUFFICES ASSUME TypeOK, ChainWellFormed, ChainOrdered PROVE DueSound
  BY DEF ListInv
<1>1. /\ runchain \in Seq(Scheds) /\ s_time \in [Scheds -> Int] /\ clxck \in Int
      /\ phase = "picked" => picked \in Scheds
  BY DEF TypeOK
<1>2. /\ Due \in [Scheds -> Int \cup {None}]
      /\ \A s \in Scheds : Due[s] = IF s \in Elems(Queue) THEN s_time[s] ELSE None
  BY <1>1 DEF Due
<1>3. \A s \in Scheds : Due[s] # None <=> s \in Elems(Queue)
  BY <1>1, <1>2, IdentitiesAssumption
<1>4. CASE phase # "picked"
  <2>1. \A i \in DOMAIN runchain : clxck <= s_time[runchain[i]]
    BY <1>4 DEF ChainOrdered, Ordered
  <2>2. \A s \in Elems(Queue) : clxck <= s_time[s]
    BY <1>4, <2>1 DEF Queue, Elems
  <2> QED  BY <1>2, <1>3, <1>4, <2>2 DEF DueSound
<1>5. CASE phase = "picked"
  <2>1. /\ \A i \in DOMAIN runchain : s_time[picked] <= s_time[runchain[i]]
        /\ clxck <= s_time[picked]
    BY <1>5 DEF ChainOrdered, Ordered
  <2>2. Elems(Queue) = {picked} \cup Elems(runchain)
    <3>1. /\ Queue = <<picked>> \o runchain
          /\ DOMAIN Queue = 1..(1 + Len(runchain)) /\ DOMAIN runchain = 1..Len(runchain)
          /\ Len(runchain) \in Nat
      BY <1>1, <1>5 DEF Queue
    <3>2. \A i \in DOMAIN Queue : Queue[i] = IF i = 1 THEN picked ELSE runchain[i - 1]
      BY <1>1, <3>1
    <3>3. /\ 1 \in DOMAIN Queue
          /\ \A i \in DOMAIN runchain : i + 1 \in DOMAIN Queue /\ Queue[i + 1] = runchain[i]
      BY <3>1, <3>2
    <3>4. Elems(Queue) \subseteq {picked} \cup Elems(runchain)
      BY <3>1, <3>2 DEF Elems
    <3>5. picked \in Elems(Queue)
      BY <3>2, <3>3 DEF Elems
    <3>6. Elems(runchain) \subseteq Elems(Queue)
      BY <3>3 DEF Elems
    <3> QED  BY <3>4, <3>5, <3>6
  <2>3. \A s \in Elems(runchain) : s \in Scheds /\ s_time[picked] <= s_time[s]
    BY <1>1, <2>1, LenProperties DEF Elems
  <2>4. \A s \in Elems(Queue) : s \in Scheds /\ s_time[picked] <= s_time[s]
    BY <1>1, <1>5, <2>2, <2>3
  <2>5. \A s \in Elems(Queue) : clxck <= s_time[s]
    BY <1>1, <1>5, <2>1, <2>4
  <2> QED  BY <1>1, <1>2, <1>3, <1>5, <2>2, <2>4, <2>5 DEF DueSound
<1> QED  BY <1>4, <1>5

(* A step that leaves the clock alone arranges entries, whatever it does.  *)
LEMMA ArrangedStep ==
  ASSUME DueSound', clxck' = clxck
  PROVE  Events!Arrange
<1>1. /\ Due' \in [Scheds -> Int \cup {None}]
      /\ \A s \in Scheds : Due'[s] # None => clxck <= Due'[s]
  BY DEF DueSound
<1> DEFINE changed == {s \in Scheds : Due'[s] # Due[s]}
<1>2. changed \in SUBSET Scheds
  OBVIOUS
<1>3. Events!Rescheduled(changed, clxck)
  BY <1>1 DEF Events!Rescheduled
<1> QED  BY <1>2, <1>3 DEF Events!Arrange

(* A step that runs the picked sched runs an earliest entry.               *)
LEMMA RunStep ==
  ASSUME TypeOK, DueSound, DueSound', phase = "picked", clxck' = s_time[picked],
         Due'[picked] = None
  PROVE  Events!Run(picked)
<1>1. /\ Due' \in [Scheds -> Int \cup {None}]
      /\ \A s \in Scheds : Due'[s] # None => clxck' <= Due'[s]
  BY DEF DueSound
<1>2. /\ picked \in Scheds /\ Due[picked] = s_time[picked] /\ Due[picked] \in Int
      /\ \A s \in Scheds : Due[s] # None => Due[picked] <= Due[s]
  BY DEF DueSound, TypeOK
<1>3. Events!Earliest(picked)
  BY <1>2, IdentitiesAssumption DEF Events!Earliest, Events!Posted
<1> DEFINE changed == {picked} \cup {s \in Scheds : Due'[s] # Due[s]}
<1>4. changed \in SUBSET Scheds /\ picked \in changed
  BY <1>2
<1>5. Events!Rescheduled(changed, clxck')
  BY <1>1 DEF Events!Rescheduled
<1> HIDE DEF changed
<1> QED  BY <1>2, <1>3, <1>4, <1>5 DEF Events!Run

LEMMA TickStep ==
  ASSUME TypeOK, DueSound, phase = "picked", clxck' = s_time[picked], Due' = Due
  PROVE  Events!Tick(picked)
<1>1. /\ picked \in Scheds /\ Due[picked] = s_time[picked] /\ Due[picked] \in Int
      /\ \A s \in Scheds : Due[s] # None => Due[picked] <= Due[s]
  BY DEF DueSound, TypeOK
<1>2. Events!Earliest(picked)
  BY <1>1, IdentitiesAssumption DEF Events!Earliest, Events!Posted
<1> QED  BY <1>1, <1>2 DEF Events!Tick

(* schedule() and the loops: only what runs the picked sched moves the     *)
(* clock.                                                                  *)
LEMMA SystemRuns ==
  ASSUME ListInv, ListInv', DueSound, DueSound',
         WaitReturns \/ WaitVecReturns \/ LoopSleeps \/ Schedule \/ PauseReturns
  PROVE  Events!Next
<1>1. ASSUME clxck' = clxck PROVE Events!Next
  BY <1>1, ArrangedStep DEF Events!Next
<1>2. /\ TypeOK /\ ChainWellFormed /\ ChainWellFormed' /\ TypeOK'
      /\ runchain \in Seq(Scheds)
  BY DEF ListInv, TypeOK
<1>3. CASE WaitReturns \/ WaitVecReturns \/ LoopSleeps \/ PauseReturns \/ PickPriority
           \/ PickFront \/ NothingToRun \/ BadTime
  <2>1. clxck' = clxck
    BY <1>3 DEF WaitReturns, WaitVecReturns, LoopSleeps, PauseReturns, PickPriority,
                PickFront, NothingToRun, BadTime, Return, Fail
  <2> QED  BY <1>1, <2>1
<1>4. CASE ResumeTask
  <2>1. /\ phase = "picked" /\ phase' # "picked" /\ clxck' = s_time[picked]
        /\ runchain' = runchain /\ picked \in Scheds
    BY <1>2, <1>4 DEF ResumeTask, TypeOK
  <2>2. picked \notin Elems(Queue')
    BY <1>2, <2>1 DEF Queue, Elems, ChainWellFormed
  <2>3. Due'[picked] = None
    BY <2>1, <2>2 DEF DueSound
  <2>4. Events!Run(picked)
    BY <1>2, <2>1, <2>3, RunStep
  <2> QED  BY <2>1, <2>4 DEF Events!Next
<1>5. CASE ResumeClockTask
  <2>1. /\ phase = "picked" /\ phase' # "picked" /\ clxck' = s_time[picked]
        /\ runchain' = <<picked>> \o runchain /\ picked \in Scheds /\ s_time' = s_time
    BY <1>2, <1>5 DEF ResumeClockTask, PutBack, TypeOK
  <2>2. Queue' = Queue
    BY <2>1 DEF Queue
  <2>3. Due' = Due
    BY <2>1, <2>2 DEF Due
  <2>4. Events!Tick(picked)
    BY <1>2, <2>1, <2>3, TickStep
  <2> QED  BY <2>1, <2>4 DEF Events!Next
<1>6. CASE FireTimer
  <2>1. /\ phase = "picked" /\ phase' = "schedule" /\ clxck' = s_time[picked]
        /\ picked \in Scheds
        /\ Alerted(picked, [s_state EXCEPT ![picked] = "TERMINATED"], s_time, runchain,
                   s_time[picked])
    BY <1>2, <1>6 DEF FireTimer, TypeOK
  <2>2. [s_state EXCEPT ![picked] = "TERMINATED"][picked] = "TERMINATED"
    BY <1>2, <2>1 DEF TypeOK
  <2>3. s_state'[picked] = "TERMINATED"
    BY <2>1, <2>2, AlertedSpares
  <2>4. \A i \in DOMAIN runchain' : s_state'[runchain'[i]] = "RUNNING"
    BY <1>2 DEF ChainWellFormed, WellFormed
  <2>5. picked \notin Elems(Queue')
    BY <2>1, <2>3, <2>4 DEF Queue, Elems
  <2>6. Due'[picked] = None
    BY <2>1, <2>5 DEF DueSound
  <2>7. Events!Run(picked)
    BY <1>2, <2>1, <2>6, RunStep
  <2> QED  BY <2>1, <2>7 DEF Events!Next
<1> QED  BY <1>3, <1>4, <1>5, <1>6 DEF Schedule

(* The scheduler implements an event list: simulated time moves to the     *)
(* earliest sched that is due and to nothing else, and no sched comes to   *)
(* be due in the past.                                                     *)
THEOREM ImplementsEventList ==
  ASSUME OrderlyCalls
  PROVE  Spec => RunsInOrder
<1>1. Init => Events!Init
  <2> SUFFICES ASSUME Init PROVE Events!Init
    OBVIOUS
  <2>1. runchain = <<>> /\ phase = "user" /\ clxck = 0
    BY DEF Init
  <2>2. Elems(Queue) = {}
    BY <2>1 DEF Queue, Elems
  <2> QED  BY <2>1, <2>2 DEF Events!Init, Due
<1>2. ListInv /\ ListInv' /\ DueSound /\ DueSound' /\ [Next]_schedVars
        => [Events!Next]_(Events!eventVars)
  <2> SUFFICES ASSUME ListInv, ListInv', DueSound, DueSound', [Next]_schedVars
               PROVE  [Events!Next]_(Events!eventVars)
    OBVIOUS
  <2>1. CASE UserCall
    <3>1. clxck' = clxck
      BY <2>1, UserCallChain DEF ListInv
    <3> QED  BY <3>1, ArrangedStep DEF Events!Next
  <2>2. CASE UNCHANGED schedVars
    BY <2>2 DEF schedVars, Events!eventVars, Due, Queue
  <2> QED  BY <2>1, <2>2, SystemRuns DEF Next, Stopped
<1>3. TypeOK /\ ChainWellFormed /\ TimeInv => ListInv
  BY DEF ListInv, TimeInv
<1> QED  BY <1>1, <1>2, <1>3, DueFacts, TypeCorrect, ChainSound, TimeInvariant, PTL
         DEF Spec, RunsInOrder, Events!Spec

(***************************************************************************)
(* Nobody is overtaken.                                                    *)
(***************************************************************************)

(* Of the scheds in S that are on q2, those that were on q keep their      *)
(* order, and a new one is behind all that are due no later.               *)
Waits(q, time2, s, u) ==
  Ahead(q, s, u) \/ (s \in Elems(q) /\ u \notin Elems(q) /\ time2[s] <= time2[u])

KeepsOrder(q, q2, time2, S) ==
  \A s, u \in S :
    Waits(q, time2, s, u) /\ s \in Elems(q2) /\ u \in Elems(q2) => Ahead(q2, s, u)

LEMMA SameOrder ==
  ASSUME NEW q, NEW time2, NEW S
  PROVE  KeepsOrder(q, q, time2, S)
BY DEF KeepsOrder, Waits

LEMMA WithoutAhead ==
  ASSUME NEW c \in Seq(Scheds), NEW x, \A i, j \in DOMAIN c : c[i] = c[j] => i = j
  PROVE  /\ \A s, u : Ahead(c, s, u) /\ s # x /\ u # x => Ahead(Without(c, x), s, u)
         /\ Elems(Without(c, x)) = Elems(c) \ {x}
<1>1. /\ Len(c) \in Nat /\ DOMAIN c = 1..Len(c) /\ Without(c, x) \in Seq(Scheds)
  BY LenProperties, WithoutSeq
<1>2. CASE x \notin Elems(c)
  BY <1>2 DEF Without
<1>3. CASE x \in Elems(c)
  <2> DEFINE d == Without(c, x)
             k == At(c, x)
             g(i) == IF i < k THEN i ELSE i - 1
  <2>1. /\ k \in 1..Len(c) /\ c[k] = x
        /\ Len(d) = Len(c) - 1
        /\ \A j \in 1..(Len(c) - 1) : d[j] = IF j < k THEN c[j] ELSE c[j + 1]
    BY <1>3, WithoutSeq
  <2>2. DOMAIN d = 1..(Len(c) - 1)
    BY <1>1, <2>1, LenProperties
  <2> HIDE DEF d, k
  <2>3. \A i \in DOMAIN c : i # k => g(i) \in DOMAIN d /\ d[g(i)] = c[i]
    BY <1>1, <2>1, <2>2
  <2>4. \A i, j \in DOMAIN c : i # k /\ j # k /\ i < j => g(i) < g(j)
    BY <1>1, <2>1
  <2>5. \A i \in DOMAIN c : c[i] # x <=> i # k
    BY <1>1, <2>1
  <2>6. \A j \in DOMAIN d : \E i \in DOMAIN c : i # k /\ d[j] = c[i]
    <3> SUFFICES ASSUME NEW j \in DOMAIN d
                 PROVE  \E i \in DOMAIN c : i # k /\ d[j] = c[i]
      OBVIOUS
    <3>1. CASE j < k
      <4>1. j \in DOMAIN c /\ j # k /\ d[j] = c[j]
        BY <1>1, <2>1, <2>2, <3>1
      <4> QED  BY <4>1
    <3>2. CASE ~(j < k)
      <4>1. j + 1 \in DOMAIN c /\ j + 1 # k /\ d[j] = c[j + 1]
        BY <1>1, <2>1, <2>2, <3>2
      <4> QED  BY <4>1
    <3> QED  BY <3>1, <3>2
  <2> HIDE DEF g
  <2>7. \A s, u : Ahead(c, s, u) /\ s # x /\ u # x => Ahead(d, s, u)
    <3> SUFFICES ASSUME NEW s, NEW u, Ahead(c, s, u), s # x, u # x PROVE Ahead(d, s, u)
      OBVIOUS
    <3>1. PICK i \in DOMAIN c, j \in DOMAIN c : i < j /\ c[i] = s /\ c[j] = u
      BY DEF Ahead
    <3>2. /\ g(i) \in DOMAIN d /\ g(j) \in DOMAIN d /\ g(i) < g(j)
          /\ d[g(i)] = s /\ d[g(j)] = u
      BY <2>3, <2>4, <2>5, <3>1
    <3> QED  BY <3>2 DEF Ahead
  <2>8. Elems(d) = Elems(c) \ {x}
    <3>1. ASSUME NEW y \in Elems(d) PROVE y \in Elems(c) /\ y # x
      <4>1. PICK j \in DOMAIN d : y = d[j]
        BY <3>1 DEF Elems
      <4>2. PICK i \in DOMAIN c : i # k /\ d[j] = c[i]
        BY <2>6, <4>1
      <4> QED  BY <2>5, <4>1, <4>2 DEF Elems
    <3>2. ASSUME NEW y \in Elems(c), y # x PROVE y \in Elems(d)
      <4>1. PICK i \in DOMAIN c : y = c[i]
        BY <3>2 DEF Elems
      <4>2. g(i) \in DOMAIN d /\ d[g(i)] = y
        BY <2>3, <2>5, <3>2, <4>1
      <4> QED  BY <4>2 DEF Elems
    <3> QED  BY <3>1, <3>2
  <2> QED  BY <2>7, <2>8 DEF d
<1> QED  BY <1>2, <1>3

LEMMA SpliceAhead ==
  ASSUME NEW c \in Seq(Scheds), NEW w \in Seq(Scheds), NEW k \in 0..Len(c)
  PROVE  /\ \A s, u : Ahead(c, s, u) => Ahead(SpliceAt(c, k, w), s, u)
         /\ \A i \in 1..k, j \in DOMAIN w : Ahead(SpliceAt(c, k, w), c[i], w[j])
         /\ Elems(SpliceAt(c, k, w)) = Elems(c) \cup Elems(w)
<1> DEFINE f == SpliceAt(c, k, w)
           g(i) == IF i <= k THEN i ELSE i + Len(w)
<1>1. /\ Len(c) \in Nat /\ DOMAIN c = 1..Len(c)
      /\ Len(w) \in Nat /\ DOMAIN w = 1..Len(w)
  BY LenProperties
<1>2. /\ f \in Seq(Scheds) /\ Len(f) = Len(c) + Len(w)
      /\ \A j \in 1..(Len(c) + Len(w)) :
           f[j] = IF j <= k THEN c[j]
                  ELSE IF j <= k + Len(w) THEN w[j - k] ELSE c[j - Len(w)]
  <2>1. /\ SpliceAt(c, k, w) \in Seq(Scheds)
        /\ Len(SpliceAt(c, k, w)) = Len(c) + Len(w)
        /\ \A j \in 1..(Len(c) + Len(w)) :
             SpliceAt(c, k, w)[j] =
               IF j <= k THEN c[j]
               ELSE IF j <= k + Len(w) THEN w[j - k] ELSE c[j - Len(w)]
    BY SpliceSeq, SMTT(60)
  <2> QED  BY <2>1
<1>3. DOMAIN f = 1..(Len(c) + Len(w))
  BY <1>2, LenProperties
<1> HIDE DEF f
<1>4. \A i \in DOMAIN c : g(i) \in DOMAIN f /\ f[g(i)] = c[i]
  BY <1>1, <1>2, <1>3
<1>5. \A j \in DOMAIN w : k + j \in DOMAIN f /\ f[k + j] = w[j]
  BY <1>1, <1>2, <1>3
<1>6. \A i, j \in DOMAIN c : i < j => g(i) < g(j)
  BY <1>1
<1>7. \A i \in 1..k, j \in DOMAIN w : i \in DOMAIN f /\ f[i] = c[i] /\ i < k + j
  BY <1>1, <1>2, <1>3
<1>8. ASSUME NEW i \in DOMAIN f
      PROVE  f[i] \in Elems(c) \cup Elems(w)
  <2>1. \/ i <= k /\ i \in DOMAIN c /\ f[i] = c[i]
        \/ i > k /\ i <= k + Len(w) /\ i - k \in DOMAIN w /\ f[i] = w[i - k]
        \/ i > k + Len(w) /\ i - Len(w) \in DOMAIN c /\ f[i] = c[i - Len(w)]
    BY <1>1, <1>2, <1>3
  <2> QED  BY <2>1 DEF Elems
<1> HIDE DEF g
<1>9. \A s, u : Ahead(c, s, u) => Ahead(f, s, u)
  <2> SUFFICES ASSUME NEW s, NEW u, Ahead(c, s, u) PROVE Ahead(f, s, u)
    OBVIOUS
  <2>1. PICK i \in DOMAIN c, j \in DOMAIN c : i < j /\ c[i] = s /\ c[j] = u
    BY DEF Ahead
  <2>2. /\ g(i) \in DOMAIN f /\ g(j) \in DOMAIN f /\ g(i) < g(j)
        /\ f[g(i)] = s /\ f[g(j)] = u
    BY <1>4, <1>6, <2>1
  <2> QED  BY <2>2 DEF Ahead
<1>10. \A i \in 1..k, j \in DOMAIN w : Ahead(f, c[i], w[j])
  BY <1>5, <1>7 DEF Ahead
<1>11. Elems(f) = Elems(c) \cup Elems(w)
  <2>1. Elems(f) \subseteq Elems(c) \cup Elems(w)
    BY <1>8 DEF Elems
  <2>2. Elems(c) \subseteq Elems(f)
    BY <1>4 DEF Elems
  <2>3. Elems(w) \subseteq Elems(f)
    BY <1>5 DEF Elems
  <2> QED  BY <2>1, <2>2, <2>3
<1> QED  BY <1>9, <1>10, <1>11 DEF f

(* Splicing in, where insert() does it, scheds that are due at time tt.    *)
Spliced(c, w, now, tt, time, time2) ==
  /\ c \in Seq(Scheds) /\ w \in Seq(Scheds)
  /\ now \in Int /\ tt \in Int /\ time \in [Scheds -> Int]
  /\ Ordered(c, time, now)
  /\ \A i \in DOMAIN c : time2[c[i]] = time[c[i]]
  /\ \A j \in DOMAIN w : time2[w[j]] = tt

LEMMA SpliceOrder ==
  ASSUME NEW c, NEW w, NEW now, NEW tt, NEW time, NEW time2,
         Spliced(c, w, now, tt, time, time2)
  PROVE  /\ KeepsOrder(c, SpliceAt(c, WalkPast(c, time, tt), w), time2, Scheds)
         /\ Elems(SpliceAt(c, WalkPast(c, time, tt), w)) = Elems(c) \cup Elems(w)
<1> USE DEF Spliced
<1> DEFINE k == WalkPast(c, time, tt)
           f == SpliceAt(c, k, w)
<1>1. /\ Len(c) \in Nat /\ DOMAIN c = 1..Len(c) /\ c \in [1..Len(c) -> Scheds]
  BY LenProperties
<1>2. /\ k \in 0..Len(c)
      /\ \A i \in 1..k : time[c[i]] <= tt
      /\ k < Len(c) => tt < time[c[k + 1]]
  BY WalkPastPlace
<1> HIDE DEF k
<1>3. /\ \A s, u : Ahead(c, s, u) => Ahead(f, s, u)
      /\ \A i \in 1..k, j \in DOMAIN w : Ahead(f, c[i], w[j])
      /\ Elems(f) = Elems(c) \cup Elems(w)
  BY <1>2, SpliceAhead
<1> HIDE DEF f
<1>4. \A i \in DOMAIN c : time[c[i]] \in Int
  BY <1>1
<1>5. ASSUME NEW i \in DOMAIN c, time[c[i]] <= tt PROVE i \in 1..k
  <2> SUFFICES ASSUME ~(i <= k) PROVE FALSE
    BY <1>1, <1>2
  <2>1. /\ k + 1 \in DOMAIN c /\ tt < time[c[k + 1]] /\ k + 1 \in Int /\ i \in Int
        /\ (i = k + 1 \/ k + 1 < i)
    BY <1>1, <1>2
  <2>2. k + 1 < i => time[c[k + 1]] <= time[c[i]]
    BY <2>1 DEF Ordered
  <2>3. time[c[k + 1]] \in Int /\ time[c[i]] \in Int
    BY <1>4, <2>1
  <2>4. time[c[k + 1]] <= time[c[i]]
    BY <2>1, <2>2, <2>3
  <2> QED  BY <1>5, <2>1, <2>3, <2>4
<1>6. ASSUME NEW s \in Scheds, NEW u \in Scheds, Waits(c, time2, s, u), u \in Elems(f)
      PROVE  Ahead(f, s, u)
  <2>1. CASE Ahead(c, s, u)
    BY <1>3, <2>1
  <2>2. CASE s \in Elems(c) /\ u \notin Elems(c) /\ time2[s] <= time2[u]
    <3>1. PICK i \in DOMAIN c : c[i] = s
      BY <2>2 DEF Elems
    <3>2. PICK j \in DOMAIN w : w[j] = u
      BY <1>3, <1>6, <2>2 DEF Elems
    <3>3. time[c[i]] <= tt
      BY <2>2, <3>1, <3>2
    <3> QED  BY <1>3, <1>5, <3>1, <3>2, <3>3
  <2> QED  BY <1>6, <2>1, <2>2 DEF Waits
<1>7. KeepsOrder(c, f, time2, Scheds)
  BY <1>6 DEF KeepsOrder
<1> QED  BY <1>3, <1>7 DEF f, k

(* A sched that is taken off the chain first does not count.               *)
LEMMA WithoutOrder ==
  ASSUME NEW c \in Seq(Scheds), NEW x, \A i, j \in DOMAIN c : c[i] = c[j] => i = j,
         NEW c2, NEW time2, KeepsOrder(Without(c, x), c2, time2, Scheds)
  PROVE  KeepsOrder(c, c2, time2, Scheds \ {x})
<1>1. /\ \A s, u : Ahead(c, s, u) /\ s # x /\ u # x => Ahead(Without(c, x), s, u)
      /\ Elems(Without(c, x)) = Elems(c) \ {x}
  BY WithoutAhead
<1>2. ASSUME NEW s, NEW u, s # x, u # x, Waits(c, time2, s, u)
      PROVE  Waits(Without(c, x), time2, s, u)
  BY <1>1, <1>2 DEF Waits
<1> QED  BY <1>2, Zenon DEF KeepsOrder

LEMMA OffOrder ==
  ASSUME NEW q, NEW q2, NEW x, NEW time2, KeepsOrder(q, q2, time2, Scheds \ {x}),
         x \notin Elems(q2)
  PROVE  KeepsOrder(q, q2, time2, Scheds)
BY DEF KeepsOrder

LEMMA AlertOrder ==
  ASSUME o_link \in [Objects -> Seq(Tasks)], NEW o \in Objects,
         NEW st \in [Scheds -> States], NEW time \in [Scheds -> Int],
         NEW rc \in Seq(Scheds), NEW now \in Int, NEW n \in Int,
         WellFormed(rc, st), Ordered(rc, time, n), Alerted(o, st, time, rc, now)
  PROVE  /\ KeepsOrder(rc, runchain', s_time', Scheds)
         /\ \A s \in Elems(runchain') : s \in Elems(rc) \/ st[s] = "IDLE"
<1>1. PICK w \in Seq(Tasks) :
        /\ runchain' = SpliceAt(rc, WalkPast(rc, time, now), w)
        /\ \A i \in 1..Len(w) : st[w[i]] = "IDLE"
        /\ \A i, j \in 1..Len(w) : w[i] = w[j] => i = j
        /\ s_state' = [s \in Scheds |->
                         IF \E i \in 1..Len(w) : w[i] = s THEN "RUNNING" ELSE st[s]]
        /\ s_time'  = [s \in Scheds |->
                         IF \E i \in 1..Len(w) : w[i] = s THEN now ELSE time[s]]
        /\ o_link'  = [o_link EXCEPT ![o] = <<>>]
  BY AlertedSplice
<1>2. w \in Seq(Scheds) /\ DOMAIN w = 1..Len(w)
  <2>1. w \in Seq(Scheds)
    BY SeqMonotonic DEF Scheds
  <2> QED  BY <2>1, LenProperties
<1>3. /\ \A i \in DOMAIN rc : rc[i] \in Scheds
      /\ \A j \in DOMAIN w : w[j] \in Scheds
  BY <1>2, LenProperties
<1>4. \A i \in DOMAIN rc, j \in DOMAIN w : rc[i] # w[j]
  <2>1. \A i \in DOMAIN rc : st[rc[i]] = "RUNNING"
    BY DEF WellFormed
  <2>2. \A j \in DOMAIN w : st[w[j]] = "IDLE"
    BY <1>1, <1>2
  <2> QED  BY <2>1, <2>2
<1>5. /\ \A i \in DOMAIN rc : s_time'[rc[i]] = time[rc[i]]
      /\ \A j \in DOMAIN w : s_time'[w[j]] = now
  BY <1>1, <1>2, <1>3, <1>4
<1>6. /\ KeepsOrder(rc, runchain', s_time', Scheds)
      /\ Elems(runchain') = Elems(rc) \cup Elems(w)
  <2>1. Spliced(rc, w, n, now, time, s_time')
    BY <1>2, <1>5 DEF Spliced
  <2> QED  BY <1>1, <2>1, SpliceOrder
<1>7. \A s \in Elems(w) : st[s] = "IDLE"
  BY <1>1, <1>2 DEF Elems
<1> QED  BY <1>6, <1>7

LEMMA InsertOrder ==
  ASSUME TypeOK, NEW rc \in Seq(Scheds), Ordered(rc, s_time, clxck),
         NEW s \in Scheds, \A i \in DOMAIN rc : rc[i] # s, NEW d \in Int,
         runchain' = SpliceAt(rc, WalkPast(rc, s_time, clxck + d), <<s>>),
         s_time' = [s_time EXCEPT ![s] = clxck + d]
  PROVE  KeepsOrder(rc, runchain', s_time', Scheds)
<1>1. /\ s_time \in [Scheds -> Int] /\ clxck \in Int /\ clxck + d \in Int
      /\ <<s>> \in Seq(Scheds) /\ DOMAIN <<s>> = {1} /\ <<s>>[1] = s
      /\ \A i \in DOMAIN rc : rc[i] \in Scheds
  BY LenProperties DEF TypeOK
<1>2. /\ \A i \in DOMAIN rc : s_time'[rc[i]] = s_time[rc[i]]
      /\ \A j \in DOMAIN <<s>> : s_time'[<<s>>[j]] = clxck + d
  BY <1>1
<1> DEFINE w == <<s>>
           tt == clxck + d
<1>3. /\ w \in Seq(Scheds) /\ tt \in Int /\ runchain' = SpliceAt(rc, WalkPast(rc, s_time, tt), w)
      /\ \A j \in DOMAIN w : s_time'[w[j]] = tt
  BY <1>1, <1>2
<1> HIDE DEF w, tt
<1>4. Spliced(rc, w, clxck, tt, s_time, s_time')
  BY <1>1, <1>2, <1>3 DEF Spliced
<1>5. KeepsOrder(rc, SpliceAt(rc, WalkPast(rc, s_time, tt), w), s_time', Scheds)
  BY <1>4, SpliceOrder
<1> QED  BY <1>3, <1>5

LEMMA CancelOrder ==
  ASSUME TypeOK, ChainWellFormed, Ordered(runchain, s_time, clxck), NEW s \in Scheds,
         NEW val \in Int, Cancelled(s, val)
  PROVE  KeepsOrder(runchain, runchain', s_time', Scheds)
<1> DEFINE st == [s_state EXCEPT ![s] = "TERMINATED"]
           time == [s_time EXCEPT ![s] = val]
           rc == IF s_state[s] = "RUNNING" THEN Without(runchain, s) ELSE runchain
<1>1. /\ st \in [Scheds -> States] /\ time \in [Scheds -> Int] /\ st[s] = "TERMINATED"
      /\ s_state \in [Scheds -> States] /\ s_time \in [Scheds -> Int]
      /\ runchain \in Seq(Scheds) /\ clxck \in Int
      /\ s \in Objects /\ o_link \in [Objects -> Seq(Tasks)]
      /\ WellFormed(runchain, s_state)
      /\ \A i, j \in DOMAIN runchain : runchain[i] = runchain[j] => i = j
  BY DEF TypeOK, States, Objects, ChainWellFormed, WellFormed
<1>2. /\ \A u \in Scheds : u # s => st[u] = s_state[u]
      /\ \A u \in Scheds : u # s => time[u] = s_time[u]
  BY <1>1
<1>3. Alerted(s, st, time, rc, clxck)
  BY DEF Cancelled
<1>4. /\ rc \in Seq(Scheds) /\ WellFormed(rc, st) /\ Ordered(rc, time, clxck)
      /\ s \notin Elems(rc)
  <2>1. CASE s_state[s] = "RUNNING"
    <3> HIDE DEF st, time
    <3>1. Elems(Without(runchain, s)) = Elems(runchain) \ {s}
      BY <1>1, WithoutAhead
    <3> QED  BY ZenonT(60), <1>1, <1>2, <2>1, <3>1, WithoutSeq, WithoutKeeps, WithoutOrdered
  <2>2. CASE s_state[s] # "RUNNING"
    <3>1. \A i \in DOMAIN runchain : runchain[i] \in Scheds /\ runchain[i] # s
      BY <1>1, <2>2, LenProperties DEF WellFormed
    <3> HIDE DEF st, time
    <3> QED  BY <1>1, <1>2, <2>2, <3>1 DEF WellFormed, Ordered, Elems
  <2> QED  BY <2>1, <2>2
<1>5. /\ KeepsOrder(rc, runchain', s_time', Scheds)
      /\ s \notin Elems(runchain')
  <2> HIDE DEF st, time, rc
  <2>1. /\ KeepsOrder(rc, runchain', s_time', Scheds)
        /\ \A u \in Elems(runchain') : u \in Elems(rc) \/ st[u] = "IDLE"
    BY <1>1, <1>3, <1>4, AlertOrder
  <2> QED  BY <1>1, <1>4, <2>1
<1>6. CASE s_state[s] = "RUNNING"
  BY <1>1, <1>5, <1>6, WithoutOrder, OffOrder
<1>7. CASE s_state[s] # "RUNNING"
  BY <1>5, <1>7
<1> QED  BY <1>6, <1>7

LEMMA RemoveOrder ==
  ASSUME TypeOK, ChainWellFormed, NEW s \in Scheds, RemovedIfRunning(s)
  PROVE  KeepsOrder(runchain, runchain', s_time', Scheds)
<1>1. /\ runchain \in Seq(Scheds)
      /\ \A i, j \in DOMAIN runchain : runchain[i] = runchain[j] => i = j
  BY DEF TypeOK, ChainWellFormed, WellFormed
<1>2. CASE s_state[s] = "RUNNING"
  <2>1. runchain' = Without(runchain, s)
    BY <1>2 DEF RemovedIfRunning
  <2>2. s \notin Elems(runchain')
    BY <1>1, <2>1, WithoutAhead
  <2> QED  BY <1>1, <2>1, <2>2, SameOrder, WithoutOrder, OffOrder
<1>3. CASE s_state[s] # "RUNNING"
  BY <1>3, SameOrder DEF RemovedIfRunning
<1> QED  BY <1>2, <1>3

(* The calls.  Only a timer that is reset may change its place.            *)
Resets(s, u) == \E m \in {s, u} \cap Timers, d \in Delays : SetTimer(m, d)

LEMMA UserCallOrder ==
  ASSUME TypeOK, ChainWellFormed, Ordered(runchain, s_time, clxck), UserCall
  PROVE  \/ KeepsOrder(runchain, runchain', s_time', Scheds)
         \/ \E m \in Timers : /\ KeepsOrder(runchain, runchain', s_time', Scheds \ {m})
                             /\ \E d \in Delays : SetTimer(m, d)
<1> DEFINE Good == KeepsOrder(runchain, runchain', s_time', Scheds)
<1>0. /\ runchain \in Seq(Scheds) /\ thistask \in Scheds /\ clxck \in Int
      /\ s_state \in [Scheds -> States] /\ s_time \in [Scheds -> Int]
      /\ WellFormed(runchain, s_state)
      /\ \A i, j \in DOMAIN runchain : runchain[i] = runchain[j] => i = j
      /\ Delays \subseteq Int /\ Results \subseteq Int
  BY BoundsAssumption DEF TypeOK, ChainWellFormed, WellFormed, Scheds
<1>1. ASSUME UNCHANGED runchain PROVE Good
  BY <1>1, SameOrder
<1>2. ASSUME NEW e, Fail(e) PROVE Good
  BY <1>1, <1>2 DEF Fail
<1>3. ASSUME NEW s \in Scheds, NEW d \in Int, InsertError(s, d) = "none"
      PROVE  \A i \in DOMAIN runchain : runchain[i] # s
  BY <1>3 DEF InsertError, Elems
<1>4. ASSUME NEW s \in Scheds, NEW d \in Int, InsertError(s, d) = "none",
             runchain' = SpliceAt(runchain, WalkPast(runchain, s_time, clxck + d), <<s>>),
             s_time' = [s_time EXCEPT ![s] = clxck + d]
      PROVE  Good
  BY <1>0, <1>3, <1>4, InsertOrder
<1>5. ASSUME NEW c \in Tasks, NewTask(c) PROVE Good
  <2>1. CASE InsertError(thistask, 0) # "none"
    BY <1>2, <1>5, <2>1 DEF NewTask
  <2>2. CASE InsertError(thistask, 0) = "none"
    <3>1. /\ runchain' = SpliceAt(runchain, WalkPast(runchain, s_time, clxck), <<thistask>>)
          /\ s_time' = [s_time EXCEPT ![thistask] = clxck]
      BY <1>5, <2>2 DEF NewTask
    <3>2. clxck + 0 = clxck
      BY <1>0
    <3>3. /\ runchain' = SpliceAt(runchain, WalkPast(runchain, s_time, clxck + 0), <<thistask>>)
          /\ s_time' = [s_time EXCEPT ![thistask] = clxck + 0]
      BY <3>1, <3>2
    <3>4. 0 \in Int
      OBVIOUS
    <3> QED  BY <1>0, <1>4, <2>2, <3>3, <3>4, Zenon
  <2> QED  BY <2>1, <2>2
<1>6. ASSUME NEW m \in Timers, NEW d \in Delays, SetTimer(m, d)
      PROVE  Good \/ KeepsOrder(runchain, runchain', s_time', Scheds \ {m})
  <2> DEFINE rc == Without(runchain, m)
  <2>1. CASE Fail("E_NEGTIME")
    BY <1>2, <2>1
  <2>2. CASE ~Fail("E_NEGTIME")
    <3>1. Inserted(m, d, rc)
      BY <1>6, <2>2 DEF SetTimer
    <3>2. /\ runchain' = SpliceAt(rc, WalkPast(rc, s_time, clxck + d), <<m>>)
          /\ s_time' = [s_time EXCEPT ![m] = clxck + d]
      BY <3>1 DEF Inserted
    <3>3. m \in Scheds /\ d \in Int
      BY <1>0 DEF Scheds
    <3>4. /\ rc \in Seq(Scheds) /\ Ordered(rc, s_time, clxck)
          /\ \A i \in DOMAIN rc : rc[i] # m
      BY <1>0, <3>3, WithoutSeq, WithoutOrdered, WithoutKeeps
    <3>5. KeepsOrder(rc, runchain', s_time', Scheds)
      <4> HIDE DEF rc
      <4> QED  BY <3>2, <3>3, <3>4, InsertOrder
    <3> QED  BY <1>0, <3>5, WithoutOrder
  <2> QED  BY <2>1, <2>2
<1>7. ASSUME NEW t \in Tasks, NEW d \in Delays, Delay(t, d) PROVE Good
  <2>1. CASE InsertError(t, d) # "none"
    BY <1>2, <1>7, <2>1 DEF Delay
  <2>2. CASE InsertError(t, d) = "none"
    <3>1. Inserted(t, d, runchain)
      BY <1>7, <2>2 DEF Delay
    <3>2. t \in Scheds /\ d \in Int
      BY <1>0 DEF Scheds
    <3> QED  BY <1>4, <2>2, <3>1, <3>2 DEF Inserted
  <2> QED  BY <2>1, <2>2
<1>8. ASSUME NEW t \in Tasks, NEW o, Sleep(t, o) PROVE Good
  BY <1>8, RemoveOrder DEF Sleep, Scheds
<1>9. ASSUME NEW t \in Tasks, Preempt(t) PROVE Good
  BY <1>2, <1>9, RemoveOrder DEF Preempt, Scheds
<1>10. ASSUME NEW s \in Scheds, NEW val \in Results, Cancel(s, val) PROVE Good
  BY <1>0, <1>1, <1>10, CancelOrder DEF Cancel
<1>11. ASSUME NEW t \in Tasks, NEW val \in Results, ResultIs(t, val) PROVE Good
  BY <1>0, <1>1, <1>11, CancelOrder DEF ResultIs, Scheds
<1>12. ASSUME NEW o \in Objects, Alert(o) PROVE Good
  <2>1. /\ Alerted(o, s_state, s_time, runchain, clxck)
        /\ o_link \in [Objects -> Seq(Tasks)]
    BY <1>12 DEF Alert, TypeOK
  <2> QED  BY <1>0, <2>1, AlertOrder
<1>13. ASSUME \/ \E u \in Tasks : SetClockTask(u)
              \/ \E o, u : Remember(o, u) \/ Forget(o, u)
              \/ \E s \in Scheds : Result(s) \/ SetPrioritySched(s)
              \/ \E o : Wait(o) \/ WaitVec(o) \/ SetClock(o) \/ KeepWaiting(o)
       PROVE  Good
  <2>1. UNCHANGED runchain
    BY <1>13 DEF SetClockTask, Remember, Forget, Result, SetPrioritySched, Wait, WaitVec,
                 SetClock, KeepWaiting, Enter, Fail
  <2> QED  BY <1>1, <2>1
<1> HIDE DEF Good
<1>14. Good \/ \E m \in Timers, d \in Delays : SetTimer(m, d)
  BY <1>5, <1>7, <1>8, <1>9, <1>10, <1>11, <1>12, <1>13, Zenon DEF UserCall
<1> QED  BY <1>6, <1>14, Zenon DEF Good

(* The sched that has been picked is ahead of all, and then it is gone.    *)
LEMMA PickedOrder ==
  ASSUME NEW p, NEW c \in Seq(Scheds), NEW c2, NEW time2,
         p \notin Elems(c2), KeepsOrder(c, c2, time2, Scheds)
  PROVE  KeepsOrder(<<p>> \o c, c2, time2, Scheds)
<1> DEFINE q == <<p>> \o c
<1>1. /\ Len(c) \in Nat /\ DOMAIN c = 1..Len(c)
      /\ DOMAIN q = 1..(Len(c) + 1)
      /\ \A i \in 1..(Len(c) + 1) : q[i] = IF i = 1 THEN p ELSE c[i - 1]
  BY LenProperties
<1> HIDE DEF q
<1>2. ASSUME NEW s, NEW u, Ahead(q, s, u), s # p, u # p PROVE Ahead(c, s, u)
  <2>1. PICK i \in DOMAIN q, j \in DOMAIN q : i < j /\ q[i] = s /\ q[j] = u
    BY <1>2 DEF Ahead
  <2>2. /\ i - 1 \in DOMAIN c /\ j - 1 \in DOMAIN c /\ i - 1 < j - 1
        /\ c[i - 1] = s /\ c[j - 1] = u
    BY <1>1, <1>2, <2>1
  <2> QED  BY <2>2 DEF Ahead
<1>3. ASSUME NEW s, s # p PROVE s \in Elems(q) <=> s \in Elems(c)
  <2>1. ASSUME s \in Elems(q) PROVE s \in Elems(c)
    <3>1. PICK i \in DOMAIN q : q[i] = s
      BY <2>1 DEF Elems
    <3>2. i - 1 \in DOMAIN c /\ c[i - 1] = s
      BY <1>1, <1>3, <3>1
    <3> QED  BY <3>2 DEF Elems
  <2>2. ASSUME s \in Elems(c) PROVE s \in Elems(q)
    <3>1. PICK i \in DOMAIN c : c[i] = s
      BY <2>2 DEF Elems
    <3>2. i + 1 \in DOMAIN q /\ q[i + 1] = s
      BY <1>1, <3>1
    <3> QED  BY <3>2 DEF Elems
  <2> QED  BY <2>1, <2>2
<1>4. ASSUME NEW s \in Scheds, NEW u \in Scheds, Waits(q, time2, s, u),
             s \in Elems(c2), u \in Elems(c2)
      PROVE  Ahead(c2, s, u)
  <2>1. s # p /\ u # p
    BY <1>4
  <2>2. Waits(c, time2, s, u)
    BY <1>2, <1>3, <1>4, <2>1, Zenon DEF Waits
  <2> QED  BY <1>4, <2>2 DEF KeepsOrder
<1> QED  BY <1>4, Zenon DEF KeepsOrder, q

LEMMA SystemOrder ==
  ASSUME ListInv, priority_sched = None,
         WaitReturns \/ WaitVecReturns \/ LoopSleeps \/ Schedule \/ PauseReturns
  PROVE  KeepsOrder(Queue, Queue', s_time', Scheds)
<1> DEFINE Good == KeepsOrder(Queue, Queue', s_time', Scheds)
<1>0. /\ TypeOK /\ ChainWellFormed /\ runchain \in Seq(Scheds) /\ thistask \in Scheds
      /\ s_time \in [Scheds -> Int] /\ s_state \in [Scheds -> States]
      /\ o_link \in [Objects -> Seq(Tasks)]
      /\ phase = "picked" => picked \in Scheds
  BY DEF ListInv, TypeOK, Scheds
<1>1. ASSUME Queue' = Queue PROVE Good
  BY <1>1, SameOrder
<1>2. CASE WaitReturns \/ WaitVecReturns \/ PauseReturns
  <2>1. phase # "picked" /\ phase' # "picked" /\ UNCHANGED runchain
    BY <1>2 DEF WaitReturns, WaitVecReturns, PauseReturns, Return, InLoop
  <2> QED  BY <1>1, <2>1 DEF Queue
<1>3. CASE LoopSleeps
  <2>1. /\ phase # "picked" /\ phase' # "picked"
        /\ UNCHANGED runchain \/ RemovedIfRunning(thistask)
    BY <1>3 DEF LoopSleeps, InLoop, Fail
  <2>2. KeepsOrder(runchain, runchain', s_time', Scheds)
    BY <1>0, <2>1, SameOrder, RemoveOrder
  <2> QED  BY <2>1, <2>2 DEF Queue
<1>4. CASE PickPriority
  BY <1>4 DEF PickPriority, HasPriority
<1>5. CASE PickFront
  <2>1. /\ phase # "picked" /\ phase' = "picked" /\ picked' = Head(runchain)
        /\ runchain' = Tail(runchain) /\ runchain # <<>>
    BY <1>5 DEF PickFront
  <2>2. <<Head(runchain)>> \o Tail(runchain) = runchain
    BY <1>0, <2>1
  <2> QED  BY <1>1, <2>1, <2>2 DEF Queue
<1>6. CASE NothingToRun
  <2>1. phase # "picked" /\ phase' # "picked" /\ UNCHANGED runchain
    BY <1>6 DEF NothingToRun
  <2> QED  BY <1>1, <2>1 DEF Queue
<1>7. CASE BadTime \/ ResumeTask
  <2>1. phase = "picked" /\ phase' # "picked" /\ UNCHANGED runchain
    BY <1>7 DEF BadTime, ResumeTask, Fail
  <2>2. picked \notin Elems(runchain')
    BY <1>0, <2>1 DEF ChainWellFormed, Elems
  <2>3. KeepsOrder(<<picked>> \o runchain, runchain', s_time', Scheds)
    BY <1>0, <2>1, <2>2, SameOrder, PickedOrder
  <2> QED  BY <2>1, <2>3 DEF Queue
<1>8. CASE ResumeClockTask
  <2>1. phase = "picked" /\ phase' # "picked" /\ runchain' = <<picked>> \o runchain
    BY <1>8 DEF ResumeClockTask, PutBack
  <2> QED  BY <1>1, <2>1 DEF Queue
<1>9. CASE FireTimer
  <2> DEFINE st == [s_state EXCEPT ![picked] = "TERMINATED"]
             now == s_time[picked]
  <2>1. /\ phase = "picked" /\ phase' # "picked" /\ picked \in Scheds
        /\ Alerted(picked, st, s_time, runchain, now)
    BY <1>0, <1>9 DEF FireTimer
  <2>2. /\ st \in [Scheds -> States] /\ now \in Int /\ picked \in Objects
        /\ st[picked] = "TERMINATED"
        /\ \A u \in Scheds : u # picked => st[u] = s_state[u]
    BY <1>0, <2>1 DEF States, Objects
  <2>3. picked \notin Elems(runchain) /\ Ordered(runchain, s_time, now)
    BY <2>1 DEF ListInv, ChainWellFormed, ChainOrdered, Elems
  <2>4. WellFormed(runchain, st)
    <3>1. \A i \in DOMAIN runchain : runchain[i] \in Scheds /\ runchain[i] # picked
      BY <1>0, <2>3, LenProperties DEF Elems
    <3> HIDE DEF st
    <3> QED  BY <1>0, <2>2, <3>1 DEF ChainWellFormed, WellFormed
  <2> HIDE DEF st, now
  <2>5. /\ KeepsOrder(runchain, runchain', s_time', Scheds)
        /\ \A u \in Elems(runchain') : u \in Elems(runchain) \/ st[u] = "IDLE"
    BY <1>0, <2>1, <2>2, <2>3, <2>4, AlertOrder
  <2>6. picked \notin Elems(runchain')
    BY <2>2, <2>3, <2>5
  <2>7. KeepsOrder(<<picked>> \o runchain, runchain', s_time', Scheds)
    BY <1>0, <2>5, <2>6, PickedOrder
  <2> QED  BY <2>1, <2>7 DEF Queue
<1> QED  BY <1>2, <1>3, <1>4, <1>5, <1>6, <1>7, <1>8, <1>9 DEF Schedule

(* First come, first served, for any number of tasks and timers: scheds    *)
(* that wait for the processor keep their order, and one that comes to     *)
(* wait goes behind all that are due no later.                             *)
THEOREM NobodyIsOvertaken ==
  ASSUME OrderlyCalls
  PROVE  Spec => NoOvertaking
<1> DEFINE Fair == \A s, u \in Scheds :
                     /\ Precedes(s, u)
                     /\ s \in Elems(Queue') /\ u \in Elems(Queue')
                     => Ahead(Queue', s, u)
                        \/ \E m \in {s, u} \cap Timers, d \in Delays : SetTimer(m, d)
<1>1. ListInv /\ TimeInv /\ [Next]_schedVars => [Fair]_schedVars
  <2> SUFFICES ASSUME ListInv, TimeInv, Next, NEW s \in Scheds, NEW u \in Scheds,
                      Waits(Queue, s_time', s, u), s \in Elems(Queue'), u \in Elems(Queue')
               PROVE  Ahead(Queue', s, u) \/ Resets(s, u)
    BY Zenon DEF Precedes, Waits, Resets
  <2>1. ASSUME KeepsOrder(Queue, Queue', s_time', Scheds) PROVE Ahead(Queue', s, u)
    BY <2>1 DEF KeepsOrder
  <2>2. CASE UserCall
    <3>1. phase = "user" /\ phase' # "picked"
      BY <2>2, UserCallChain DEF ListInv
    <3>2. /\ Queue = runchain /\ Queue' = runchain' /\ TypeOK /\ ChainWellFormed
          /\ Ordered(runchain, s_time, clxck)
      BY <3>1 DEF Queue, ListInv, ChainOrdered
    <3>3. CASE KeepsOrder(runchain, runchain', s_time', Scheds)
      BY <2>1, <3>2, <3>3
    <3>4. ASSUME NEW m \in Timers, NEW d \in Delays, SetTimer(m, d),
                 KeepsOrder(runchain, runchain', s_time', Scheds \ {m})
          PROVE  Ahead(Queue', s, u) \/ Resets(s, u)
      <4>1. CASE m \in {s, u}
        BY <3>4, <4>1, Zenon DEF Resets
      <4>2. CASE m \notin {s, u}
        BY <3>2, <3>4, <4>2 DEF KeepsOrder
      <4> QED  BY <4>1, <4>2
    <3> QED  BY <2>2, <3>2, <3>3, <3>4, UserCallOrder, Zenon
  <2>3. CASE Stopped
    <3>1. Queue' = Queue
      BY <2>3 DEF Stopped, schedVars, Queue
    <3> QED  BY <2>1, <3>1, SameOrder
  <2>4. CASE WaitReturns \/ WaitVecReturns \/ LoopSleeps \/ Schedule \/ PauseReturns
    BY <2>1, <2>4, SystemOrder DEF TimeInv
  <2> QED  BY <2>2, <2>3, <2>4 DEF Next
<1>2. NoOvertaking <=> [][Fair]_schedVars
  BY PTL DEF NoOvertaking
<1>3. TypeOK /\ ChainWellFormed /\ TimeInv => ListInv
  BY DEF ListInv, TimeInv
<1> HIDE DEF Fair
<1> QED  BY <1>1, <1>2, <1>3, TypeCorrect, ChainSound, TimeInvariant, PTL DEF Spec

(***************************************************************************)
(* No wakeup is lost.                                                      *)
(***************************************************************************)

\* Nobody takes a task from what it waits for, or puts another to sleep.
LeavesWaiters == Api \cap {"forget", "sleep_other", "preempt"} = {}

LEMMA WithoutElems ==
  ASSUME NEW c \in Seq(Tasks), NEW x, NEW t \in Elems(c), t # x
  PROVE  t \in Elems(Without(c, x))
<1>1. Len(c) \in Nat /\ DOMAIN c = 1..Len(c)
  BY LenProperties
<1>2. PICK i \in 1..Len(c) : c[i] = t
  BY <1>1 DEF Elems
<1>3. CASE x \notin Elems(c)
  BY <1>3 DEF Without
<1>4. CASE x \in Elems(c)
  <2> DEFINE d == Without(c, x)
             k == At(c, x)
  <2>1. /\ k \in 1..Len(c) /\ c[k] = x
        /\ d = [j \in 1..(Len(c) - 1) |-> IF j < k THEN c[j] ELSE c[j + 1]]
    BY <1>1, <1>4, AtIsIndex DEF Without
  <2> HIDE DEF d, k
  <2>2. i # k
    BY <1>2, <2>1
  <2>3. CASE i < k
    <3>1. i \in DOMAIN d /\ d[i] = t
      BY <1>1, <1>2, <2>1, <2>3
    <3> QED  BY <3>1 DEF Elems, d
  <2>4. CASE i > k
    <3>1. i - 1 \in DOMAIN d /\ d[i - 1] = t
      BY <1>1, <1>2, <2>1, <2>4
    <3> QED  BY <3>1 DEF Elems, d
  <2> QED  BY <1>1, <1>2, <2>1, <2>2, <2>3, <2>4
<1> QED  BY <1>3, <1>4

LEMMA RememberingElems ==
  ASSUME NEW c \in Seq(Tasks), NEW x \in Tasks
  PROVE  /\ x \in Elems(Remembering(c, x))
         /\ \A t \in Elems(c) : t \in Elems(Remembering(c, x))
<1> DEFINE d == Without(c, x)
<1>1. d \in Seq(Tasks)
  BY WithoutSeq
<1>2. \A t \in Elems(c) : t = x \/ t \in Elems(d)
  BY WithoutElems
<1> HIDE DEF d
<1>3. /\ DOMAIN d = 1..Len(d) /\ Len(d) \in Nat
      /\ DOMAIN (<<x>> \o d) = 1..Len(d) + 1
      /\ (<<x>> \o d)[1] = x
      /\ \A i \in 1..Len(d) : (<<x>> \o d)[i + 1] = d[i] /\ i + 1 \in 1..Len(d) + 1
  BY <1>1
<1>4. 1 \in 1..Len(d) + 1
  BY <1>3
<1>5. x \in Elems(<<x>> \o d)
  BY <1>3, <1>4 DEF Elems
<1>6. ASSUME NEW t \in Elems(d) PROVE t \in Elems(<<x>> \o d)
  <2>1. PICK i \in 1..Len(d) : d[i] = t
    BY <1>3 DEF Elems
  <2>2. i + 1 \in DOMAIN (<<x>> \o d) /\ (<<x>> \o d)[i + 1] = t
    BY <1>3, <2>1
  <2> QED  BY <2>2 DEF Elems
<1> QED  BY <1>2, <1>5, <1>6 DEF Remembering, d

(* A task that alert() leaves IDLE was not on the chain.                   *)
LEMMA AlertedWakes ==
  ASSUME o_link \in [Objects -> Seq(Tasks)], NEW o \in Objects,
         NEW st, NEW time, NEW rc, NEW now, Alerted(o, st, time, rc, now)
  PROVE  /\ \A t \in Tasks : s_state'[t] = "IDLE" =>
              /\ st[t] = "IDLE" /\ t \notin Elems(o_link[o])
              /\ \A x \in Objects : t \in Elems(o_link[x]) => t \in Elems(o_link'[x])
         /\ \A s \in Scheds : s_state'[s] = "TERMINATED" => st[s] = "TERMINATED"
<1> USE DEF Scheds
<1>1. \A s \in Scheds : s_state'[s] = IF s \in Idlers(o, st) THEN "RUNNING" ELSE st[s]
  BY DEF Alerted
<1>2. \A t \in Tasks : s_state'[t] = "IDLE" => st[t] = "IDLE" /\ t \notin Elems(o_link[o])
  BY <1>1 DEF Idlers
<1>3. \A x \in Objects : x # o => o_link'[x] = o_link[x]
  BY DEF Alerted
<1> QED  BY <1>1, <1>2, <1>3

\* A task that sleeps and is not running; one that sleeps in a loop.
Going == phase \in {"user", "schedule", "picked", "pausing"}

Dozing(t) == s_state[t] = "IDLE" /\ Going /\ (phase = "user" => t # thistask)

Sleeping(t) ==
  /\ call[t].loop # "none" /\ s_state[t] = "IDLE"
  /\ Going /\ (phase = "user" => t # thistask)

\* It slept before, is still on the chains it was on, and nothing of what it
\* waits for has terminated.
Dozes(t) ==
  /\ Dozing(t) /\ call'[t] = call[t]
  /\ \A o \in Objects : t \in Elems(o_link[o]) =>
       /\ t \in Elems(o_link'[o])
       /\ Pending(o) => Pending(o)'

\* It slept before, and what it heard of, it still hears of.
Stays(t) ==
  /\ Sleeping(t) /\ call'[t] = call[t]
  /\ \A o \in Objects : t \in Elems(o_link[o]) /\ Pending(o)
                        => t \in Elems(o_link'[o]) /\ Pending(o)'

LEMMA StayingHear ==
  ASSUME TypeOK, WaitersHeard, \A t \in Tasks : Sleeping(t)' => Stays(t)
  PROVE  WaitersHeard'
<1> SUFFICES ASSUME NEW t \in Tasks, Sleeping(t)', NEW o \in call'[t].on
             PROVE  t \in Elems(o_link'[o]) /\ Pending(o)'
  BY DEF WaitersHeard, Sleeping, Going
<1>1. Stays(t)
  OBVIOUS
<1>2. call[t] \in Calls /\ o \in call[t].on
  BY <1>1 DEF Stays, TypeOK
<1>3. o \in Objects
  BY <1>2 DEF Calls
<1>4. t \in Elems(o_link[o]) /\ Pending(o)
  BY <1>1, <1>2 DEF Stays, Sleeping, Going, WaitersHeard
<1> QED  BY <1>1, <1>3, <1>4 DEF Stays

\* The chains keep their tasks, and nothing terminates.
LEMMA QuietDozes ==
  ASSUME NEW t \in Tasks, Dozing(t)', Going,
         s_state'[t] = s_state[t], call'[t] = call[t], phase = "user" => t # thistask,
         \A s \in Scheds : s_state'[s] = "TERMINATED" => s_state[s] = "TERMINATED",
         \A o \in Objects : t \in Elems(o_link[o]) => t \in Elems(o_link'[o])
  PROVE  Dozes(t)
<1>1. Dozing(t)
  BY DEF Dozing
<1>2. \A o \in Objects : Pending(o) => Pending(o)'
  BY DEF Pending
<1> QED  BY <1>1, <1>2 DEF Dozes

(* alert() of an object that terminates, or just of an object.             *)
LEMMA AlertedDozes ==
  ASSUME TypeOK, NEW o \in Objects, NEW st, NEW time, NEW rc, NEW now,
         Alerted(o, st, time, rc, now),
         st = s_state \/ (o \in Scheds /\ st = [s_state EXCEPT ![o] = "TERMINATED"]),
         NEW t \in Tasks, Dozing(t)', Going, call'[t] = call[t], phase = "user" => t # thistask
  PROVE  Dozes(t)
<1> USE DEF Scheds
<1>1. /\ o_link \in [Objects -> Seq(Tasks)] /\ s_state \in [Scheds -> States]
  BY DEF TypeOK
<1>2. /\ st[t] = "IDLE" /\ t \notin Elems(o_link[o])
      /\ \A x \in Objects : t \in Elems(o_link[x]) => t \in Elems(o_link'[x])
      /\ \A s \in Scheds : s_state'[s] = "TERMINATED" => st[s] = "TERMINATED"
  BY <1>1, AlertedWakes DEF Dozing
<1>3. Dozing(t)
  BY <1>1, <1>2 DEF Dozing
<1>4. \A x \in Objects : x # o /\ Pending(x) => Pending(x)'
  BY <1>1, <1>2 DEF Pending
<1> QED  BY <1>2, <1>3, <1>4 DEF Dozes

LEMMA RemovedStates ==
  ASSUME TypeOK, NEW u \in Scheds, RemovedIfRunning(u)
  PROVE  /\ \A s \in Scheds : s # u => s_state'[s] = s_state[s]
         /\ \A s \in Scheds : s_state'[s] = "TERMINATED" => s_state[s] = "TERMINATED"
         /\ s_state'[u] = "IDLE" => s_state[u] # "TERMINATED"
BY DEF TypeOK, RemovedIfRunning

LEMMA UserCallDozes ==
  ASSUME TypeOK, LeavesWaiters, UserCall, NEW t \in Tasks, t # thistask, Dozing(t)'
  PROVE  Dozes(t)
<1> USE DEF Scheds
<1>0. /\ thistask \in Tasks /\ s_state \in [Scheds -> States] /\ call \in [Tasks -> Calls]
      /\ o_link \in [Objects -> Seq(Tasks)]
  BY DEF TypeOK
<1>1. ASSUME NEW e, Fail(e) PROVE FALSE
  BY <1>1 DEF Fail, Dozing, Going
<1>2. ASSUME NEW name, Calling(name), call' = call
      PROVE  Going /\ t # thistask /\ call'[t] = call[t]
  BY <1>2 DEF Calling, Going, Dozing
<1>3. ASSUME NEW c \in Tasks, NewTask(c) PROVE Dozes(t)
  <2>1. Calling("task") /\ call' = call /\ UNCHANGED o_link
        /\ s_state' = [s_state EXCEPT ![thistask] = "RUNNING", ![c] = "RUNNING"]
    BY <1>1, <1>3 DEF NewTask
  <2>2. /\ s_state'[t] = s_state[t]
        /\ \A s \in Scheds : s_state'[s] = "TERMINATED" => s_state[s] = "TERMINATED"
    BY <1>0, <2>1 DEF Dozing
  <2> QED  BY <1>2, <2>1, <2>2, QuietDozes
<1>4. ASSUME NEW s \in Scheds, NEW d, NEW rc, Inserted(s, d, rc), UNCHANGED <<o_link, call>>,
             NEW name, Calling(name)
      PROVE  Dozes(t)
  <2>1. /\ s_state'[t] = s_state[t]
        /\ \A x \in Scheds : s_state'[x] = "TERMINATED" => s_state[x] = "TERMINATED"
    BY <1>0, <1>4 DEF Inserted, Dozing
  <2> QED  BY <1>2, <1>4, <2>1, QuietDozes
<1>5. ASSUME NEW m \in Timers, NEW d \in Delays, SetTimer(m, d) PROVE Dozes(t)
  BY <1>1, <1>4, <1>5 DEF SetTimer
<1>6. ASSUME NEW u \in Tasks, NEW d \in Delays, Delay(u, d) PROVE Dozes(t)
  BY <1>1, <1>4, <1>6 DEF Delay
<1>7. ASSUME NEW u \in Tasks, NEW o \in Objects \cup {None}, Sleep(u, o) PROVE Dozes(t)
  <2>1. u = thistask /\ Calling("sleep") /\ call' = call
    BY <1>7 DEF Sleep, Calling, LeavesWaiters
  <2>2. RemovedIfRunning(u)
    BY <1>7 DEF Sleep
  <2>3. t # u /\ Going /\ call'[t] = call[t] /\ t # thistask
    BY <1>2, <2>1
  <2>4. \A x \in Objects : t \in Elems(o_link[x]) => t \in Elems(o_link'[x])
    <3>1. CASE o_link' = o_link
      BY <3>1
    <3>2. CASE o \in Objects /\ o_link' = [o_link EXCEPT ![o] = Remembering(@, u)]
      BY <1>0, <2>1, <3>2, RememberingElems
    <3> QED  BY <1>7, <3>1, <3>2 DEF Sleep
  <2> QED  BY <2>2, <2>3, <2>4, RemovedStates, QuietDozes
<1>8. ASSUME NEW s \in Scheds, NEW val, Cancelled(s, val), call' = call, NEW name, Calling(name)
      PROVE  Dozes(t)
  <2> DEFINE st == [s_state EXCEPT ![s] = "TERMINATED"]
             time == [s_time EXCEPT ![s] = val]
             rc == IF s_state[s] = "RUNNING" THEN Without(runchain, s) ELSE runchain
  <2>1. Alerted(s, st, time, rc, clxck)
    BY <1>8 DEF Cancelled
  <2>2. s \in Objects /\ Going /\ t # thistask /\ call'[t] = call[t]
    BY <1>2, <1>8 DEF Objects
  <2>3. st = [s_state EXCEPT ![s] = "TERMINATED"]
    OBVIOUS
  <2> HIDE DEF st, time, rc
  <2> QED  BY <2>1, <2>2, <2>3, AlertedDozes
<1>9. ASSUME UNCHANGED <<s_state, o_link, call>>, NEW name, Calling(name)
      PROVE  Dozes(t)
  BY <1>2, <1>9, QuietDozes
<1>10. ASSUME NEW s \in Scheds, NEW val, Cancel(s, val) PROVE Dozes(t)
  BY <1>8, <1>9, <1>10 DEF Cancel
<1>11. ASSUME NEW u \in Tasks, NEW val, ResultIs(u, val) PROVE Dozes(t)
  BY <1>8, <1>9, <1>11 DEF ResultIs
<1>12. ASSUME NEW o \in Objects, Alert(o) PROVE Dozes(t)
  <2>1. Calling("alert") /\ call' = call /\ Alerted(o, s_state, s_time, runchain, clxck)
    BY <1>12 DEF Alert
  <2> QED  BY <1>2, <2>1, AlertedDozes
<1>13. ASSUME NEW o \in Objects, NEW u \in Tasks, Remember(o, u) PROVE Dozes(t)
  <2>1. Calling("remember") /\ UNCHANGED <<call, s_state>>
        /\ o_link' = [o_link EXCEPT ![o] = Remembering(@, u)]
    BY <1>13 DEF Remember
  <2>2. \A x \in Objects : t \in Elems(o_link[x]) => t \in Elems(o_link'[x])
    BY <1>0, <2>1, RememberingElems
  <2> QED  BY <1>2, <2>1, <2>2, QuietDozes
<1>14. ASSUME NEW loop, NEW S, NEW name, Calling(name), Enter(loop, S) PROVE Dozes(t)
  <2>1. t # thistask /\ Going /\ UNCHANGED <<s_state, o_link>>
    BY <1>14 DEF Calling, Enter, Going, Dozing
  <2>2. call'[t] = call[t]
    BY <1>0, <1>14, <2>1 DEF Enter
  <2> QED  BY <2>1, <2>2, QuietDozes
<1>15. ASSUME \/ \E s \in Scheds : Result(s)
              \/ \E o \in Objects : Wait(o)
              \/ \E S \in Lists : WaitVec(S)
       PROVE  Dozes(t)
  BY <1>1, <1>14, <1>15 DEF Result, Wait, WaitVec
<1>16. ASSUME \/ \E u \in Tasks : SetClockTask(u)
              \/ \E s \in Scheds : SetPrioritySched(s)
              \/ \E x \in Times : SetClock(x)
              \/ KeepWaiting(1) \/ KeepWaiting(-1)
       PROVE  Dozes(t)
  BY <1>1, <1>9, <1>16 DEF SetClockTask, SetPrioritySched, SetClock, KeepWaiting
<1>17. \A u \in Tasks : ~ Preempt(u) /\ \A o : ~ Forget(o, u)
  BY DEF Preempt, Forget, Calling, LeavesWaiters
<1> QED
  BY <1>3, <1>5, <1>6, <1>7, <1>10, <1>11, <1>12, <1>13, <1>15, <1>16, <1>17 DEF UserCall

LEMMA ScheduleDozes ==
  ASSUME TypeOK, Schedule \/ PauseReturns, NEW t \in Tasks, Dozing(t)'
  PROVE  Dozes(t)
<1> USE DEF Scheds
<1>0. /\ thistask \in Tasks /\ s_state \in [Scheds -> States] /\ call' = call
      /\ (phase = "picked" => picked \in Scheds) /\ priority_sched \in Scheds \cup {None}
  BY DEF TypeOK, Schedule, PickPriority, PickFront, NothingToRun, BadTime, Fail, ResumeTask,
         ResumeClockTask, FireTimer, PauseReturns
<1>1. CASE PickPriority
  <2>1. /\ Going /\ phase # "user" /\ UNCHANGED o_link /\ priority_sched \in Scheds
        /\ s_state' = [s_state EXCEPT ![priority_sched] = "RUNNING"]
    BY <1>0, <1>1 DEF PickPriority, HasPriority, Going
  <2>2. /\ s_state'[t] = s_state[t]
        /\ \A s \in Scheds : s_state'[s] = "TERMINATED" => s_state[s] = "TERMINATED"
    BY <1>0, <2>1 DEF Dozing
  <2> QED  BY <1>0, <2>1, <2>2, QuietDozes
<1>2. CASE PickFront \/ ResumeTask \/ ResumeClockTask \/ PauseReturns
  <2>1. Going /\ phase # "user" /\ UNCHANGED <<o_link, s_state>>
    BY <1>2 DEF PickFront, ResumeTask, ResumeClockTask, PauseReturns, Going
  <2> QED  BY <1>0, <2>1, QuietDozes
<1>3. CASE NothingToRun
  <2>1. Going /\ phase # "user" /\ UNCHANGED <<o_link, s_state>>
    BY <1>3 DEF NothingToRun, Going, Dozing
  <2> QED  BY <1>0, <2>1, QuietDozes
<1>4. CASE BadTime
  BY <1>4 DEF BadTime, Fail, Dozing, Going
<1>5. CASE FireTimer
  <2> DEFINE st == [s_state EXCEPT ![picked] = "TERMINATED"]
             now == s_time[picked]
  <2>1. /\ Going /\ phase # "user" /\ picked \in Scheds /\ picked \in Objects
        /\ Alerted(picked, st, s_time, runchain, now)
    BY <1>0, <1>5 DEF FireTimer, Going, Objects
  <2>2. st = [s_state EXCEPT ![picked] = "TERMINATED"]
    OBVIOUS
  <2> HIDE DEF st, now
  <2> QED  BY <1>0, <2>1, <2>2, AlertedDozes
<1> QED  BY <1>1, <1>2, <1>3, <1>4, <1>5 DEF Schedule

(* The call of thistask returns, which may then be forgotten.              *)
LEMMA ReturnsDozes ==
  ASSUME TypeOK, phase = "user", Return, NEW t \in Tasks, Dozing(t)',
         \A o \in Objects : o_link'[o] \in {o_link[o], Without(o_link[o], thistask)}
  PROVE  Dozes(t)
<1>0. /\ thistask \in Tasks /\ call \in [Tasks -> Calls] /\ o_link \in [Objects -> Seq(Tasks)]
  BY DEF TypeOK
<1>1. call' = [call EXCEPT ![thistask] = NotInCall] /\ UNCHANGED <<s_state, phase, thistask>>
  BY DEF Return
<1>2. t # thistask /\ Going /\ call'[t] = call[t]
  BY <1>0, <1>1 DEF Dozing, NotInCall, Going
<1>3. \A o \in Objects : t \in Elems(o_link[o]) => t \in Elems(o_link'[o])
  BY <1>0, <1>2, WithoutElems
<1> QED  BY <1>1, <1>2, <1>3, QuietDozes

\* All of this of a task that sleeps in a loop.
LEMMA SleepingStays ==
  ASSUME NEW t \in Tasks, Sleeping(t)', Dozes(t)
  PROVE  Stays(t)
BY DEF Sleeping, Dozing, Dozes, Stays

LEMMA QuietStays ==
  ASSUME NEW t \in Tasks, Sleeping(t)', Going,
         s_state'[t] = s_state[t], call'[t] = call[t], phase = "user" => t # thistask,
         \A s \in Scheds : s_state'[s] = "TERMINATED" => s_state[s] = "TERMINATED",
         \A o \in Objects : t \in Elems(o_link[o]) => t \in Elems(o_link'[o])
  PROVE  Stays(t)
BY QuietDozes, SleepingStays DEF Sleeping, Dozing

LEMMA UserCallPhase ==
  ASSUME UserCall
  PROVE  phase = "user" /\ call[thistask].loop = "none"
BY DEF UserCall, NewTask, Preempt, SetClockTask, Delay, Sleep, Remember, Forget, ResultIs,
       SetTimer, Result, SetPrioritySched, Cancel, Wait, Alert, WaitVec, SetClock,
       KeepWaiting, Calling

LEMMA SchedulePhase ==
  ASSUME Schedule
  PROVE  phase \in {"schedule", "picked"}
BY DEF Schedule, PickPriority, PickFront, NothingToRun, BadTime, ResumeTask,
       ResumeClockTask, FireTimer

\* The calls that enter a loop change nothing else.
LEMMA UserCallEnters ==
  ASSUME UserCall
  PROVE  call' = call \/ UNCHANGED <<phase, thistask>>
BY DEF UserCall, NewTask, Preempt, SetClockTask, Delay, Sleep, Remember, Forget, ResultIs,
       SetTimer, Result, SetPrioritySched, Cancel, Wait, Alert, WaitVec, SetClock,
       KeepWaiting, Fail, Enter

LEMMA UserCallStays ==
  ASSUME TypeOK, LeavesWaiters, UserCall, NEW t \in Tasks, Sleeping(t)'
  PROVE  Stays(t)
<1>1. t # thistask
  BY UserCallEnters, UserCallPhase DEF Sleeping
<1> QED  BY <1>1, UserCallDozes, SleepingStays DEF Sleeping, Dozing

LEMMA ScheduleStays ==
  ASSUME TypeOK, Schedule \/ PauseReturns, NEW t \in Tasks, Sleeping(t)'
  PROVE  Stays(t)
BY ScheduleDozes, SleepingStays DEF Sleeping, Dozing

LEMMA ReturnsStays ==
  ASSUME TypeOK, phase = "user", Return, NEW t \in Tasks, Sleeping(t)',
         \A o \in Objects : o_link'[o] \in {o_link[o], Without(o_link[o], thistask)}
  PROVE  Stays(t)
BY ReturnsDozes, SleepingStays DEF Sleeping, Dozing

LEMMA AlertedStays ==
  ASSUME TypeOK, NEW o \in Objects, NEW st, NEW time, NEW rc, NEW now,
         Alerted(o, st, time, rc, now),
         st = s_state \/ (o \in Scheds /\ st = [s_state EXCEPT ![o] = "TERMINATED"]),
         NEW t \in Tasks, Sleeping(t)', Going, call'[t] = call[t], phase = "user" => t # thistask
  PROVE  Stays(t)
BY AlertedDozes, SleepingStays DEF Sleeping, Dozing

(* The loop that sleeps is heard by all it waits for; the rest stays.      *)
LEMMA LoopSleepsHeard ==
  ASSUME TypeOK, WaitersHeard, LoopSleeps
  PROVE  WaitersHeard'
<1> USE DEF Scheds
<1>0. /\ thistask \in Tasks /\ s_state \in [Scheds -> States] /\ call \in [Tasks -> Calls]
      /\ o_link \in [Objects -> Seq(Tasks)]
  BY DEF TypeOK
<1>1. CASE \E e : Fail(e)
  <2>1. \A t \in Tasks : ~ Sleeping(t)'
    BY <1>1 DEF Fail, Sleeping, Going
  <2> QED  BY <2>1, StayingHear
<1>2. CASE ~ \E e : Fail(e)
  <2>1. /\ phase = "user" /\ phase' = "schedule" /\ call' = call /\ RemovedIfRunning(thistask)
        /\ \A o \in On : Pending(o)
        /\ o_link' = [o \in Objects |->
                        IF o \in On /\ s_state[thistask] # "TERMINATED"
                        THEN Remembering(o_link[o], thistask) ELSE o_link[o]]
    BY <1>2 DEF LoopSleeps, InLoop
  <2>2. \A o \in Objects : \A t \in Elems(o_link[o]) : t \in Elems(o_link'[o])
    BY <1>0, <2>1, RememberingElems
  <2>3. /\ \A s \in Scheds : s # thistask => s_state'[s] = s_state[s]
        /\ \A s \in Scheds : s_state'[s] = "TERMINATED" => s_state[s] = "TERMINATED"
        /\ s_state'[thistask] = "IDLE" => s_state[thistask] # "TERMINATED"
    BY <1>0, <2>1, RemovedStates
  <2>4. ASSUME NEW t \in Tasks, Sleeping(t)', NEW o \in call'[t].on
        PROVE  t \in Elems(o_link'[o]) /\ Pending(o)'
    <3>1. o \in Objects /\ o \in call[t].on
      BY <1>0, <2>1, <2>4 DEF Calls
    <3>2. CASE t = thistask
      <4>1. o \in On /\ s_state[thistask] # "TERMINATED"
        BY <2>3, <2>4, <3>1, <3>2 DEF On, Sleeping
      <4>2. o_link'[o] = Remembering(o_link[o], thistask)
        BY <2>1, <3>1, <4>1
      <4>3. Pending(o)'
        BY <2>1, <2>3, <4>1 DEF Pending
      <4> QED  BY <1>0, <3>1, <3>2, <4>2, <4>3, RememberingElems
    <3>3. CASE t # thistask
      <4>1. Stays(t)
        BY <2>1, <2>2, <2>3, <2>4, <3>3, QuietStays DEF Going
      <4>2. t \in Elems(o_link[o]) /\ Pending(o)
        BY <3>1, <4>1 DEF Stays, Sleeping, Going, WaitersHeard
      <4> QED  BY <3>1, <4>1, <4>2 DEF Stays
    <3> QED  BY <3>2, <3>3
  <2> QED  BY <2>4 DEF WaitersHeard, Sleeping, Going
<1> QED  BY <1>1, <1>2

(* A task that sleeps in wait(), result() or waitvec() is remembered by all*)
(* that it waits for, and all of that is still pending, in a program that  *)
(* leaves waiting tasks to what they wait for (task.c, obj.c).             *)
THEOREM NoWakeupIsLost ==
  ASSUME LeavesWaiters
  PROVE  Spec => []WaitersHeard
<1>1. Init => WaitersHeard
  BY DEF Init, WaitersHeard, NotInCall
<1>2. TypeOK /\ WaitersHeard /\ [Next]_schedVars => WaitersHeard'
  <2> SUFFICES ASSUME TypeOK, WaitersHeard, [Next]_schedVars PROVE WaitersHeard'
    OBVIOUS
  <2>1. CASE UserCall
    BY <2>1, UserCallStays, StayingHear
  <2>2. CASE WaitReturns \/ WaitVecReturns
    <3>1. /\ phase = "user" /\ Return
          /\ \A o \in Objects : o_link'[o] \in {o_link[o], Without(o_link[o], thistask)}
      BY <2>2 DEF WaitReturns, WaitVecReturns, InLoop
    <3> QED  BY <3>1, ReturnsStays, StayingHear
  <2>3. CASE LoopSleeps
    BY <2>3, LoopSleepsHeard
  <2>4. CASE Schedule \/ PauseReturns
    BY <2>4, ScheduleStays, StayingHear
  <2>5. CASE Stopped \/ UNCHANGED schedVars
    BY <2>5 DEF Stopped, schedVars, WaitersHeard, Pending
  <2> QED  BY <2>1, <2>2, <2>3, <2>4, <2>5 DEF Next
<1> QED  BY <1>1, <1>2, TypeCorrect, PTL DEF Spec

\* A call leaves other tasks to the scheduler, and thistask awake.
LeftAlone ==
  /\ clock_task' = clock_task \/ "clock_task" \in Api
  /\ priority_sched' = priority_sched \/ "set_priority_sched" \in Api
  /\ \A t \in Tasks : t # thistask => call'[t] = call[t]
  /\ \A s \in Scheds : Born(s) => Born(s)'
  /\ phase' \in {"user", "schedule", "error"}
  /\ phase' = "user" /\ s_state[thistask] # "IDLE" => s_state'[thistask'] # "IDLE"
  /\ thistask' # thistask => s_state[thistask'] = "UNBORN"

LEMMA AlertedStates ==
  ASSUME TypeOK, NEW o, NEW st \in [Scheds -> States], NEW time, NEW rc, NEW now,
         Alerted(o, st, time, rc, now)
  PROVE  \A s \in Scheds : s_state'[s] = st[s] \/ s_state'[s] = "RUNNING"
BY DEF Alerted

LEMMA UserCallLeaves ==
  ASSUME TypeOK, LeavesWaiters, UserCall
  PROVE  LeftAlone
<1> USE DEF Scheds
<1>0. /\ thistask \in Tasks /\ s_state \in [Scheds -> States] /\ call \in [Tasks -> Calls]
      /\ phase = "user"
  BY UserCallPhase DEF TypeOK
<1>1. ASSUME NEW e, Fail(e) PROVE LeftAlone
  BY <1>1 DEF Fail, LeftAlone, Born
<1>2. ASSUME UNCHANGED <<thistask, call>>,
             clock_task' = clock_task \/ "clock_task" \in Api,
             priority_sched' = priority_sched \/ "set_priority_sched" \in Api,
             phase' \in {"user", "schedule"},
             \A s \in Scheds : s_state'[s] # s_state[s] => s_state'[s] \in {"RUNNING", "TERMINATED"}
      PROVE  LeftAlone
  BY <1>0, <1>2 DEF LeftAlone, Born
<1>3. ASSUME NEW c \in Tasks, NewTask(c) PROVE LeftAlone
  <2>1. CASE \E e : Fail(e)
    BY <1>1, <2>1
  <2>2. CASE ~ \E e : Fail(e)
    <3>1. /\ UNCHANGED <<clock_task, priority_sched, call, phase>> /\ thistask' = c
          /\ s_state' = [s_state EXCEPT ![thistask] = "RUNNING", ![c] = "RUNNING"]
          /\ s_state[c] = "UNBORN"
      BY <1>0, <1>3, <2>2 DEF NewTask, Born, TypeOK, States
    <3> QED  BY <1>0, <3>1 DEF LeftAlone, Born
  <2> QED  BY <2>1, <2>2
<1>4. ASSUME NEW s \in Scheds, NEW d, NEW rc, Inserted(s, d, rc),
             UNCHANGED <<clock_task, priority_sched, thistask, call>>,
             phase' \in {"user", "schedule"}
      PROVE  LeftAlone
  BY <1>0, <1>2, <1>4 DEF Inserted
<1>5. ASSUME NEW m \in Timers, NEW d \in Delays, SetTimer(m, d) PROVE LeftAlone
  BY <1>0, <1>1, <1>4, <1>5 DEF SetTimer
<1>6. ASSUME NEW u \in Tasks, NEW d \in Delays, Delay(u, d) PROVE LeftAlone
  BY <1>1, <1>4, <1>6 DEF Delay, GoesOn
<1>7. ASSUME NEW u \in Tasks, NEW o \in Objects \cup {None}, Sleep(u, o) PROVE LeftAlone
  <2>1. /\ u = thistask /\ phase' = "schedule" /\ RemovedIfRunning(u)
        /\ UNCHANGED <<clock_task, priority_sched, thistask, call>>
    BY <1>7 DEF Sleep, Calling, LeavesWaiters, GoesOn
  <2>2. \A s \in Scheds : Born(s) => Born(s)'
    BY <1>0, <2>1 DEF RemovedIfRunning, Born
  <2> QED  BY <2>1, <2>2 DEF LeftAlone
<1>8. ASSUME NEW s \in Scheds, NEW val, Cancelled(s, val),
             UNCHANGED <<clock_task, priority_sched, thistask, call>>,
             phase' \in {"user", "schedule"}
      PROVE  LeftAlone
  <2> DEFINE st == [s_state EXCEPT ![s] = "TERMINATED"]
  <2>1. Alerted(s, st, [s_time EXCEPT ![s] = val],
                IF s_state[s] = "RUNNING" THEN Without(runchain, s) ELSE runchain, clxck)
    BY <1>8 DEF Cancelled
  <2>2. st \in [Scheds -> States] /\ \A x \in Scheds : st[x] # s_state[x] => st[x] = "TERMINATED"
    BY <1>0 DEF States
  <2> HIDE DEF st
  <2>3. \A x \in Scheds : s_state'[x] = st[x] \/ s_state'[x] = "RUNNING"
    BY <2>1, <2>2, AlertedStates
  <2> QED  BY <1>2, <1>8, <2>2, <2>3
<1>9. ASSUME NEW s \in Scheds, NEW val, Cancel(s, val) PROVE LeftAlone
  BY <1>0, <1>2, <1>8, <1>9 DEF Cancel
<1>10. ASSUME NEW u \in Tasks, NEW val, ResultIs(u, val) PROVE LeftAlone
  BY <1>0, <1>2, <1>8, <1>10 DEF ResultIs, GoesOn
<1>11. ASSUME NEW o \in Objects, Alert(o) PROVE LeftAlone
  <2>1. \A s \in Scheds : s_state'[s] = s_state[s] \/ s_state'[s] = "RUNNING"
    BY <1>0, <1>11, AlertedStates DEF Alert
  <2> QED  BY <1>0, <1>2, <1>11, <2>1 DEF Alert
<1>12. ASSUME NEW loop, NEW S, Enter(loop, S) PROVE LeftAlone
  BY <1>0, <1>12 DEF Enter, LeftAlone, Born
<1>13. ASSUME \/ \E s \in Scheds : Result(s)
              \/ \E o \in Objects : Wait(o)
              \/ \E S \in Lists : WaitVec(S)
       PROVE  LeftAlone
  BY <1>1, <1>12, <1>13 DEF Result, Wait, WaitVec
<1>14. ASSUME \/ \E o \in Objects, u \in Tasks : Remember(o, u)
              \/ \E u \in Tasks : SetClockTask(u)
              \/ \E s \in Scheds : SetPrioritySched(s)
              \/ \E x \in Times : SetClock(x)
              \/ KeepWaiting(1) \/ KeepWaiting(-1)
       PROVE  LeftAlone
  BY <1>0, <1>1, <1>2, <1>14
  DEF Remember, SetClockTask, SetPrioritySched, SetClock, KeepWaiting, Calling
<1>15. \A u \in Tasks : ~ Preempt(u) /\ \A o : ~ Forget(o, u)
  BY DEF Preempt, Forget, Calling, LeavesWaiters
<1> QED
  BY <1>3, <1>5, <1>6, <1>7, <1>9, <1>10, <1>11, <1>13, <1>14, <1>15 DEF UserCall
============================================================================
