------------------------- MODULE TaskServicesProofs -------------------------
(***************************************************************************)
(* Proofs about what the task library builds on its scheduler, for any     *)
(* tasks and timers.                                                       *)
(*                                                                         *)
(* TaskInterrupts, for any handlers and signals: a signal with a handler   *)
(* is caught, and no interrupt is lost.                                    *)
(*                                                                         *)
(* QueueTasks, for any objects and any bound: nobody sleeps beside work.   *)
(*                                                                         *)
(* QueueFilter, for any objects, bound and ends: nobody notices the filter.*)
(***************************************************************************)
EXTENDS QueueFilter, TaskInterrupts, TaskSchedProofs

(***************************************************************************)
(* The handlers of every signal, in any program.                           *)
(***************************************************************************)

\* Half way through a constructor or destructor only the signals interrupt.
Halfway ==
  half # NoHalf =>
    /\ phase \in {"user", "error"}
    /\ thistask # Alerter /\ Born(Alerter) /\ call[thistask].loop = "none"
    /\ half.op = "constructor" =>
         /\ keep_waiting_count < MaxKeep
         /\ ~Exists(half.h) /\ ~got[half.h]

\* No handler is of two signals, or twice in the list of one.
Apart == \A x, y \in Signals : x # y => Elems(hnd[x]) \cap Elems(hnd[y]) = {}

OneEach ==
  \A sig \in Signals : \A i, j \in DOMAIN hnd[sig] : hnd[sig][i] = hnd[sig][j] => i = j

HandlersInv ==
  /\ ITypeOK
  /\ paused => phase \in {"pausing", "error"}
  /\ Halfway
  /\ OneEach /\ Apart

LEMMA HandlersAreObjects == Handlers \subseteq Objects /\ Alerter \in Tasks /\ Tasks \subseteq Scheds
BY InterruptsAssumption DEF Objects, Scheds

LEMMA HalfFields ==
  ASSUME half \in Halves, half # NoHalf
  PROVE  /\ half.op \in {"constructor", "destructor"}
         /\ half.h \in Handlers /\ half.sig \in Signals
BY DEF Halves

LEMMA NotHalf == NoHalf.op \notin {"constructor", "destructor"} /\ NoHalf \in Halves
BY DEF NoHalf, Halves

(* A step of the scheduler leaves the handlers alone.                      *)
LEMMA SchedKeepsHandlers ==
  ASSUME HandlersInv, TypeOK', UNCHANGED interruptVars, half = NoHalf,
         ~paused
  PROVE  HandlersInv'
BY DEF HandlersInv, ITypeOK, interruptVars, Halfway, OneEach, Apart, Halves

(* What the scheduler does within the composition.                         *)
LEMMA SchedHandlers ==
  ASSUME HandlersInv,
         \/ StaticConstruction
         \/ UserRuns /\ Scheduling(UserCall)
         \/ ILoopSleeps
         \/ Scheduling(Schedule)
  PROVE  HandlersInv'
<1>1. UNCHANGED interruptVars
  BY DEF StaticConstruction, Scheduling, ILoopSleeps
<1>2. UserCall \/ LoopSleeps \/ Schedule
  BY HandlersAreObjects DEF StaticConstruction, Scheduling, ILoopSleeps, UserCall
<1>3. TypeOK'
  BY <1>2, UserCallType, SystemType DEF HandlersInv, ITypeOK
<1>4. phase \in {"user", "schedule", "picked"}
  BY <1>2, UserCallPhase, SchedulePhase DEF LoopSleeps, InLoop
<1>5. half = NoHalf
  <2>1. CASE StaticConstruction
    BY <2>1 DEF StaticConstruction, Scheduling, NewTask, HandlersInv, Halfway
  <2>2. CASE UserRuns
    BY <2>2 DEF UserRuns
  <2>3. CASE ILoopSleeps
    BY <2>3 DEF ILoopSleeps, Scheduling, LoopSleeps, InLoop, HandlersInv, Halfway
  <2>4. CASE Scheduling(Schedule)
    BY <2>4, SchedulePhase DEF Scheduling, HandlersInv, Halfway
  <2> QED  BY <2>1, <2>2, <2>3, <2>4
<1>6. ~paused
  BY <1>4 DEF HandlersInv
<1> QED  BY <1>1, <1>3, <1>5, <1>6, SchedKeepsHandlers

(* The alerter, and what other tasks make of its calls.                    *)
LEMMA QuietKeepsHandlers ==
  ASSUME HandlersInv, TypeOK', UNCHANGED <<hnd, installed, half>>, half = NoHalf,
         got' \in [Handlers -> BOOLEAN], at' \in 0..NASS, paused' = paused, ~paused
  PROVE  HandlersInv'
BY DEF HandlersInv, ITypeOK, Halfway, OneEach, Apart

LEMMA AlerterHandlers ==
  ASSUME HandlersInv, AlerterSleeps \/ AlerterLooks
  PROVE  HandlersInv'
<1> USE DEF HandlersInv, ITypeOK
<1>1. /\ thistask = Alerter /\ phase = "user"
      /\ UNCHANGED <<hnd, got, installed, half, paused>>
  BY DEF AlerterSleeps, AlerterLooks
<1>2. half = NoHalf /\ ~paused
  BY <1>1 DEF Halfway
<1>3. at' \in 0..NASS
  BY InterruptsAssumption DEF AlerterSleeps, AlerterLooks, NextLook, Signals
<1>4. TypeOK'
  <2>1. CASE AlerterSleeps
    <3>1. runchain' \in Seq(Scheds) /\ s_state' \in [Scheds -> States]
      BY <2>1, HandlersAreObjects, RemovedType DEF AlerterSleeps
    <3> QED  BY <1>1, <2>1, <3>1 DEF AlerterSleeps, TypeOK, Phases
  <2>2. CASE AlerterLooks
    <3>1. /\ runchain' \in Seq(Scheds) /\ s_state' \in [Scheds -> States]
          /\ s_time' \in [Scheds -> Int] /\ o_link' \in [Objects -> Seq(Tasks)]
      <4>1. CASE Marked(at)
        <5>1. /\ hnd[at] \in Seq(Handlers) /\ hnd[at] # <<>>
              /\ Alerted(Head(hnd[at]), s_state, s_time, runchain, clxck)
          BY <2>2, <4>1 DEF AlerterLooks, Marked
        <5>2. Head(hnd[at]) \in Objects
          BY <5>1, HandlersAreObjects
        <5> QED  BY <5>1, <5>2, AlertedType DEF TypeOK
      <4>2. CASE ~Marked(at)
        BY <2>2, <4>2 DEF AlerterLooks, TypeOK
      <4> QED  BY <4>1, <4>2
    <3> QED  BY <1>1, <2>2, <3>1 DEF AlerterLooks, TypeOK
  <2> QED  BY <2>1, <2>2
<1> QED  BY <1>1, <1>2, <1>3, <1>4, QuietKeepsHandlers

LEMMA ReturnHandlers ==
  ASSUME HandlersInv, IWaitReturns \/ IWaitVecReturns
  PROVE  HandlersInv'
<1> USE DEF HandlersInv, ITypeOK
<1>1. /\ Return /\ phase = "user" /\ call[thistask].loop # "none"
      /\ UNCHANGED <<hnd, installed, half, at, paused>>
      /\ got' \in [Handlers -> BOOLEAN]
  BY DEF IWaitReturns, IWaitVecReturns, Return, InLoop, Unmarked
<1>2. half = NoHalf /\ ~paused
  BY <1>1 DEF Halfway
<1>3. o_link' \in [Objects -> Seq(Tasks)]
  <2>1. \A o \in Objects : Without(o_link[o], thistask) \in Seq(Tasks)
    BY WithoutSeq DEF TypeOK
  <2> QED  BY <2>1 DEF IWaitReturns, IWaitVecReturns, TypeOK
<1>4. call' \in [Tasks -> Calls]
  <2>1. NotInCall \in Calls
    BY DEF NotInCall, Calls
  <2> QED  BY <1>1, <2>1 DEF Return, TypeOK
<1>5. TypeOK'
  BY <1>1, <1>3, <1>4 DEF Return, TypeOK
<1> QED  BY <1>1, <1>2, <1>5, QuietKeepsHandlers

LEMMA SignalHandlers ==
  ASSUME HandlersInv, NEW sig \in Signals, sigFunc(sig)
  PROVE  HandlersInv'
<1> USE DEF HandlersInv, ITypeOK
<1>1. CASE hnd[sig] = <<>>
  <2>1. Fail("E_NO_HNDLR") /\ UNCHANGED <<hnd, got, installed, half, at, paused>>
    BY <1>1 DEF sigFunc
  <2>2. TypeOK'
    BY <2>1 DEF TypeOK, Fail, Phases, Errors
  <2>3. Halfway'
    BY <2>1 DEF Fail, Halfway, Exists, Born
  <2> QED  BY <2>1, <2>2, <2>3 DEF OneEach, Apart, Fail
<1>2. CASE hnd[sig] # <<>>
  <2>1. /\ got' = [got EXCEPT ![Head(hnd[sig])] = TRUE]
        /\ s_time' = [s_time EXCEPT ![Alerter] = clxck]
        /\ priority_sched' = Alerter /\ phase' = Unpaused /\ paused' = FALSE
        /\ UNCHANGED <<thistask, runchain, clxck, clock_task, keep_waiting_count,
                       s_state, o_link, call, picked, error>>
        /\ UNCHANGED <<hnd, installed, half, at>>
    BY <1>2 DEF sigFunc
  <2>0. phase' = phase \/ (phase = "pausing" /\ phase' = "schedule")
    BY <2>1 DEF sigFunc, Unpaused
  <2>2. TypeOK'
    <3>1. s_time' \in [Scheds -> Int] /\ priority_sched' \in Scheds \cup {None}
      BY <2>1, HandlersAreObjects DEF TypeOK
    <3> QED  BY <2>0, <2>1, <3>1 DEF TypeOK, Phases
  <2>3. got' \in [Handlers -> BOOLEAN]
    BY <2>1
  <2>4. half # NoHalf => phase' = phase
    BY <2>0 DEF Halfway
  <2>5. ~Exists(half.h) => half.h # Head(hnd[sig])
    <3>1. hnd[sig] \in Seq(Handlers) /\ hnd[sig] # <<>>
      BY <1>2
    <3>2. 1 \in DOMAIN hnd[sig] /\ Head(hnd[sig]) = hnd[sig][1]
      BY <3>1
    <3> QED  BY <3>2 DEF Exists, Elems
  <2>6. Halfway'
    <3> SUFFICES ASSUME half # NoHalf PROVE Halfway'
      BY <2>1 DEF Halfway
    <3>1. half.op = "constructor" => got'[half.h] = got[half.h]
      BY <2>1, <2>5 DEF Halfway
    <3> QED  BY <2>1, <2>4, <3>1 DEF Halfway, Exists, Born
  <2> QED  BY <2>1, <2>2, <2>3, <2>6 DEF OneEach, Apart
<1> QED  BY <1>1, <1>2

LEMMA ConstructHandlers ==
  ASSUME HandlersInv, NEW h \in Handlers, NEW sig \in Signals, Construct(h, sig)
  PROVE  HandlersInv'
<1> USE DEF HandlersInv, ITypeOK
<1>1. /\ phase = "user" /\ call[thistask].loop = "none" /\ UserRuns /\ ~Exists(h)
      /\ keep_waiting_count < MaxKeep
      /\ UNCHANGED <<thistask, priority_sched, clxck, clock_task, keep_waiting_count,
                     call, phase, picked, error, hnd, at, paused>>
      /\ got' = [got EXCEPT ![h] = FALSE]
      /\ half' = [op |-> "constructor", h |-> h, sig |-> sig]
      /\ installed' \subseteq Signals
  BY DEF Construct, Calling
<1>2. /\ runchain' \in Seq(Scheds) /\ s_state' \in [Scheds -> States]
      /\ s_time' \in [Scheds -> Int] /\ o_link' \in [Objects -> Seq(Tasks)]
      /\ s_state'[Alerter] # "UNBORN"
  <2>1. CASE OldToAlert(sig)
    <3>1. /\ hnd[sig] \in Seq(Handlers) /\ hnd[sig] # <<>>
          /\ Alerted(Head(hnd[sig]), s_state, s_time, runchain, clxck)
      BY <2>1 DEF Construct, OldToAlert, Marked
    <3>2. Head(hnd[sig]) \in Objects
      BY <3>1, HandlersAreObjects
    <3>3. s_state'[Alerter] \in {s_state[Alerter], "RUNNING"}
      BY <3>1, HandlersAreObjects DEF Alerted
    <3> QED  BY <1>1, <3>1, <3>2, <3>3, AlertedType DEF TypeOK, UserRuns, Born
  <2>2. CASE ~OldToAlert(sig)
    BY <1>1, <2>2 DEF Construct, TypeOK, UserRuns, Born
  <2> QED  BY <2>1, <2>2
<1>3. TypeOK'
  BY <1>1, <1>2 DEF TypeOK
<1>4. half' \in Halves /\ got' \in [Handlers -> BOOLEAN] /\ ~got'[h] /\ ~paused
  BY <1>1 DEF Halves
<1>5. Halfway'
  BY <1>1, <1>2, <1>4 DEF Halfway, UserRuns, Exists, Born
<1> QED  BY <1>1, <1>3, <1>4, <1>5 DEF OneEach, Apart

LEMMA ConstructedHandlers ==
  ASSUME HandlersInv, Constructed
  PROVE  HandlersInv'
<1> USE DEF HandlersInv, ITypeOK
<1>1. /\ phase = "user" /\ half.op = "constructor" /\ half # NoHalf /\ half' = NoHalf
      /\ hnd' = [hnd EXCEPT ![half.sig] = <<half.h>> \o @]
      /\ keep_waiting_count' = keep_waiting_count + 1
      /\ UNCHANGED <<thistask, runchain, priority_sched, clxck, clock_task, s_state,
                     s_time, o_link, call, phase, picked, error, got, installed, at,
                     paused>>
  BY NotHalf DEF Constructed
<1>2. half.h \in Handlers /\ half.sig \in Signals /\ ~Exists(half.h)
      /\ keep_waiting_count < MaxKeep
  BY <1>1, HalfFields DEF Halfway
<1>3. TypeOK'
  <2>1. keep_waiting_count' \in -MaxKeep..MaxKeep
    BY <1>1, <1>2, BoundsAssumption DEF TypeOK
  <2> QED  BY <1>1, <2>1 DEF TypeOK
<1> DEFINE h == half.h
           c == hnd[half.sig]
           d == <<h>> \o c
<1>4. c \in Seq(Handlers) /\ h \in Handlers /\ h \notin Elems(c)
  BY <1>2 DEF Exists
<1>5. hnd'[half.sig] = d /\ \A sig \in Signals : sig # half.sig => hnd'[sig] = hnd[sig]
  BY <1>1, <1>2
<1>6. \A i, j \in DOMAIN c : c[i] = c[j] => i = j
  BY <1>2 DEF OneEach
<1> HIDE DEF h, c
<1>7. /\ d \in Seq(Handlers) /\ Len(c) \in Nat /\ DOMAIN c = 1..Len(c)
      /\ DOMAIN d = 1..(Len(c) + 1)
      /\ \A i \in 1..(Len(c) + 1) : d[i] = IF i = 1 THEN h ELSE c[i - 1]
  BY <1>4, ConsSeq
<1>8. \A i \in DOMAIN c : c[i] # h
  BY <1>4 DEF Elems
<1> HIDE DEF d
<1>9. \A i, j \in DOMAIN d : d[i] = d[j] => i = j
  <2> SUFFICES ASSUME NEW i \in 1..(Len(c) + 1), NEW j \in 1..(Len(c) + 1), d[i] = d[j]
               PROVE  i = j
    BY <1>7
  <2>1. i # 1 => i - 1 \in DOMAIN c /\ d[i] = c[i - 1]
    BY <1>7
  <2>2. j # 1 => j - 1 \in DOMAIN c /\ d[j] = c[j - 1]
    BY <1>7
  <2>3. CASE i # 1 /\ j # 1
    <3>1. i - 1 = j - 1
      BY <1>6, <2>1, <2>2, <2>3
    <3> QED  BY <1>7, <3>1
  <2>4. CASE i = 1 \/ j = 1
    <3>1. d[1] = h
      BY <1>7
    <3> QED  BY <1>8, <2>1, <2>2, <2>4, <3>1
  <2> QED  BY <2>3, <2>4
<1>10. hnd' \in [Signals -> Seq(Handlers)]
  BY <1>1, <1>5, <1>7
<1>11. OneEach'
  BY <1>5, <1>9 DEF OneEach
<1>13. Elems(d) \subseteq Elems(c) \cup {h}
  BY <1>7 DEF Elems
<1>14. \A y \in Signals : h \notin Elems(hnd[y])
  BY <1>2 DEF Exists, h
<1>15. Apart'
  <2> SUFFICES ASSUME NEW x \in Signals, NEW y \in Signals, x # y
               PROVE  Elems(hnd'[x]) \cap Elems(hnd'[y]) = {}
    BY DEF Apart
  <2>1. Elems(hnd[x]) \cap Elems(hnd[y]) = {}
    BY DEF Apart
  <2> QED  BY <1>5, <1>13, <1>14, <2>1 DEF c
<1>12. half' \in Halves /\ Halfway' /\ ~paused
  BY <1>1, NotHalf DEF Halfway
<1> QED  BY <1>1, <1>3, <1>10, <1>11, <1>12, <1>15

LEMMA DestroyHandlers ==
  ASSUME HandlersInv, NEW h \in Handlers, NEW sig \in Signals, Destroy(h, sig)
  PROVE  HandlersInv'
<1> USE DEF HandlersInv, ITypeOK
<1> DEFINE c == hnd[sig]
           d == Without(c, h)
<1>1. /\ phase = "user" /\ call[thistask].loop = "none" /\ UserRuns
      /\ h \in Elems(c) /\ hnd' = [hnd EXCEPT ![sig] = d]
      /\ keep_waiting_count' = keep_waiting_count - 1
      /\ keep_waiting_count > -MaxKeep
      /\ half' \in {NoHalf, [op |-> "destructor", h |-> h, sig |-> sig]}
      /\ UNCHANGED <<thistask, runchain, priority_sched, clxck, clock_task, s_state,
                     s_time, o_link, call, phase, picked, error, got, installed, at,
                     paused>>
  BY DEF Destroy, Calling
<1>2. TypeOK'
  <2>1. keep_waiting_count' \in -MaxKeep..MaxKeep
    BY <1>1, BoundsAssumption DEF TypeOK
  <2> QED  BY <1>1, <2>1 DEF TypeOK
<1>3. half' \in Halves /\ half'.op # "constructor"
  BY <1>1, NotHalf DEF Halves
<1>4. Halfway'
  BY <1>1, <1>3 DEF Halfway, UserRuns, Born
<1>5. c \in Seq(Handlers) /\ \A i, j \in DOMAIN c : c[i] = c[j] => i = j
  BY DEF OneEach
<1>6. hnd'[sig] = d /\ \A x \in Signals : x # sig => hnd'[x] = hnd[x]
  BY <1>1
<1> HIDE DEF c
<1>7. /\ d \in Seq(Handlers) /\ Len(c) \in Nat /\ DOMAIN c = 1..Len(c)
      /\ At(c, h) \in 1..Len(c) /\ DOMAIN d = 1..(Len(c) - 1)
      /\ \A j \in 1..(Len(c) - 1) : d[j] = IF j < At(c, h) THEN c[j] ELSE c[j + 1]
  <2>1. /\ d \in Seq(Handlers) /\ Len(d) = Len(c) - 1 /\ At(c, h) \in 1..Len(c)
        /\ \A j \in 1..(Len(c) - 1) : d[j] = IF j < At(c, h) THEN c[j] ELSE c[j + 1]
    BY <1>1, <1>5, WithoutSeq
  <2> HIDE DEF d
  <2> QED  BY <1>5, <2>1
<1> HIDE DEF d
<1>8. \A i, j \in DOMAIN d : d[i] = d[j] => i = j
  <2> SUFFICES ASSUME NEW i \in 1..(Len(c) - 1), NEW j \in 1..(Len(c) - 1), d[i] = d[j]
               PROVE  i = j
    BY <1>7
  <2> DEFINE k == At(c, h)
             p(x) == IF x < k THEN x ELSE x + 1
  <2>1. k \in 1..Len(c) /\ p(i) \in DOMAIN c /\ p(j) \in DOMAIN c
    BY <1>7
  <2>2. d[i] = c[p(i)] /\ d[j] = c[p(j)]
    BY <1>7
  <2> HIDE DEF k
  <2>3. p(i) = p(j)
    BY <1>5, <2>1, <2>2
  <2> QED  BY <1>7, <2>1, <2>3
<1>9. hnd' \in [Signals -> Seq(Handlers)]
  BY <1>1, <1>6, <1>7
<1>10. OneEach'
  BY <1>6, <1>8 DEF OneEach
<1>11. Elems(d) \subseteq Elems(c)
  <2> SUFFICES ASSUME NEW j \in 1..(Len(c) - 1) PROVE d[j] \in Elems(c)
    BY <1>7 DEF Elems
  <2>1. j \in DOMAIN c /\ j + 1 \in DOMAIN c /\ d[j] \in {c[j], c[j + 1]}
    BY <1>7
  <2> QED  BY <2>1 DEF Elems
<1>12. Apart'
  <2> SUFFICES ASSUME NEW x \in Signals, NEW y \in Signals, x # y
               PROVE  Elems(hnd'[x]) \cap Elems(hnd'[y]) = {}
    BY DEF Apart
  <2>1. Elems(hnd[x]) \cap Elems(hnd[y]) = {}
    BY DEF Apart
  <2> QED  BY <1>6, <1>11, <2>1 DEF c
<1> QED  BY <1>1, <1>2, <1>3, <1>4, <1>9, <1>10, <1>12

LEMMA DestroyedHandlers ==
  ASSUME HandlersInv, Destroyed \/ Pause \/ Scheduling(Stopped) \/ UNCHANGED systemVars
  PROVE  HandlersInv'
<1> USE DEF HandlersInv, ITypeOK
<1>1. /\ UNCHANGED <<schedVars, hnd, got, at>>
      /\ paused' = paused \/ (phase = "pausing" /\ paused' = TRUE)
      /\ installed' \subseteq installed /\ half' \in {half, NoHalf}
  BY DEF Destroyed, Pause, Scheduling, Stopped, systemVars, interruptVars
<1>2. TypeOK'
  BY <1>1 DEF schedVars, TypeOK
<1>3. Halfway'
  BY <1>1, NotHalf DEF schedVars, Halfway, Exists, Born
<1>4. OneEach' /\ Apart'
  BY <1>1 DEF OneEach, Apart
<1>5. half' \in Halves /\ (paused' => phase' \in {"pausing", "error"})
  BY <1>1, NotHalf DEF schedVars
<1> QED  BY <1>1, <1>2, <1>3, <1>4, <1>5

LEMMA HandlersInductive ==
  ASSUME HandlersInv, [INext]_systemVars
  PROVE  HandlersInv'
BY SchedHandlers, AlerterHandlers, ReturnHandlers, SignalHandlers, ConstructHandlers,
   ConstructedHandlers, DestroyHandlers, DestroyedHandlers DEF INext, User, Goes

LEMMA HandlersStart == IInit => HandlersInv
<1> SUFFICES ASSUME IInit PROVE HandlersInv
  OBVIOUS
<1>1. Init /\ paused = FALSE /\ half = NoHalf /\ got = [h \in Handlers |-> FALSE]
      /\ installed = {} /\ at = 0 /\ hnd = [sig \in Signals |-> <<>>]
  BY DEF IInit
<1>2. TypeOK
  BY <1>1, InitType
<1>3. at \in 0..NASS
  BY <1>1, InterruptsAssumption
<1>4. hnd \in [Signals -> Seq(Handlers)] /\ OneEach /\ Apart
  BY <1>1 DEF OneEach, Apart, Elems
<1> QED  BY <1>1, <1>2, <1>3, <1>4, NotHalf DEF HandlersInv, ITypeOK, Halfway

(* Every variable of the scheduler and of the interrupts keeps its type, in*)
(* any program, whenever the signals come.                                 *)
THEOREM InterruptTypes == ISpec => []ITypeOK
<1>1. HandlersInv => ITypeOK
  BY DEF HandlersInv
<1> QED  BY <1>1, HandlersStart, HandlersInductive, PTL DEF ISpec

(***************************************************************************)
(* A signal with a handler is caught.                                      *)
(***************************************************************************)

\* The handlers of a signal are deleted newest first.
NewestFirst == "any order" \notin Programs

\* A constructor arms its signal before it links the handler, and only the
\* destructor of the last handler disarms it.
ArmedInv ==
  /\ HandlersArmed
  /\ half.op = "constructor" => half.sig \in installed
  /\ half.op = "destructor" => hnd[half.sig] = <<>>

LEMMA ArmedInductive ==
  ASSUME NewestFirst, HandlersInv, ArmedInv, [INext]_systemVars
  PROVE  ArmedInv'
<1> USE DEF ArmedInv, HandlersArmed
<1>1. CASE UNCHANGED <<hnd, installed, half>>
  BY <1>1
<1>2. ASSUME NEW h \in Handlers, NEW sig \in Signals, Construct(h, sig) PROVE ArmedInv'
  <2>1. /\ installed' = IF hnd[sig] = <<>> THEN installed \cup {sig} ELSE installed
        /\ half' = [op |-> "constructor", h |-> h, sig |-> sig] /\ UNCHANGED hnd
    BY <1>2 DEF Construct
  <2> QED  BY <2>1
<1>3. CASE Constructed
  <2>1. /\ half.op = "constructor" /\ half # NoHalf /\ half' = NoHalf
        /\ hnd' = [hnd EXCEPT ![half.sig] = <<half.h>> \o @] /\ UNCHANGED installed
    BY <1>3, NotHalf DEF Constructed
  <2>2. half.sig \in Signals /\ half.sig \in installed /\ hnd \in [Signals -> Seq(Handlers)]
    BY <2>1, HalfFields DEF HandlersInv, ITypeOK
  <2>3. ASSUME NEW sig \in Signals, hnd'[sig] # <<>> PROVE sig \in installed'
    BY <2>1, <2>2, <2>3
  <2> QED  BY <2>1, <2>3, NotHalf
<1>4. ASSUME NEW h \in Handlers, NEW sig \in Signals, Destroy(h, sig) PROVE ArmedInv'
  <2> DEFINE c == hnd[sig]
  <2>1. /\ h \in Elems(c) /\ h = Head(c) /\ UNCHANGED installed
        /\ hnd' = [hnd EXCEPT ![sig] = Without(c, h)]
        /\ half' = IF h = c[Len(c)] THEN [op |-> "destructor", h |-> h, sig |-> sig]
                   ELSE NoHalf
    BY <1>4 DEF Destroy, NewestFirst, IsOldest
  <2>2. /\ hnd \in [Signals -> Seq(Handlers)] /\ c \in Seq(Handlers)
        /\ \A i, j \in DOMAIN c : c[i] = c[j] => i = j
    BY DEF HandlersInv, ITypeOK, OneEach
  <2>3. sig \in installed
    <3>1. c # <<>>
      BY <2>1 DEF Elems
    <3> QED  BY <3>1
  <2>4. \A x \in Signals : hnd'[x] # <<>> => x \in installed'
    BY <2>1, <2>2, <2>3
  <2>5. h = c[Len(c)] => Without(c, h) = <<>>
    <3> SUFFICES ASSUME h = c[Len(c)] PROVE Without(c, h) = <<>>
      OBVIOUS
    <3> HIDE DEF c
    <3>1. Without(c, h) \in Seq(Handlers) /\ Len(Without(c, h)) = Len(c) - 1
      BY <2>1, <2>2, WithoutSeq
    <3>2. c # <<>> /\ Len(c) \in Nat /\ DOMAIN c = 1..Len(c)
      BY <2>1, <2>2 DEF Elems
    <3>3. c[1] = c[Len(c)] /\ 1 \in DOMAIN c /\ Len(c) \in DOMAIN c
      BY <2>1, <2>2, <3>2
    <3>4. Len(c) = 1
      BY <2>2, <3>3
    <3> QED  BY <3>1, <3>4
  <2>6. half'.op = "destructor" => h = c[Len(c)] /\ half'.sig = sig
    BY <2>1, NotHalf
  <2>7. half'.op # "constructor"
    BY <2>1, NotHalf
  <2> QED  BY <2>1, <2>2, <2>4, <2>5, <2>6, <2>7
<1>5. CASE Destroyed
  <2>1. /\ half.op = "destructor" /\ half' = NoHalf /\ UNCHANGED hnd
        /\ installed' = installed \ {half.sig}
    BY <1>5 DEF Destroyed
  <2> QED  BY <2>1, NotHalf
<1>6. UNCHANGED <<hnd, installed, half>>
      \/ Constructed \/ Destroyed
      \/ \E h \in Handlers, sig \in Signals : Construct(h, sig) \/ Destroy(h, sig)
  BY DEF INext, StaticConstruction, User, Goes, Scheduling, AlerterSleeps, AlerterLooks,
         IWaitReturns, IWaitVecReturns, ILoopSleeps, Pause, sigFunc, systemVars, interruptVars
<1> QED  BY <1>1, <1>2, <1>3, <1>4, <1>5, <1>6

(* While a signal has a handler its disposition is sigFunc, whichever      *)
(* handlers were constructed and deleted before, if those of each signal   *)
(* are deleted newest first (event.c:48-73).                               *)
THEOREM SignalsAreCaught ==
  ASSUME NewestFirst
  PROVE  ISpec => []HandlersArmed
<1>1. IInit => ArmedInv
  BY NotHalf DEF IInit, ArmedInv, HandlersArmed
<1>2. ArmedInv => HandlersArmed
  BY DEF ArmedInv
<1> QED
  BY <1>1, <1>2, ArmedInductive, HandlersStart, HandlersInductive, PTL DEF ISpec

(***************************************************************************)
(* No interrupt is lost.                                                   *)
(***************************************************************************)

\* The program leaves waiting tasks to what they wait for, the processor to
\* the scheduler and the alerter, and blocks signals in the windows.
LeavesSignals ==
  /\ LeavesWaiters
  /\ Api \cap {"set_priority_sched", "clock_task"} = {}
  /\ "signals in windows" \notin Programs

\* Until the alerter is constructed nobody runs but the first task.
Unstarted ==
  ~Born(Alerter) =>
    /\ phase \in {"user", "error"}
    /\ thistask # Alerter /\ call[thistask].loop = "none"
    /\ installed = {} /\ priority_sched = None

\* The alerter begins a round at the first signal.
RoundBegins ==
  Born(Alerter) => \/ phase = "error" \/ at = 1
                   \/ thistask = Alerter /\ phase = "user"

AlerterInv ==
  /\ clock_task = None /\ priority_sched \in {None, Alerter}
  /\ phase = "pausing" => priority_sched = None
  /\ call[Alerter].loop = "none"
  /\ phase = "user" => s_state[thistask] # "IDLE"
  /\ Unstarted
  /\ RoundBegins

(* The run chain under the steps of the composition.                       *)
LEMMA ChainInductive ==
  ASSUME HandlersInv, ChainWellFormed, [INext]_systemVars
  PROVE  ChainWellFormed'
<1> USE DEF ChainWellFormed
<1>0. TypeOK /\ hnd \in [Signals -> Seq(Handlers)]
  BY DEF HandlersInv, ITypeOK
<1>1. CASE UserCall
  BY <1>0, <1>1, UserCallChain
<1>2. CASE LoopSleeps \/ Schedule
  BY <1>0, <1>2, SystemChain
<1>3. CASE UNCHANGED <<runchain, s_state, phase, picked>>
  BY <1>3
<1>4. CASE AlerterSleeps
  <2>1. RemovedIfRunning(Alerter) /\ phase' = "schedule" /\ Alerter \in Scheds
    BY <1>4, HandlersAreObjects DEF AlerterSleeps
  <2> QED  BY <1>0, <2>1, RemoveKeeps
<1>5. ASSUME NEW sig \in Signals, Marked(sig), phase' = "user",
             Alerted(Head(hnd[sig]), s_state, s_time, runchain, clxck)
      PROVE  ChainWellFormed'
  <2>1. Head(hnd[sig]) \in Objects
    BY <1>0, <1>5, HandlersAreObjects DEF Marked
  <2>2. WellFormed(runchain', s_state')
    BY <1>0, <1>5, <2>1, AlertKeeps DEF TypeOK
  <2> QED  BY <1>5, <2>2
<1>6. CASE AlerterLooks
  BY <1>3, <1>5, <1>6 DEF AlerterLooks
<1>7. ASSUME NEW h \in Handlers, NEW sig \in Signals, Construct(h, sig)
      PROVE  ChainWellFormed'
  BY <1>3, <1>5, <1>7 DEF Construct, Calling, OldToAlert
<1>8. ASSUME NEW sig \in Signals, sigFunc(sig) PROVE ChainWellFormed'
  <2>1. UNCHANGED <<runchain, s_state, picked>> /\ (phase' = phase \/ phase' # "picked")
    BY <1>8 DEF sigFunc, Fail, Unpaused
  <2> QED  BY <2>1
<1>9. UserCall \/ LoopSleeps \/ Schedule \/ UNCHANGED <<runchain, s_state, phase, picked>>
      \/ AlerterSleeps \/ AlerterLooks
      \/ (\E h \in Handlers, sig \in Signals : Construct(h, sig))
      \/ \E sig \in Signals : sigFunc(sig)
  BY HandlersAreObjects
     DEF INext, StaticConstruction, User, Goes, Scheduling, UserCall, Constructed, Destroy,
         Destroyed, IWaitReturns, IWaitVecReturns, Return, ILoopSleeps, Pause, Stopped,
         systemVars, schedVars
<1> QED  BY <1>1, <1>2, <1>4, <1>3, <1>6, <1>7, <1>8, <1>9

LEMMA UserCallSignals ==
  ASSUME TypeOK, LeavesSignals, UserCall
  PROVE  LeftAlone /\ UNCHANGED <<priority_sched, clock_task>>
BY UserCallLeaves DEF LeavesSignals, LeftAlone

(* schedule() runs nobody but who is RUNNING.                              *)
LEMMA ScheduleAlerter ==
  ASSUME TypeOK, ChainWellFormed, AlerterInv, Schedule, UNCHANGED interruptVars
  PROVE  AlerterInv'
<1> USE DEF Scheds
<1>0. /\ s_state \in [Scheds -> States] /\ thistask \in Tasks /\ Alerter \in Tasks
      /\ phase \in {"schedule", "picked"} /\ call' = call /\ UNCHANGED at
      /\ phase = "picked" => picked \in Scheds /\ s_state[picked] = "RUNNING"
  BY HandlersAreObjects, SchedulePhase
     DEF TypeOK, ChainWellFormed, interruptVars, Schedule, PickPriority, PickFront, NothingToRun,
         BadTime, Fail, ResumeTask, ResumeClockTask, FireTimer
<1>1. Born(Alerter) /\ at = 1
  BY <1>0 DEF AlerterInv, Unstarted, RoundBegins
<1>2. ASSUME Born(Alerter)', clock_task' = None, priority_sched' \in {None, Alerter},
             phase' = "pausing" => priority_sched' = None,
             phase' = "user" => s_state'[thistask'] # "IDLE"
      PROVE  AlerterInv'
  BY <1>0, <1>1, <1>2 DEF AlerterInv, Unstarted, RoundBegins
<1>3. CASE PickPriority
  <2>1. Born(Alerter)'
    BY <1>0, <1>1, <1>3 DEF PickPriority, Born
  <2> QED  BY <1>2, <1>3, <2>1 DEF PickPriority, AlerterInv
<1>4. CASE PickFront
  BY <1>1, <1>2, <1>4 DEF PickFront, AlerterInv, Born
<1>5. CASE NothingToRun
  <2>1. Born(Alerter)'
    BY <1>0, <1>1, <1>5 DEF NothingToRun, Born
  <2> QED  BY <1>2, <1>5, <2>1 DEF NothingToRun, AlerterInv, HasPriority
<1>6. CASE BadTime
  BY <1>1, <1>2, <1>6 DEF BadTime, Fail, AlerterInv, Born
<1>7. CASE ResumeTask
  <2>1. s_state[picked] = "RUNNING" /\ thistask' = picked /\ UNCHANGED s_state
    BY <1>0, <1>7 DEF ResumeTask
  <2> QED  BY <1>1, <1>2, <1>7, <2>1 DEF ResumeTask, AlerterInv, Born
<1>8. ~ResumeClockTask
  BY DEF ResumeClockTask, Ticks, AlerterInv
<1>9. CASE FireTimer
  <2> DEFINE st == [s_state EXCEPT ![picked] = "TERMINATED"]
  <2>1. Alerted(picked, st, s_time, runchain, s_time[picked]) /\ picked \in Timers
    BY <1>9 DEF FireTimer
  <2>2. st \in [Scheds -> States] /\ st[Alerter] = s_state[Alerter]
    BY <1>0, <2>1, IdentitiesAssumption DEF States
  <2> HIDE DEF st
  <2>3. s_state'[Alerter] = st[Alerter] \/ s_state'[Alerter] = "RUNNING"
    BY <1>0, <2>1, <2>2, AlertedStates
  <2>4. Born(Alerter)'
    BY <1>1, <2>2, <2>3 DEF Born
  <2> QED  BY <1>2, <1>9, <2>4 DEF FireTimer, AlerterInv
<1> QED  BY <1>3, <1>4, <1>5, <1>6, <1>7, <1>8, <1>9 DEF Schedule

LEMMA AlerterInductive ==
  ASSUME LeavesSignals, HandlersInv, ChainWellFormed, AlerterInv, [INext]_systemVars
  PROVE  AlerterInv'
<1> USE DEF Scheds
<1>0. /\ TypeOK /\ s_state \in [Scheds -> States] /\ thistask \in Tasks /\ Alerter \in Tasks
      /\ call \in [Tasks -> Calls] /\ hnd \in [Signals -> Seq(Handlers)]
      /\ clock_task = None /\ priority_sched \in {None, Alerter}
      /\ call[Alerter].loop = "none"
  BY HandlersAreObjects DEF HandlersInv, ITypeOK, TypeOK, AlerterInv
\* What most steps leave: they run from user code or a loop, as another task.
<1>1. ASSUME Born(Alerter), Born(Alerter)', UNCHANGED <<clock_task, priority_sched, at>>,
             call'[Alerter] = call[Alerter],
             thistask # Alerter, phase = "user", phase' \in {"user", "schedule", "error"},
             phase' = "user" => s_state'[thistask'] # "IDLE"
      PROVE  AlerterInv'
  BY <1>0, <1>1 DEF AlerterInv, Unstarted, RoundBegins
<1>2. CASE StaticConstruction
  <2>1. UserCall /\ NewTask(Alerter) /\ phase = "user" /\ ~Born(Alerter) /\ UNCHANGED interruptVars
    BY <1>0, <1>2, UserCallPhase DEF StaticConstruction, Scheduling, UserCall, NewTask
  <2>2. /\ LeftAlone /\ UNCHANGED <<priority_sched, clock_task>>
        /\ installed = {} /\ priority_sched = None /\ thistask # Alerter
    BY <1>0, <2>1, UserCallSignals DEF AlerterInv, Unstarted
  <2>3. CASE \E e : Fail(e)
    BY <1>0, <2>1, <2>2, <2>3
       DEF Fail, AlerterInv, Unstarted, RoundBegins, Born, interruptVars
  <2>4. CASE ~ \E e : Fail(e)
    <3>1. thistask' = Alerter /\ phase' = "user" /\ s_state'[Alerter] = "RUNNING"
          /\ call' = call
      BY <1>0, <2>1, <2>4 DEF NewTask
    <3> QED
      BY <1>0, <2>2, <3>1 DEF LeftAlone, AlerterInv, Unstarted, RoundBegins, Born
  <2> QED  BY <2>3, <2>4
<1>3. CASE UserRuns /\ Scheduling(UserCall)
  <2>1. LeftAlone /\ UNCHANGED <<priority_sched, clock_task, at>> /\ phase = "user"
    BY <1>0, <1>3, UserCallSignals, UserCallPhase DEF Scheduling, interruptVars
  <2> QED  BY <1>0, <1>1, <1>3, <2>1 DEF LeftAlone, UserRuns, AlerterInv
<1>4. ASSUME NEW h \in Handlers, NEW sig \in Signals, Construct(h, sig) PROVE AlerterInv'
  <2>1. \A s \in Scheds : s_state'[s] = s_state[s] \/ s_state'[s] = "RUNNING"
    BY <1>0, <1>4, AlertedStates DEF Construct
  <2>2. /\ UNCHANGED <<clock_task, priority_sched, at, call, thistask, phase>>
        /\ phase = "user" /\ UserRuns
    BY <1>4 DEF Construct, Calling
  <2> QED  BY <1>0, <1>1, <2>1, <2>2 DEF UserRuns, Born, AlerterInv
<1>5. ASSUME NEW h \in Handlers, NEW sig \in Signals, Destroy(h, sig) PROVE AlerterInv'
  BY <1>0, <1>1, <1>5 DEF Destroy, Calling, UserRuns, Born, AlerterInv
<1>6. CASE Constructed \/ Destroyed
  <2>1. half # NoHalf /\ phase = "user"
    BY <1>6, NotHalf DEF Constructed, Destroyed
  <2>2. thistask # Alerter /\ Born(Alerter)
    BY <2>1 DEF HandlersInv, Halfway
  <2> QED
    BY <1>0, <1>1, <1>6, <2>1, <2>2 DEF Constructed, Destroyed, schedVars, Born, AlerterInv
<1>7. CASE AlerterSleeps
  <2>1. /\ thistask = Alerter /\ phase = "user" /\ phase' = "schedule" /\ at' = 1
        /\ UNCHANGED <<thistask, priority_sched, clock_task, call>>
        /\ RemovedIfRunning(Alerter)
    BY <1>7 DEF AlerterSleeps
  <2>2. Born(Alerter)'
    BY <1>0, <2>1 DEF AlerterInv, Unstarted, RemovedIfRunning, Born
  <2> QED  BY <1>0, <2>1, <2>2 DEF AlerterInv, Unstarted, RoundBegins
<1>8. CASE AlerterLooks
  <2>1. /\ thistask = Alerter /\ phase = "user"
        /\ UNCHANGED <<thistask, priority_sched, clock_task, call, phase>>
    BY <1>8 DEF AlerterLooks
  <2>2. \A s \in Scheds : s_state'[s] = s_state[s] \/ s_state'[s] = "RUNNING"
    BY <1>0, <1>8, AlertedStates DEF AlerterLooks
  <2> QED  BY <1>0, <2>1, <2>2 DEF AlerterInv, Unstarted, RoundBegins, Born
<1>9. CASE IWaitReturns \/ IWaitVecReturns
  <2>1. /\ Return /\ phase = "user" /\ call[thistask].loop # "none" /\ UNCHANGED at
    BY <1>9 DEF IWaitReturns, IWaitVecReturns, InLoop
  <2>2. thistask # Alerter /\ Born(Alerter)
    BY <1>0, <2>1 DEF AlerterInv, Unstarted
  <2> QED  BY <1>0, <1>1, <2>1, <2>2 DEF Return, AlerterInv, Born
<1>10. CASE ILoopSleeps
  <2>1. LoopSleeps /\ phase = "user" /\ call[thistask].loop # "none" /\ UNCHANGED at
    BY <1>10 DEF ILoopSleeps, Scheduling, LoopSleeps, InLoop, interruptVars
  <2>2. thistask # Alerter /\ Born(Alerter)
    BY <1>0, <2>1 DEF AlerterInv, Unstarted
  <2>3. /\ phase' \in {"schedule", "error"}
        /\ UNCHANGED <<clock_task, priority_sched, call, thistask>>
        /\ s_state'[Alerter] = s_state[Alerter]
    BY <1>0, <2>1, <2>2 DEF LoopSleeps, Fail, RemovedIfRunning
  <2> QED  BY <1>0, <1>1, <2>1, <2>2, <2>3 DEF Born
<1>11. CASE Scheduling(Schedule)
  BY <1>0, <1>11, ScheduleAlerter DEF Scheduling
<1>12. ASSUME NEW sig \in Signals, sigFunc(sig) PROVE AlerterInv'
  <2>1. sig \in installed /\ phase # "error"
    BY <1>12 DEF sigFunc
  <2>2. Born(Alerter)
    BY <2>1 DEF AlerterInv, Unstarted
  <2>3. ~InWindow(sig)
    BY <1>12 DEF sigFunc, LeavesSignals
  <2>4. CASE hnd[sig] = <<>>
    BY <1>12, <2>2, <2>4 DEF sigFunc, Fail, AlerterInv, Unstarted, RoundBegins, Born
  <2>5. CASE hnd[sig] # <<>>
    <3>1. /\ priority_sched' = Alerter /\ phase' = Unpaused
          /\ UNCHANGED <<thistask, clock_task, s_state, call, at>>
      BY <1>12, <2>5 DEF sigFunc
    <3>2. phase' # "pausing" /\ (phase' = "user" <=> phase = "user")
      BY <2>1, <2>3, <3>1 DEF InWindow, Unpaused, HandlersInv
    <3> QED  BY <1>0, <2>1, <2>2, <3>1, <3>2 DEF AlerterInv, Unstarted, RoundBegins, Born
  <2> QED  BY <2>4, <2>5
<1>13. CASE Pause \/ Scheduling(Stopped) \/ UNCHANGED systemVars
  BY <1>13
     DEF Pause, Scheduling, Stopped, systemVars, schedVars, interruptVars, AlerterInv, Unstarted,
         RoundBegins, Born
<1> QED
  BY <1>2, <1>3, <1>4, <1>5, <1>6, <1>7, <1>8, <1>9, <1>10, <1>11, <1>12, <1>13
     DEF INext, User, Goes

\* Everybody who sleeps in a loop after the step slept in it before.
AllStay == \A t \in Tasks : Sleeping(t)' => Stays(t)

LEMMA AlertedAllStay ==
  ASSUME TypeOK, NEW o \in Objects, Alerted(o, s_state, s_time, runchain, clxck),
         phase = "user", UNCHANGED <<phase, thistask, call>>
  PROVE  AllStay /\ \A t \in Tasks : Sleeping(t)' => t \notin Elems(o_link[o])
<1>1. ASSUME NEW t \in Tasks, Sleeping(t)' PROVE Stays(t)
  <2>1. Going /\ t # thistask /\ call'[t] = call[t]
    BY <1>1 DEF Sleeping, Going
  <2> QED  BY <1>1, <2>1, AlertedStays
<1>2. ASSUME NEW t \in Tasks, Sleeping(t)' PROVE t \notin Elems(o_link[o])
  BY <1>2, AlertedWakes DEF Sleeping, TypeOK
<1> QED  BY <1>1, <1>2 DEF AllStay

LEMMA QuietAllStay ==
  ASSUME UNCHANGED <<s_state, call, o_link, thistask>>,
         Going' => Going /\ (phase = "user" <=> phase' = "user")
  PROVE  AllStay
<1> SUFFICES ASSUME NEW t \in Tasks, Sleeping(t)' PROVE Stays(t)
  BY DEF AllStay
<1>1. Going /\ (phase = "user" => t # thistask)
  BY DEF Sleeping
<1> QED  BY <1>1, QuietStays

LEMMA InterruptsAllStay ==
  ASSUME LeavesSignals, HandlersInv, AlerterInv, [INext]_systemVars
  PROVE  AllStay \/ ILoopSleeps
<1>0. /\ TypeOK /\ hnd \in [Signals -> Seq(Handlers)] /\ thistask \in Tasks
  BY DEF HandlersInv, ITypeOK, TypeOK
<1>1. CASE StaticConstruction \/ (UserRuns /\ Scheduling(UserCall))
  <2>1. UserCall /\ LeavesWaiters
    BY <1>1, HandlersAreObjects DEF StaticConstruction, Scheduling, UserCall, LeavesSignals
  <2> QED  BY <1>0, <2>1, UserCallStays DEF AllStay
<1>2. ASSUME NEW sig \in Signals, Marked(sig), phase = "user",
             UNCHANGED <<phase, thistask, call>>,
             Alerted(Head(hnd[sig]), s_state, s_time, runchain, clxck)
      PROVE  AllStay
  <2>1. Head(hnd[sig]) \in Objects
    BY <1>0, <1>2, HandlersAreObjects DEF Marked
  <2> QED  BY <1>0, <1>2, <2>1, AlertedAllStay
<1>3. CASE AlerterLooks
  <2>1. /\ at \in Signals /\ phase = "user" /\ UNCHANGED <<phase, thistask, call>>
        /\ Marked(at) => Alerted(Head(hnd[at]), s_state, s_time, runchain, clxck)
        /\ ~Marked(at) => UNCHANGED <<s_state, o_link>>
    BY <1>3 DEF AlerterLooks
  <2>2. CASE Marked(at)
    BY <1>2, <2>1, <2>2
  <2>3. CASE ~Marked(at)
    BY <2>1, <2>3, QuietAllStay DEF Going
  <2> QED  BY <2>2, <2>3
<1>4. ASSUME NEW h \in Handlers, NEW sig \in Signals, Construct(h, sig) PROVE AllStay
  <2>1. /\ phase = "user" /\ UNCHANGED <<phase, thistask, call>>
        /\ Marked(sig) => Alerted(Head(hnd[sig]), s_state, s_time, runchain, clxck)
        /\ ~Marked(sig) => UNCHANGED <<s_state, o_link>>
    BY <1>4 DEF Construct, Calling, OldToAlert
  <2>2. CASE Marked(sig)
    BY <1>2, <2>1, <2>2
  <2>3. CASE ~Marked(sig)
    BY <2>1, <2>3, QuietAllStay DEF Going
  <2> QED  BY <2>2, <2>3
<1>5. CASE AlerterSleeps
  <2> SUFFICES ASSUME NEW t \in Tasks, Sleeping(t)' PROVE Stays(t)
    BY DEF AllStay
  <2>1. /\ thistask = Alerter /\ phase = "user" /\ RemovedIfRunning(Alerter)
        /\ UNCHANGED <<call, o_link>>
    BY <1>5 DEF AlerterSleeps
  <2>2. t # Alerter /\ t # thistask /\ Going /\ Alerter \in Scheds /\ t \in Scheds
    BY <2>1, HandlersAreObjects DEF Sleeping, AlerterInv, Going
  <2> QED  BY <1>0, <2>1, <2>2, RemovedStates, QuietStays
<1>6. CASE IWaitReturns \/ IWaitVecReturns
  <2>1. /\ phase = "user" /\ Return
        /\ \A o \in Objects : o_link'[o] \in {o_link[o], Without(o_link[o], thistask)}
    BY <1>6 DEF IWaitReturns, IWaitVecReturns, InLoop
  <2> QED  BY <1>0, <2>1, ReturnsStays DEF AllStay
<1>7. CASE Scheduling(Schedule)
  BY <1>0, <1>7, ScheduleStays DEF Scheduling, AllStay
<1>8. ASSUME NEW sig \in Signals, sigFunc(sig) PROVE AllStay
  <2>1. UNCHANGED <<s_state, call, o_link, thistask>>
    BY <1>8 DEF sigFunc, Fail
  <2>2. phase' = phase \/ phase' = "error" \/ (phase = "pausing" /\ phase' = "schedule")
    BY <1>8 DEF sigFunc, Fail, Unpaused, HandlersInv
  <2> QED  BY <2>1, <2>2, QuietAllStay DEF Going
<1>9. CASE UNCHANGED <<s_state, call, o_link, thistask, phase>>
  BY <1>9, QuietAllStay DEF Going
<1>10. UNCHANGED <<s_state, call, o_link, thistask, phase>>
       \/ StaticConstruction \/ (UserRuns /\ Scheduling(UserCall)) \/ ILoopSleeps
       \/ AlerterSleeps \/ AlerterLooks \/ IWaitReturns \/ IWaitVecReturns
       \/ Scheduling(Schedule)
       \/ (\E h \in Handlers, sig \in Signals : Construct(h, sig))
       \/ \E sig \in Signals : sigFunc(sig)
  BY DEF INext, User, Goes, Scheduling, Constructed, Destroy, Destroyed, Pause, Stopped, systemVars,
         schedVars
<1> QED  BY <1>1, <1>3, <1>4, <1>5, <1>6, <1>7, <1>8, <1>9, <1>10

LEMMA WaitersInductive ==
  ASSUME LeavesSignals, HandlersInv, AlerterInv, WaitersHeard, [INext]_systemVars
  PROVE  WaitersHeard'
<1>1. TypeOK
  BY DEF HandlersInv, ITypeOK
<1>2. CASE AllStay
  BY <1>1, <1>2, StayingHear DEF AllStay
<1>3. CASE ILoopSleeps
  BY <1>1, <1>3, LoopSleepsHeard DEF ILoopSleeps, Scheduling
<1> QED  BY <1>2, <1>3, InterruptsAllStay

\* The alerter will look at sig before anybody else runs.
Coming(sig) ==
  \/ priority_sched = Alerter
  \/ phase = "picked" /\ picked = Alerter
  \/ thistask = Alerter /\ phase = "user" /\ at \in 1..sig

\* A handler that a task sleeps on, and that is marked, is the newest of a
\* signal which the alerter is about to look at, and stays the newest.
Heard(h) ==
  \E sig \in Signals :
    /\ hnd[sig] # <<>> /\ Head(hnd[sig]) = h
    /\ ~(half.op = "constructor" /\ half.sig = sig)
    /\ Coming(sig)

HeardInv ==
  \A t \in Tasks : Sleeping(t) =>
    \A h \in call[t].on \cap Handlers : got[h] => Heard(h)

\* A task that sleeps, with a marked handler that it waits for.
Deaf(t, h) ==
  /\ Sleeping(t)
  /\ h \in call[t].on /\ h \in Handlers /\ got[h]

LEMMA HeardStays ==
  ASSUME HeardInv, AllStay, NEW t \in Tasks, NEW h \in Handlers, Deaf(t, h)', got[h]
  PROVE  Deaf(t, h) /\ Heard(h)
<1>1. Deaf(t, h)
  BY DEF AllStay, Deaf, Stays
<1> QED  BY <1>1 DEF HeardInv, Deaf

(* While the marks, the lists and the way of the alerter stay, all is heard*)
LEMMA QuietHeard ==
  ASSUME HeardInv, AllStay, UNCHANGED hnd, half' = half \/ half'.op # "constructor",
         \A h \in Handlers : got'[h] => got[h],
         \A sig \in Signals : Coming(sig) => Coming(sig)'
  PROVE  HeardInv'
<1> SUFFICES ASSUME NEW t \in Tasks, NEW h \in Handlers, Deaf(t, h)'
             PROVE  Heard(h)'
  BY DEF HeardInv, Deaf
<1>1. Heard(h)
  BY HeardStays DEF Deaf
<1> QED  BY <1>1 DEF Heard

LEMMA ScheduleHeard ==
  ASSUME TypeOK, AlerterInv, HeardInv, AllStay, Schedule, UNCHANGED interruptVars
  PROVE  HeardInv'
<1>0. UNCHANGED <<hnd, half, got, at>> /\ Alerter \in Tasks /\ 1 \in Nat
  BY HandlersAreObjects DEF interruptVars
<1>1. CASE BadTime
  <2>1. \A t \in Tasks : ~Sleeping(t)'
    BY <1>1 DEF BadTime, Fail, Sleeping, Going
  <2> QED  BY <2>1 DEF HeardInv
<1>2. CASE PickPriority \/ PickFront \/ NothingToRun
  <2>1. \A sig \in Signals : Coming(sig) => Coming(sig)'
    BY <1>2 DEF Coming, PickPriority, PickFront, NothingToRun, HasPriority, AlerterInv
  <2> QED  BY <1>0, <2>1, QuietHeard
<1>3. CASE ResumeTask
  <2>1. at = 1 \/ ~Born(Alerter)
    BY <1>3 DEF ResumeTask, AlerterInv, RoundBegins
  <2>2. at = 1
    BY <1>3, <2>1 DEF ResumeTask, AlerterInv, Unstarted
  <2>3. \A sig \in Signals : 1 \in 1..sig
    BY DEF Signals
  <2>4. \A sig \in Signals : Coming(sig) => Coming(sig)'
    BY <1>0, <1>3, <2>2, <2>3 DEF Coming, ResumeTask
  <2> QED  BY <1>0, <2>4, QuietHeard
<1>4. ~ResumeClockTask
  BY DEF ResumeClockTask, Ticks, AlerterInv
<1>5. CASE FireTimer
  <2>1. \A sig \in Signals : Coming(sig) => Coming(sig)'
    BY <1>0, <1>5, IdentitiesAssumption DEF Coming, FireTimer
  <2> QED  BY <1>0, <2>1, QuietHeard
<1> QED  BY <1>1, <1>2, <1>3, <1>4, <1>5 DEF Schedule

(* A new handler hides the old one only when nobody marked sleeps on it.   *)
LEMMA ConstructHeard ==
  ASSUME HandlersInv, AlerterInv, WaitersHeard, HeardInv, AllStay,
         NEW h \in Handlers, NEW sig \in Signals, Construct(h, sig)
  PROVE  HeardInv'
<1>0. TypeOK /\ hnd \in [Signals -> Seq(Handlers)] /\ got \in [Handlers -> BOOLEAN]
  BY DEF HandlersInv, ITypeOK
<1>1. /\ phase = "user" /\ UserRuns /\ UNCHANGED <<priority_sched, thistask, call, phase, picked, hnd, at>>
      /\ got' = [got EXCEPT ![h] = FALSE]
      /\ half' = [op |-> "constructor", h |-> h, sig |-> sig]
  BY DEF Construct, Calling
<1>2. SUFFICES ASSUME NEW t \in Tasks, NEW x \in Handlers, Deaf(t, x)' PROVE Heard(x)'
  BY DEF HeardInv, Deaf
<1>3. got[x]
  BY <1>0, <1>1, <1>2 DEF Deaf
<1>4. Deaf(t, x) /\ Heard(x)
  BY <1>2, <1>3, HeardStays
<1>5. PICK y \in Signals : hnd[y] # <<>> /\ Head(hnd[y]) = x /\ Coming(y)
  BY <1>4 DEF Heard
<1>6. y # sig
  <2> SUFFICES ASSUME y = sig PROVE FALSE
    OBVIOUS
  <2>1. Alerted(x, s_state, s_time, runchain, clxck)
    BY <1>3, <1>5 DEF Construct, OldToAlert, Marked
  <2>2. x \in Objects
    BY HandlersAreObjects
  <2>3. t \notin Elems(o_link[x])
    BY <1>0, <1>1, <1>2, <2>1, <2>2, AlertedAllStay DEF Deaf
  <2>4. t \in Elems(o_link[x])
    BY <1>4 DEF Deaf, Sleeping, Going, WaitersHeard
  <2> QED  BY <2>3, <2>4
<1>7. Coming(y)'
  BY <1>1, <1>5 DEF Coming
<1> QED  BY <1>1, <1>5, <1>6, <1>7 DEF Heard

LEMMA ConstructedHeard ==
  ASSUME HandlersInv, HeardInv, AllStay, Constructed
  PROVE  HeardInv'
<1>0. hnd \in [Signals -> Seq(Handlers)]
  BY DEF HandlersInv, ITypeOK
<1>1. /\ half.op = "constructor" /\ half' = NoHalf
      /\ hnd' = [hnd EXCEPT ![half.sig] = <<half.h>> \o @]
      /\ UNCHANGED <<priority_sched, thistask, call, phase, picked, got, at>>
  BY DEF Constructed
<1>2. SUFFICES ASSUME NEW t \in Tasks, NEW x \in Handlers, Deaf(t, x)' PROVE Heard(x)'
  BY DEF HeardInv, Deaf
<1>3. Heard(x)
  BY <1>1, <1>2, HeardStays DEF Deaf
<1>4. PICK y \in Signals : /\ hnd[y] # <<>> /\ Head(hnd[y]) = x /\ Coming(y)
                           /\ half.sig # y
  BY <1>1, <1>3 DEF Heard
<1>5. hnd'[y] = hnd[y] /\ Coming(y)'
  BY <1>0, <1>1, <1>4 DEF Coming
<1> QED  BY <1>1, <1>4, <1>5, NotHalf DEF Heard

(* Nobody waits for the handler that is deleted.                           *)
LEMMA DestroyHeard ==
  ASSUME HandlersInv, HeardInv, AllStay,
         NEW h \in Handlers, NEW sig \in Signals, Destroy(h, sig)
  PROVE  HeardInv'
<1>0. hnd \in [Signals -> Seq(Handlers)]
  BY DEF HandlersInv, ITypeOK
<1>1. /\ \A t \in Tasks : h \notin call[t].on
      /\ h \in Elems(hnd[sig])
      /\ hnd' = [hnd EXCEPT ![sig] = Without(hnd[sig], h)]
      /\ half'.op # "constructor"
      /\ UNCHANGED <<priority_sched, thistask, call, phase, picked, got, at>>
  BY NotHalf DEF Destroy
<1>2. SUFFICES ASSUME NEW t \in Tasks, NEW x \in Handlers, Deaf(t, x)' PROVE Heard(x)'
  BY DEF HeardInv, Deaf
<1>3. Deaf(t, x) /\ Heard(x)
  BY <1>1, <1>2, HeardStays DEF Deaf
<1>4. PICK y \in Signals : hnd[y] # <<>> /\ Head(hnd[y]) = x /\ Coming(y)
  BY <1>3 DEF Heard
<1>5. x # h
  BY <1>1, <1>3 DEF Deaf
<1>6. hnd'[y] # <<>> /\ Head(hnd'[y]) = x
  <2>1. CASE y # sig
    BY <1>0, <1>1, <1>4, <2>1
  <2>2. CASE y = sig
    <3> DEFINE c == hnd[sig]
               d == Without(c, h)
    <3>1. c \in Seq(Handlers) /\ c # <<>> /\ c[1] = x /\ h \in Elems(c)
      BY <1>0, <1>1, <1>4, <2>2
    <3>2. hnd'[y] = d
      BY <1>0, <1>1, <2>2
    <3> HIDE DEF c
    <3>3. /\ d \in Seq(Handlers) /\ Len(d) = Len(c) - 1
          /\ At(c, h) \in 1..Len(c) /\ c[At(c, h)] = h
          /\ \A j \in 1..(Len(c) - 1) : d[j] = IF j < At(c, h) THEN c[j] ELSE c[j + 1]
      BY <3>1, WithoutSeq
    <3> HIDE DEF d
    <3>4. Len(c) \in Nat /\ At(c, h) > 1
      BY <1>5, <3>1, <3>3
    <3>5. 1 \in 1..(Len(c) - 1) /\ d[1] = c[1]
      BY <3>3, <3>4
    <3>6. d # <<>> /\ Head(d) = d[1]
      BY <3>3, <3>5
    <3> QED  BY <3>1, <3>2, <3>5, <3>6
  <2> QED  BY <2>1, <2>2
<1>7. Coming(y)'
  BY <1>1, <1>4 DEF Coming
<1> QED  BY <1>1, <1>4, <1>6, <1>7 DEF Heard

(* The alerter wakes all that sleep on the handler that it looks at.       *)
LEMMA AlerterLooksHeard ==
  ASSUME HandlersInv, WaitersHeard, HeardInv, AllStay, AlerterLooks
  PROVE  HeardInv'
<1>0. TypeOK /\ hnd \in [Signals -> Seq(Handlers)]
  BY DEF HandlersInv, ITypeOK
<1>1. /\ thistask = Alerter /\ phase = "user" /\ at \in Signals /\ at' = NextLook(at)
      /\ UNCHANGED <<priority_sched, thistask, call, phase, picked, got, hnd, half>>
  BY DEF AlerterLooks
<1>2. SUFFICES ASSUME NEW t \in Tasks, NEW x \in Handlers, Deaf(t, x)' PROVE Heard(x)'
  BY DEF HeardInv, Deaf
<1>3. Deaf(t, x) /\ Heard(x)
  BY <1>1, <1>2, HeardStays DEF Deaf
<1>4. PICK y \in Signals : /\ hnd[y] # <<>> /\ Head(hnd[y]) = x /\ Coming(y)
                           /\ ~(half.op = "constructor" /\ half.sig = y)
  BY <1>3 DEF Heard
<1>5. y # at
  <2> SUFFICES ASSUME y = at PROVE FALSE
    OBVIOUS
  <2>1. Alerted(x, s_state, s_time, runchain, clxck)
    BY <1>3, <1>4 DEF AlerterLooks, Marked, Deaf
  <2>2. x \in Objects
    BY HandlersAreObjects
  <2>3. t \notin Elems(o_link[x])
    BY <1>0, <1>1, <1>2, <2>1, <2>2, AlertedAllStay DEF Deaf
  <2>4. t \in Elems(o_link[x])
    BY <1>3 DEF Deaf, Sleeping, Going, WaitersHeard
  <2> QED  BY <2>3, <2>4
<1>6. Coming(y)'
  <2>1. CASE priority_sched = Alerter
    BY <1>1, <2>1 DEF Coming
  <2>2. CASE at \in 1..y
    <3>1. at < y /\ y <= NASS /\ at \in Nat /\ y \in Nat /\ at >= 1
      BY <1>1, <1>5, <2>2, InterruptsAssumption DEF Signals
    <3>2. at' = at + 1
      BY <1>1, <3>1, InterruptsAssumption DEF NextLook
    <3>3. at' \in 1..y
      BY <3>1, <3>2
    <3> QED  BY <1>1, <3>3 DEF Coming
  <2> QED  BY <1>1, <1>4, <2>1, <2>2 DEF Coming
<1> QED  BY <1>1, <1>4, <1>6 DEF Heard

(* Who goes to sleep has looked at all its handlers.                       *)
LEMMA LoopSleepsStill ==
  ASSUME HandlersInv, AlerterInv, HeardInv, ILoopSleeps
  PROVE  HeardInv'
<1>0. /\ TypeOK /\ thistask \in Tasks /\ Tasks \subseteq Scheds /\ thistask # Alerter
      /\ s_state \in [Scheds -> States]
  BY HandlersAreObjects
     DEF HandlersInv, ITypeOK, TypeOK, AlerterInv, ILoopSleeps, Scheduling, LoopSleeps, InLoop
<1>1. CASE \E e : Fail(e)
  <2>1. \A t \in Tasks : ~Sleeping(t)'
    BY <1>1 DEF Fail, Sleeping, Going
  <2> QED  BY <2>1 DEF HeardInv
<1>2. CASE ~ \E e : Fail(e)
  <2>1. /\ phase = "user" /\ phase' = "schedule" /\ RemovedIfRunning(thistask)
        /\ UNCHANGED <<thistask, priority_sched, call, picked, hnd, half, got, at>>
        /\ \A o \in On : IPending(o)
    BY <1>2 DEF ILoopSleeps, Scheduling, LoopSleeps, InLoop, interruptVars
  <2>2. SUFFICES ASSUME NEW t \in Tasks, NEW x \in Handlers, Deaf(t, x)' PROVE Heard(x)'
    BY DEF HeardInv, Deaf
  <2>3. t # thistask
    BY <2>1, <2>2 DEF Deaf, On, IPending
  <2>4. s_state'[t] = s_state[t]
    BY <1>0, <2>1, <2>3, RemovedStates
  <2>5. Deaf(t, x)
    BY <2>1, <2>2, <2>3, <2>4 DEF Deaf, Sleeping, Going
  <2>6. PICK y \in Signals : /\ hnd[y] # <<>> /\ Head(hnd[y]) = x /\ Coming(y)
                             /\ ~(half.op = "constructor" /\ half.sig = y)
    BY <2>5 DEF HeardInv, Deaf, Heard
  <2>7. Coming(y)'
    BY <1>0, <2>1, <2>6 DEF Coming
  <2> QED  BY <2>1, <2>6, <2>7 DEF Heard
<1> QED  BY <1>1, <1>2

LEMMA SignalHeard ==
  ASSUME LeavesSignals, HandlersInv, AlerterInv, HeardInv, AllStay,
         NEW sig \in Signals, sigFunc(sig)
  PROVE  HeardInv'
<1>1. CASE hnd[sig] = <<>>
  <2>1. \A t \in Tasks : ~Sleeping(t)'
    BY <1>1 DEF sigFunc, Fail, Sleeping, Going
  <2> QED  BY <2>1 DEF HeardInv
<1>2. CASE hnd[sig] # <<>>
  <2>0. hnd \in [Signals -> Seq(Handlers)] /\ got \in [Handlers -> BOOLEAN]
    BY DEF HandlersInv, ITypeOK
  <2>1. /\ got' = [got EXCEPT ![Head(hnd[sig])] = TRUE] /\ priority_sched' = Alerter
        /\ UNCHANGED <<hnd, half>>
    BY <1>2 DEF sigFunc
  <2>2. ~(half.op = "constructor" /\ half.sig = sig)
    BY NotHalf DEF sigFunc, LeavesSignals, InWindow
  <2>3. SUFFICES ASSUME NEW t \in Tasks, NEW x \in Handlers, Deaf(t, x)' PROVE Heard(x)'
    BY DEF HeardInv, Deaf
  <2>4. \A y \in Signals : Coming(y)'
    BY <2>1 DEF Coming
  <2>5. CASE got[x]
    <3>1. Heard(x)
      BY <2>3, <2>5, HeardStays
    <3> QED  BY <2>1, <2>4, <3>1 DEF Heard
  <2>6. CASE ~got[x]
    <3>1. x = Head(hnd[sig])
      BY <2>0, <2>1, <2>3, <2>6 DEF Deaf
    <3> QED  BY <1>2, <2>1, <2>2, <2>4, <3>1 DEF Heard
  <2> QED  BY <2>5, <2>6
<1> QED  BY <1>1, <1>2

LEMMA HeardInductive ==
  ASSUME LeavesSignals, HandlersInv, AlerterInv, WaitersHeard, HeardInv, [INext]_systemVars
  PROVE  HeardInv'
<1>0. TypeOK
  BY DEF HandlersInv, ITypeOK
<1>1. CASE ILoopSleeps
  BY <1>1, LoopSleepsStill
<1> SUFFICES ASSUME AllStay PROVE HeardInv'
  BY <1>1, InterruptsAllStay
<1>2. CASE StaticConstruction
  <2>1. UNCHANGED <<hnd, half, got>> /\ phase = "user" /\ ~Born(Alerter)
    BY <1>2 DEF StaticConstruction, Scheduling, NewTask, Calling, interruptVars
  <2>2. \A sig \in Signals : ~Coming(sig)
    BY <2>1, HandlersAreObjects, IdentitiesAssumption
       DEF Coming, AlerterInv, Unstarted, Objects
  <2> QED  BY <2>1, <2>2, QuietHeard
<1>3. CASE UserRuns /\ Scheduling(UserCall)
  <2>1. /\ LeftAlone /\ UNCHANGED priority_sched /\ phase = "user" /\ UNCHANGED <<hnd, half, got>>
        /\ thistask # Alerter
    BY <1>0, <1>3, UserCallSignals, UserCallPhase DEF Scheduling, interruptVars, UserRuns
  <2>2. \A sig \in Signals : Coming(sig) => Coming(sig)'
    BY <2>1 DEF Coming, LeftAlone
  <2> QED  BY <2>1, <2>2, QuietHeard
<1>4. CASE AlerterSleeps
  <2>1. \A sig \in Signals : Coming(sig) => Coming(sig)'
    BY <1>4 DEF AlerterSleeps, Coming, Signals
  <2> QED  BY <1>4, <2>1, QuietHeard DEF AlerterSleeps
<1>5. CASE IWaitReturns \/ IWaitVecReturns
  <2>1. UNCHANGED <<hnd, half>> /\ \A h \in Handlers : got'[h] => got[h]
    BY <1>5 DEF IWaitReturns, IWaitVecReturns, Unmarked
  <2>2. \A sig \in Signals : Coming(sig) => Coming(sig)'
    BY <1>5 DEF IWaitReturns, IWaitVecReturns, Return, Coming
  <2> QED  BY <2>1, <2>2, QuietHeard
<1>6. CASE Scheduling(Schedule)
  BY <1>0, <1>6, ScheduleHeard DEF Scheduling
<1>7. CASE Destroyed \/ Pause \/ Scheduling(Stopped) \/ UNCHANGED systemVars
  <2>1. /\ UNCHANGED <<schedVars, hnd, got, at>>
        /\ half' = half \/ half'.op # "constructor"
    BY <1>7, NotHalf DEF Destroyed, Pause, Scheduling, Stopped, systemVars, interruptVars
  <2>2. \A sig \in Signals : Coming(sig) => Coming(sig)'
    BY <2>1 DEF schedVars, Coming
  <2> QED  BY <2>1, <2>2, QuietHeard
<1> QED
  BY <1>1, <1>2, <1>3, <1>4, <1>5, <1>6, <1>7, ConstructHeard, ConstructedHeard,
     DestroyHeard, AlerterLooksHeard, SignalHeard DEF INext, User, Goes

ListenInv ==
  HandlersInv /\ ChainWellFormed /\ AlerterInv /\ WaitersHeard /\ HeardInv

LEMMA ListenInvariant ==
  ASSUME LeavesSignals
  PROVE  ISpec => []ListenInv
<1>1. IInit => ListenInv
  <2> SUFFICES ASSUME IInit PROVE ListenInv
    OBVIOUS
  <2>1. /\ HandlersInv /\ Init /\ installed = {} /\ Alerter \in Tasks /\ Alerter # Main
        /\ Main \in Tasks
    BY HandlersStart, InterruptsAssumption, IdentitiesAssumption DEF IInit
  <2>2. ChainWellFormed
    <3>1. runchain = <<>> /\ phase # "picked" /\ DOMAIN runchain = {}
      BY <2>1 DEF Init
    <3> QED  BY <3>1 DEF ChainWellFormed, WellFormed
  <2>3. /\ \A t \in Tasks : call[t].loop = "none"
        /\ s_state[Main] = "RUNNING" /\ s_state[Alerter] = "UNBORN"
    BY <2>1 DEF Init, NotInCall, Scheds
  <2>4. AlerterInv
    BY <2>1, <2>3 DEF Init, AlerterInv, Unstarted, RoundBegins, Born
  <2>5. WaitersHeard /\ HeardInv
    BY <2>3 DEF WaitersHeard, HeardInv, Sleeping
  <2> QED  BY <2>1, <2>2, <2>4, <2>5 DEF ListenInv
<1>2. ListenInv /\ [INext]_systemVars => ListenInv'
  BY HandlersInductive, ChainInductive, AlerterInductive, WaitersInductive, HeardInductive
     DEF ListenInv
<1> QED  BY <1>1, <1>2, PTL DEF ISpec

(* While a task sleeps in wait() or waitvec() on the newest handler of a   *)
(* signal that has come, the alerter is on its way to it and the process is*)
(* not inside pause(): whatever other signals come, at whatever step, and  *)
(* whatever handlers are constructed and deleted meanwhile (event.c).      *)
THEOREM NoInterruptIsLost ==
  ASSUME LeavesSignals
  PROVE  ISpec => []InterruptsHeard
<1>1. ListenInv => InterruptsHeard
  <2> SUFFICES ASSUME ListenInv, NEW t \in Tasks, NEW sig \in Signals, SleepsOn(t, sig)
               PROVE  /\ ~paused
                      /\ \/ priority_sched = Alerter
                         \/ phase = "picked" /\ picked = Alerter
                         \/ thistask = Alerter /\ at \in 1..sig
    BY DEF InterruptsHeard
  <2>1. hnd[sig] # <<>> /\ hnd[sig] \in Seq(Handlers) /\ thistask \in Tasks /\ phase \in Phases
    BY DEF SleepsOn, Marked, ListenInv, HandlersInv, ITypeOK, TypeOK
  <2> DEFINE h == Head(hnd[sig])
  <2>2. h \in Handlers /\ got[h] /\ h \in call[t].on
    BY <2>1 DEF SleepsOn, Marked
  <2>3. Sleeping(t)
    BY <2>1 DEF SleepsOn, Sleeping, Going, Phases, ListenInv, AlerterInv
  <2>4. PICK y \in Signals : hnd[y] # <<>> /\ Head(hnd[y]) = h /\ Coming(y)
    BY <2>2, <2>3 DEF ListenInv, HeardInv, Heard
  <2>5. y = sig
    <3>1. hnd \in [Signals -> Seq(Handlers)] /\ Apart
      BY DEF ListenInv, HandlersInv, ITypeOK
    <3>2. 1 \in DOMAIN hnd[sig] /\ hnd[sig][1] = h /\ 1 \in DOMAIN hnd[y] /\ hnd[y][1] = h
      BY <2>1, <2>4, <3>1
    <3>3. h \in Elems(hnd[sig]) /\ h \in Elems(hnd[y])
      BY <3>2 DEF Elems
    <3> QED  BY <3>1, <3>3 DEF Apart
  <2>6. ~paused
    <3>1. Alerter # None
      BY HandlersAreObjects, IdentitiesAssumption DEF Objects
    <3> QED  BY <2>4, <3>1 DEF SleepsOn, Coming, ListenInv, HandlersInv, AlerterInv
  <2> QED  BY <2>4, <2>5, <2>6 DEF Coming
<1> QED  BY <1>1, ListenInvariant, PTL

(* Signals take nothing from the other waiters: no wakeup is lost in a     *)
(* program with handlers either.                                           *)
THEOREM SignalsLoseNoWakeup ==
  ASSUME LeavesSignals
  PROVE  ISpec => []WaitersHeard
<1>1. ListenInv => WaitersHeard
  BY DEF ListenInv
<1> QED  BY <1>1, ListenInvariant, PTL

(***************************************************************************)
(* QueueTasks.                                                             *)
(***************************************************************************)

\* The queue of main() keeps its ends and its bound.
Wired ==
  /\ heap = {queue, head, tail}
  /\ q_max \in [Queues -> Maxes] /\ q_count \in [Queues -> Nat]
  /\ q_head[queue] = head /\ q_tail[queue] = tail
  /\ qh_queue[head] = queue /\ qt_queue[tail] = queue

\* Calls work on that queue.
InsideQueue(t) ==
  /\ inside[t].op \in {"none", "get", "put"}
  /\ inside[t].op = "none" => inside[t] = Outside
  /\ inside[t].op = "get"  => inside[t].end = head /\ inside[t].q = queue
  /\ inside[t].op = "put"  => inside[t].end = tail /\ inside[t].item \in Items
  /\ inside[t].op # "none" => call[t].loop = "none"

QueueInv ==
  /\ TypeOK /\ ChainWellFormed
  /\ Wired
  /\ DOMAIN inside = Tasks /\ \A t \in Tasks : InsideQueue(t)

Empty == q_count[queue] = 0
Full  == q_max[queue] <= q_count[queue]

LEMMA EndsAreObjects ==
  /\ queue \in Queues /\ head \in Heads /\ tail \in Tails /\ head # tail
  /\ head \in Objects /\ tail \in Objects /\ head \notin Scheds /\ tail \notin Scheds
  /\ \A h \in Heads : h \in {queue, head, tail} => h = head
  /\ \A t \in Tails : t \in {queue, head, tail} => t = tail
  /\ None \notin Heads \cup Tails
BY QueueEndsAssumption, IdentitiesAssumption DEF Objects

LEMMA QueueInitial == QInit => QueueInv
<1> SUFFICES ASSUME QInit PROVE QueueInv
  OBVIOUS
<1>1. TypeOK /\ ChainWellFormed
  BY InitType DEF QInit, Init, ChainWellFormed, WellFormed
<1>2. Wired
  BY EndsAreObjects, QueueEndsAssumption DEF QInit, Wired
<1>3. DOMAIN inside = Tasks /\ \A t \in Tasks : InsideQueue(t)
  BY DEF QInit, InsideQueue, Outside
<1> QED  BY <1>1, <1>2, <1>3 DEF QueueInv

(***************************************************************************)
(* What the calls of the queue come to.                                    *)
(***************************************************************************)
Alone == UNCHANGED <<runchain, s_state, s_time, o_link>>

Refuses == \E e \in Errors : QueueFails(e)

Takes == Q!Take(queue) /\ AlertEnd(TailToAlert(queue)) /\ CallDone

Adds(p) == Q!Add(queue, p) /\ AlertEnd(HeadToAlert(queue)) /\ CallDone

AddsFirst(p) == Q!AddFirst(queue, p) /\ CallDone /\ Alone /\ Undisturbed(head)

Counts == Q!CountOnly(queue) /\ CallDone /\ Alone /\ "putback_full" \in QApi

SleepsOnHead == Empty /\ SleepOn(head, [op |-> "get", end |-> head, q |-> queue])

SleepsOnTail(p) == Full /\ SleepOn(tail, [op |-> "put", end |-> tail, item |-> p])

DoesNothing == UNCHANGED <<schedVars, oqueueVars>> /\ (UNCHANGED inside \/ Leave)

QueueCall ==
  \/ Refuses \/ Takes \/ Counts \/ SleepsOnHead \/ DoesNothing
  \/ \E p \in Items : Adds(p) \/ AddsFirst(p) \/ SleepsOnTail(p)

LEMMA RoomOrFull ==
  ASSUME Wired
  PROVE  /\ Q!HasRoom(queue) <=> ~Full
         /\ Empty => ~Full
         /\ q_count[queue] \in Nat /\ q_max[queue] \in Nat \ {0}
<1>1. q_count[queue] \in Nat /\ q_max[queue] \in Nat \ {0}
  BY QueueEndsAssumption DEF Wired
<1> QED  BY <1>1 DEF Q!HasRoom, Full, Empty

LEMMA GetsFromHead ==
  ASSUME GetFrom(head, queue)
  PROVE  QueueCall
<1>1. CASE q_count[queue] = 0 /\ mode[head] = "ZMODE" /\ CallDone
           /\ UNCHANGED <<runchain, s_state, s_time, o_link, oqueueVars>>
  BY <1>1 DEF QueueCall, DoesNothing, CallDone, schedVars
<1>2. CASE \E e \in {"FAULT", "E_GETEMPTY"} : QueueFails(e)
  BY <1>2 DEF QueueCall, Refuses, Errors
<1> QED  BY <1>1, <1>2 DEF GetFrom, QueueCall, Takes, SleepsOnHead, Empty

LEMMA PutsToTail ==
  ASSUME Wired, NEW p \in Items, PutTo(tail, queue, p)
  PROVE  QueueCall
<1>1. CASE CallDone /\ UNCHANGED <<runchain, s_state, s_time, o_link, oqueueVars>>
  BY <1>1 DEF QueueCall, DoesNothing, CallDone, schedVars
<1>2. CASE \E e \in {"E_PUTOBJ", "E_PUTFULL"} : QueueFails(e)
  BY <1>2 DEF QueueCall, Refuses, Errors
<1>3. CASE ~Q!HasRoom(queue) /\ SleepOn(tail, [op |-> "put", end |-> tail, item |-> p])
  BY <1>3, RoomOrFull DEF QueueCall, SleepsOnTail
<1>4. CASE Q!Add(queue, p) /\ AlertEnd(HeadToAlert(queue)) /\ CallDone
  BY <1>4 DEF QueueCall, Adds
<1> QED  BY <1>1, <1>2, <1>3, <1>4 DEF PutTo

LEMMA PutsBackOnHead ==
  ASSUME Wired, NEW p \in Items, PutBackOn(head, p)
  PROVE  QueueCall
<1>1. qh_queue[head] = queue
  BY DEF Wired
<1>2. CASE \E e \in {"E_BACKOBJ", "E_BACKFULL"} : QueueFails(e)
  BY <1>2 DEF QueueCall, Refuses, Errors
<1>3. CASE Q!AddFirst(queue, p) /\ CallDone /\ UNCHANGED <<runchain, s_state, s_time, o_link>>
  BY <1>3 DEF QueueCall, AddsFirst, PutBackOn, Alone
<1>4. CASE /\ "putback_full" \in QApi /\ Q!CountOnly(queue)
           /\ CallDone /\ UNCHANGED <<runchain, s_state, s_time, o_link>>
  BY <1>4 DEF QueueCall, Counts, Alone
<1> QED  BY <1>1, <1>2, <1>3, <1>4 DEF PutBackOn

LEMMA QueueCalls ==
  ASSUME QueueInv, Transfers \/ Resumed
  PROVE  QueueCall /\ phase = "user" /\ call[thistask].loop = "none"
<1>0. thistask \in Tasks /\ InsideQueue(thistask) /\ Wired
  BY DEF QueueInv, TypeOK
<1>1. ASSUME NEW h \in Heads, Get(h)
      PROVE  QueueCall /\ phase = "user" /\ call[thistask].loop = "none"
  <2>1. h = head /\ GetFrom(h, qh_queue[h]) /\ Calling("queue")
    BY <1>0, <1>1, EndsAreObjects DEF Get, Q!IsHead, Wired, QCalling
  <2> QED  BY <1>0, <2>1, GetsFromHead DEF Wired, Calling
<1>2. ASSUME NEW h \in Heads, NEW p \in Items, PutBackOn(h, p)
      PROVE  QueueCall /\ phase = "user" /\ call[thistask].loop = "none"
  <2>1. h = head /\ Calling("queue")
    BY <1>0, <1>2, EndsAreObjects DEF PutBackOn, Q!IsHead, Wired, QCalling
  <2> QED  BY <1>0, <1>2, <2>1, PutsBackOnHead DEF Calling
<1>3. ASSUME NEW t \in Tails, NEW p \in Items, Put(t, p)
      PROVE  QueueCall /\ phase = "user" /\ call[thistask].loop = "none"
  <2>1. t = tail /\ PutTo(t, qt_queue[t], p) /\ Calling("queue")
    BY <1>0, <1>3, EndsAreObjects DEF Put, Q!IsTail, Wired, QCalling
  <2> QED  BY <1>0, <2>1, PutsToTail DEF Wired, Calling
<1>4. ASSUME NEW e, NEW md, SetMode(e, md)
      PROVE  QueueCall /\ phase = "user" /\ call[thistask].loop = "none"
  BY <1>4 DEF SetMode, QCalling, Calling, QueueCall, DoesNothing
<1>5. CASE GetAgain
  <2>1. /\ inside[thistask].op = "get" /\ phase = "user"
        /\ IF Q!IsQueue(queue) THEN GetFrom(head, queue) ELSE QueueFails("FAULT")
    BY <1>0, <1>5 DEF GetAgain, InCall, InsideQueue
  <2>2. QueueCall
    BY <2>1, GetsFromHead DEF QueueCall, Refuses, Errors
  <2> QED  BY <1>0, <2>1, <2>2 DEF InsideQueue
<1>6. CASE PutAgain
  <2>1. /\ inside[thistask].op = "put" /\ phase = "user"
        /\ PutTo(tail, queue, inside[thistask].item)
    BY <1>0, <1>6 DEF PutAgain, InCall, InsideQueue, Wired
  <2> QED  BY <1>0, <2>1, PutsToTail DEF InsideQueue
<1> QED  BY <1>1, <1>2, <1>3, <1>4, <1>5, <1>6 DEF Transfers, Resumed

(***************************************************************************)
(* The invariant under these calls.                                        *)
(***************************************************************************)
LEMMA EndAlerted ==
  ASSUME QueueInv, NEW e \in {None, head, tail}, AlertEnd(e), CallDone, phase = "user"
  PROVE  TypeOK' /\ ChainWellFormed'
<1> USE DEF Scheds
<1>0. /\ TypeOK /\ WellFormed(runchain, s_state) /\ thistask \in Tasks
      /\ s_state \in [Scheds -> States] /\ s_time \in [Scheds -> Int]
      /\ runchain \in Seq(Scheds) /\ clxck \in Int /\ o_link \in [Objects -> Seq(Tasks)]
  BY DEF QueueInv, TypeOK, ChainWellFormed
<1>1. UNCHANGED <<thistask, priority_sched, clxck, clock_task, keep_waiting_count, call, phase,
                  picked, error>>
  BY DEF CallDone
<1>2. /\ runchain' \in Seq(Scheds) /\ s_state' \in [Scheds -> States]
      /\ s_time' \in [Scheds -> Int] /\ o_link' \in [Objects -> Seq(Tasks)]
      /\ WellFormed(runchain', s_state')
  <2>1. CASE e = None
    BY <1>0, <2>1 DEF AlertEnd
  <2>2. CASE e # None
    <3>1. e \in Objects /\ Alerted(e, s_state, s_time, runchain, clxck)
      BY <2>2, EndsAreObjects DEF AlertEnd
    <3> QED  BY <1>0, <3>1, AlertedType, AlertKeeps
  <2> QED  BY <2>1, <2>2
<1>3. TypeOK'
  BY <1>0, <1>1, <1>2 DEF TypeOK
<1>4. ChainWellFormed'
  BY <1>1, <1>2 DEF ChainWellFormed
<1> QED  BY <1>0, <1>1, <1>2, <1>3, <1>4 DEF QueueInv

LEMMA EndSleptOn ==
  ASSUME QueueInv, NEW e \in {head, tail}, NEW locals, SleepOn(e, locals), phase = "user"
  PROVE  TypeOK' /\ ChainWellFormed'
<1>0. /\ TypeOK /\ WellFormed(runchain, s_state) /\ thistask \in Scheds /\ thistask \in Tasks
      /\ e \in Objects
  BY EndsAreObjects DEF QueueInv, TypeOK, ChainWellFormed, Scheds
<1>1. /\ UNCHANGED <<thistask, priority_sched, clxck, clock_task, keep_waiting_count, s_time,
                     call, picked, error>>
      /\ phase' = "schedule" /\ RemovedIfRunning(thistask)
  BY DEF SleepOn
<1>2. o_link' \in [Objects -> Seq(Tasks)]
  <2>1. o_link \in [Objects -> Seq(Tasks)] /\ Remembering(o_link[e], thistask) \in Seq(Tasks)
    BY <1>0, RememberingSeq DEF TypeOK
  <2> QED  BY <2>1 DEF SleepOn
<1>3. runchain' \in Seq(Scheds) /\ s_state' \in [Scheds -> States]
  BY <1>0, <1>1, RemovedType
<1>4. WellFormed(runchain', s_state')
  BY <1>0, <1>1, RemoveKeeps
<1>5. TypeOK'
  BY <1>0, <1>1, <1>2, <1>3 DEF TypeOK, Phases
<1> QED  BY <1>1, <1>4, <1>5 DEF ChainWellFormed, QueueInv

\* Who calls is left inside of nothing or of what it sleeps in.
LEMMA InsideAfter ==
  ASSUME QueueInv, call[thistask].loop = "none", call' = call,
         \/ UNCHANGED inside \/ Leave
         \/ inside' = [inside EXCEPT ![thistask] = [op |-> "get", end |-> head, q |-> queue]]
         \/ \E p \in Items :
              inside' = [inside EXCEPT ![thistask] = [op |-> "put", end |-> tail, item |-> p]]
  PROVE  DOMAIN inside' = Tasks /\ \A t \in Tasks : InsideQueue(t)'
<1>1. DOMAIN inside = Tasks /\ \A t \in Tasks : InsideQueue(t)
  BY DEF QueueInv
<1>2. CASE UNCHANGED inside
  BY <1>1, <1>2 DEF InsideQueue
<1>3. CASE Leave
  BY <1>1, <1>3 DEF InsideQueue, Leave, Outside
<1>4. CASE inside' = [inside EXCEPT ![thistask] = [op |-> "get", end |-> head, q |-> queue]]
  BY <1>1, <1>4 DEF InsideQueue
<1>5. CASE \E p \in Items :
             inside' = [inside EXCEPT ![thistask] = [op |-> "put", end |-> tail, item |-> p]]
  BY <1>1, <1>5 DEF InsideQueue
<1> QED  BY <1>2, <1>3, <1>4, <1>5

\* Only the count of the queue changes.
LEMMA StillWired ==
  ASSUME QueueInv, UNCHANGED <<heap, q_max, q_head, q_tail, qh_queue, qt_queue>>,
         q_count' = q_count \/ \E n \in Nat : q_count' = [q_count EXCEPT ![queue] = n]
  PROVE  Wired'
BY DEF QueueInv, Wired

LEMMA QueueCallKeeps ==
  ASSUME QueueInv, QueueCall, phase = "user", call[thistask].loop = "none"
  PROVE  QueueInv'
<1>0. TypeOK /\ Wired /\ q_count[queue] \in Nat /\ q_count[queue] + 1 \in Nat
  BY RoomOrFull DEF QueueInv
<1>1. CASE Refuses
  <2>1. /\ UNCHANGED <<oqueueVars, inside>>
        /\ UNCHANGED <<thistask, runchain, clock_task, s_state, call>>
        /\ phase' = "error" /\ TypeOK'
    BY <1>0, <1>1 DEF Refuses, QueueFails, Fail, TypeOK, Phases
  <2> QED  BY <2>1 DEF QueueInv, ChainWellFormed, Wired, InsideQueue, oqueueVars
<1>2. ASSUME CallDone, NEW e \in {None, head, tail}, AlertEnd(e), Wired'
      PROVE  QueueInv'
  <2>1. DOMAIN inside' = Tasks /\ \A t \in Tasks : InsideQueue(t)'
    BY <1>2, InsideAfter DEF CallDone
  <2> QED  BY <1>2, <2>1, EndAlerted DEF QueueInv
<1>3. CASE Takes
  <2>1. TailToAlert(queue) \in {None, head, tail}
    BY <1>0 DEF TailToAlert, Wired
  <2>2. q_count[queue] # 0 /\ q_count[queue] - 1 \in Nat
    BY <1>0, <1>3 DEF Takes, Q!Take, Q!NotEmpty
  <2>3. /\ q_count' = [q_count EXCEPT ![queue] = q_count[queue] - 1]
        /\ UNCHANGED <<heap, q_max, q_head, q_tail, qh_queue, qt_queue>>
    BY <1>3 DEF Takes, Q!Take
  <2>4. Wired'
    BY <2>2, <2>3, StillWired
  <2> QED  BY <1>2, <1>3, <2>1, <2>4 DEF Takes
<1>4. ASSUME NEW p \in Items, Adds(p) PROVE QueueInv'
  <2>1. HeadToAlert(queue) \in {None, head, tail}
    BY <1>0 DEF HeadToAlert, Wired
  <2>2. /\ q_count' = [q_count EXCEPT ![queue] = q_count[queue] + 1]
        /\ UNCHANGED <<heap, q_max, q_head, q_tail, qh_queue, qt_queue>>
    BY <1>4 DEF Adds, Q!Add
  <2>3. Wired'
    BY <1>0, <2>2, StillWired
  <2> QED  BY <1>2, <1>4, <2>1, <2>3 DEF Adds
<1>5. CASE Counts \/ \E p \in Items : AddsFirst(p)
  <2>1. /\ q_count' = [q_count EXCEPT ![queue] = q_count[queue] + 1]
        /\ UNCHANGED <<heap, q_max, q_head, q_tail, qh_queue, qt_queue>>
        /\ CallDone /\ AlertEnd(None)
    BY <1>5 DEF Counts, AddsFirst, Q!CountOnly, Q!AddFirst, Alone, AlertEnd
  <2>2. Wired'
    BY <1>0, <2>1, StillWired
  <2> QED  BY <1>2, <2>1, <2>2
<1>6. ASSUME NEW e \in {head, tail}, NEW locals, SleepOn(e, locals),
             DOMAIN inside' = Tasks /\ \A t \in Tasks : InsideQueue(t)'
      PROVE  QueueInv'
  <2>1. Wired'
    BY <1>0, <1>6 DEF SleepOn, Wired, oqueueVars
  <2> QED  BY <1>6, <2>1, EndSleptOn DEF QueueInv
<1>7. CASE SleepsOnHead
  <2>1. DOMAIN inside' = Tasks /\ \A t \in Tasks : InsideQueue(t)'
    BY <1>7, InsideAfter DEF SleepsOnHead, SleepOn
  <2> QED  BY <1>6, <1>7, <2>1 DEF SleepsOnHead
<1>8. ASSUME NEW p \in Items, SleepsOnTail(p) PROVE QueueInv'
  <2>1. DOMAIN inside' = Tasks /\ \A t \in Tasks : InsideQueue(t)'
    BY <1>8, InsideAfter DEF SleepsOnTail, SleepOn
  <2> QED  BY <1>6, <1>8, <2>1 DEF SleepsOnTail
<1>9. CASE DoesNothing
  <2>1. /\ DOMAIN inside' = Tasks /\ \A t \in Tasks : InsideQueue(t)'
    BY <1>9, InsideAfter DEF DoesNothing, schedVars
  <2>2. TypeOK' /\ ChainWellFormed'
    BY <1>9 DEF DoesNothing, schedVars, QueueInv, TypeOK, ChainWellFormed
  <2>3. Wired'
    BY <1>0, <1>9 DEF DoesNothing, oqueueVars, Wired
  <2> QED  BY <2>1, <2>2, <2>3 DEF QueueInv
<1> QED  BY <1>1, <1>3, <1>4, <1>5, <1>7, <1>8, <1>9 DEF QueueCall

(***************************************************************************)
(* The invariant under the steps of the scheduler.                         *)
(***************************************************************************)
LEMMA QueueLeft ==
  ASSUME QueueInv, UNCHANGED oqueueVars, UNCHANGED inside,
         TypeOK', ChainWellFormed',
         \A t \in Tasks : call'[t] = call[t] \/ inside[t] = Outside \/ call'[t].loop = "none"
  PROVE  QueueInv'
<1>1. Wired'
  BY DEF QueueInv, Wired, oqueueVars
<1>2. \A t \in Tasks : InsideQueue(t)'
  BY DEF QueueInv, InsideQueue, Outside
<1> QED  BY <1>1, <1>2 DEF QueueInv

\* A call enters the loop of the task that makes it, and of no other.
OwnLoop == \A t \in Tasks : t # thistask => call'[t] = call[t]

LEMMA CallsOwnLoop ==
  ASSUME TypeOK, UserCall
  PROVE  OwnLoop
<1>1. ASSUME NEW e, Fail(e) PROVE OwnLoop
  BY <1>1 DEF Fail, OwnLoop
<1>2. ASSUME NEW loop, NEW S, Enter(loop, S)
      PROVE  OwnLoop
  BY <1>2 DEF Enter, TypeOK, OwnLoop
<1>3. ASSUME \/ \E s \in Scheds : Result(s)
             \/ \E o \in Objects : Wait(o)
             \/ \E S \in Lists : WaitVec(S)
      PROVE  OwnLoop
  BY <1>1, <1>2, <1>3 DEF Result, Wait, WaitVec
<1>4. ASSUME NEW t \in Tasks,
             \/ NewTask(t) \/ Preempt(t) \/ SetClockTask(t)
             \/ \E d \in Delays : Delay(t, d)
             \/ \E o \in Objects \cup {None} : Sleep(t, o)
             \/ \E o \in Objects : Remember(o, t) \/ Forget(o, t)
             \/ \E val \in Results : ResultIs(t, val)
      PROVE  OwnLoop
  BY <1>1, <1>4
  DEF NewTask, Preempt, SetClockTask, Delay, Sleep, Remember, Forget, ResultIs, OwnLoop
<1>5. ASSUME \/ \E m \in Timers, d \in Delays : SetTimer(m, d)
             \/ \E s \in Scheds :
                  SetPrioritySched(s) \/ \E val \in Results : Cancel(s, val)
             \/ \E o \in Objects : Alert(o)
             \/ \E x \in Times : SetClock(x)
             \/ KeepWaiting(1) \/ KeepWaiting(-1)
      PROVE  OwnLoop
  BY <1>1, <1>5
  DEF SetTimer, SetPrioritySched, Cancel, Alert, SetClock, KeepWaiting, OwnLoop
<1> QED  BY <1>3, <1>4, <1>5 DEF UserCall

LEMMA QueueNextKeeps ==
  ASSUME QueueInv, [QNext]_vars
  PROVE  QueueInv'
<1>0. /\ TypeOK /\ ChainWellFormed /\ thistask \in Tasks
      /\ call \in [Tasks -> Calls]
  BY DEF QueueInv, TypeOK
<1>1. CASE Transfers \/ Resumed
  BY <1>1, QueueCalls, QueueCallKeeps
<1>2. CASE Free /\ Sched(UserCall)
  <2>1. UserCall /\ UNCHANGED <<oqueueVars, mode, inside>> /\ inside[thistask] = Outside
    BY <1>2 DEF Sched, Free
  <2>2. TypeOK' /\ ChainWellFormed'
    BY <1>0, <2>1, UserCallType, UserCallChain DEF ChainWellFormed
  <2>3. OwnLoop
    BY <1>0, <2>1, CallsOwnLoop
  <2> QED  BY <2>1, <2>2, <2>3, QueueLeft DEF OwnLoop
<1>3. CASE QWaitReturns \/ QWaitVecReturns
  <2>1. /\ Return /\ UNCHANGED <<oqueueVars, inside>>
        /\ o_link' \in [Objects -> Seq(Tasks)]
    <3>1. \A o \in Objects : Without(o_link[o], thistask) \in Seq(Tasks)
      BY <1>0, WithoutSeq DEF TypeOK
    <3> QED  BY <1>0, <1>3, <3>1 DEF QWaitReturns, QWaitVecReturns, TypeOK
  <2>2. /\ call' \in [Tasks -> Calls]
        /\ \A t \in Tasks : call'[t] = call[t] \/ call'[t].loop = "none"
    BY <1>0, <2>1 DEF Return, NotInCall, Calls
  <2>3. TypeOK'
    BY <1>0, <2>1, <2>2 DEF Return, TypeOK
  <2>4. ChainWellFormed'
    BY <1>0, <2>1 DEF Return, ChainWellFormed
  <2> QED  BY <2>1, <2>2, <2>3, <2>4, QueueLeft
<1>4. CASE QLoopSleeps
  <2>1. LoopSleeps /\ UNCHANGED <<oqueueVars, inside>>
    BY <1>4 DEF QLoopSleeps
  <2>2. TypeOK' /\ ChainWellFormed'
    BY <1>0, <2>1, SystemType, SystemChain
  <2>3. UNCHANGED call
    BY <2>1 DEF LoopSleeps, Fail
  <2> QED  BY <2>1, <2>2, <2>3, QueueLeft
<1>5. CASE Sched(Schedule)
  <2>1. Schedule /\ UNCHANGED <<oqueueVars, inside>>
    BY <1>5 DEF Sched
  <2>2. TypeOK' /\ ChainWellFormed'
    BY <1>0, <2>1, SystemType, SystemChain
  <2>3. UNCHANGED call
    BY <2>1 DEF Schedule, PickPriority, PickFront, NothingToRun, BadTime, Fail, ResumeTask,
                ResumeClockTask, FireTimer
  <2> QED  BY <2>1, <2>2, <2>3, QueueLeft
<1>6. CASE Sched(Stopped) \/ UNCHANGED vars
  <2>1. UNCHANGED <<schedVars, oqueueVars, inside>>
    BY <1>6 DEF Sched, Stopped, vars
  <2>2. TypeOK' /\ ChainWellFormed' /\ UNCHANGED call
    BY <1>0, <2>1 DEF schedVars, TypeOK, ChainWellFormed
  <2> QED  BY <2>1, <2>2, QueueLeft
<1> QED  BY <1>1, <1>2, <1>3, <1>4, <1>5, <1>6 DEF QNext

LEMMA QueueInvariant == QSpec => []QueueInv
<1>1. QueueInv /\ [QNext]_vars => QueueInv'
  BY QueueNextKeeps
<1> QED  BY <1>1, QueueInitial, PTL DEF QSpec

(***************************************************************************)
(* The types of what the queue holds, and of what its callers wait in.     *)
(***************************************************************************)
DataOK ==
  /\ q_ptr \in [Queues -> Items \cup {None}]
  /\ o_next \in [Items -> Items \cup {None}]
  /\ q_head \in [Queues -> Heads \cup {None}] /\ q_tail \in [Queues -> Tails \cup {None}]
  /\ qh_queue \in [Heads -> Queues \cup {None}] /\ qt_queue \in [Tails -> Queues \cup {None}]

ModeOK == mode \in [Heads \cup Tails -> Modes]

InsideOK == inside \in [Tasks -> Insides]

LEMMA DataInitial == QInit => DataOK /\ ModeOK /\ InsideOK
<1> SUFFICES ASSUME QInit PROVE DataOK /\ ModeOK /\ InsideOK
  OBVIOUS
<1>1. DataOK
  BY EndsAreObjects DEF QInit, DataOK
<1>2. ModeOK
  BY DEF QInit, ModeOK
<1>3. InsideOK
  BY DEF QInit, InsideOK, Insides
<1> QED  BY <1>1, <1>2, <1>3

\* The objects that Linked() reads and writes are objects.
LEMMA LinkedType ==
  ASSUME DataOK, NEW p \in Items
  PROVE  Q!Linked(queue, p) \in [Items -> Items \cup {None}]
<1>1. Q!First(queue) \in Items \cup {None} \/ q_ptr[queue] = None
  BY QueueEndsAssumption DEF DataOK, Q!First
<1>2. Q!First(queue) \in Items \cup {None}
  BY <1>1 DEF Q!First
<1> QED  BY <1>2 DEF Q!Linked, DataOK

LEMMA QueueCallData ==
  ASSUME DataOK, QueueCall
  PROVE  DataOK'
<1>0. queue \in Queues
  BY QueueEndsAssumption
<1>1. ASSUME UNCHANGED <<q_head, q_tail, qh_queue, qt_queue>>,
             q_ptr' \in [Queues -> Items \cup {None}], o_next' \in [Items -> Items \cup {None}]
      PROVE  DataOK'
  BY <1>1 DEF DataOK
<1>2. CASE UNCHANGED oqueueVars
  BY <1>2 DEF DataOK, oqueueVars
<1>3. CASE Takes
  <2>1. q_ptr[queue] \in Items \cup {None} /\ Q!First(queue) # None
    BY <1>0, <1>3 DEF DataOK, Takes, Q!Take
  <2>2. q_ptr[queue] \in Items /\ Q!First(queue) \in Items
    BY <2>1 DEF Q!First, DataOK
  <2>3. o_next[Q!First(queue)] \in Items \cup {None}
    BY <2>2 DEF DataOK
  <2>4. o_next' \in [Items -> Items \cup {None}]
    BY <1>3, <2>2, <2>3 DEF Takes, Q!Take, DataOK
  <2>5. UNCHANGED <<q_ptr, q_head, q_tail, qh_queue, qt_queue>>
    BY <1>3 DEF Takes, Q!Take
  <2> QED  BY <1>1, <2>4, <2>5 DEF DataOK
<1>4. ASSUME NEW p \in Items, Adds(p) \/ AddsFirst(p) PROVE DataOK'
  <2>1. /\ o_next' = Q!Linked(queue, p)
        /\ q_ptr' = [q_ptr EXCEPT ![queue] = p] \/ q_ptr' = q_ptr
        /\ UNCHANGED <<q_head, q_tail, qh_queue, qt_queue>>
    BY <1>4 DEF Adds, AddsFirst, Q!Add, Q!AddFirst, Q!NewLast
  <2>2. o_next' \in [Items -> Items \cup {None}]
    BY <2>1, LinkedType
  <2>3. q_ptr' \in [Queues -> Items \cup {None}]
    BY <2>1 DEF DataOK
  <2> QED  BY <1>1, <2>1, <2>2, <2>3
<1>5. CASE Counts
  BY <1>1, <1>5 DEF Counts, Q!CountOnly, DataOK
<1>6. CASE Refuses \/ SleepsOnHead \/ DoesNothing \/ \E p \in Items : SleepsOnTail(p)
  BY <1>2, <1>6 DEF Refuses, QueueFails, SleepsOnHead, SleepsOnTail, SleepOn, DoesNothing
<1> QED  BY <1>3, <1>4, <1>5, <1>6 DEF QueueCall

LEMMA QueueCallInside ==
  ASSUME InsideOK, QueueCall
  PROVE  InsideOK'
<1>1. CASE UNCHANGED inside
  BY <1>1 DEF InsideOK
<1>2. CASE Leave
  BY <1>2 DEF InsideOK, Leave, Insides
<1>3. CASE SleepsOnHead
  <2>1. [op |-> "get", end |-> head, q |-> queue] \in Insides
    BY QueueEndsAssumption DEF Insides
  <2> QED  BY <1>3, <2>1 DEF SleepsOnHead, SleepOn, InsideOK
<1>4. ASSUME NEW p \in Items, SleepsOnTail(p) PROVE InsideOK'
  <2>1. [op |-> "put", end |-> tail, item |-> p] \in Insides
    BY QueueEndsAssumption DEF Insides
  <2> QED  BY <1>4, <2>1 DEF SleepsOnTail, SleepOn, InsideOK
<1> QED
  BY <1>1, <1>2, <1>3, <1>4
  DEF QueueCall, Refuses, QueueFails, Takes, Adds, AddsFirst, Counts, CallDone, DoesNothing

\* Only setmode() changes a mode.
LEMMA TransfersMode ==
  ASSUME ModeOK, Transfers \/ Resumed
  PROVE  ModeOK'
<1>1. CASE \E e \in Heads \cup Tails, md \in Modes : SetMode(e, md)
  BY <1>1 DEF SetMode, ModeOK
<1>2. ASSUME NEW h, NEW q, GetFrom(h, q) PROVE UNCHANGED mode
  BY <1>2 DEF GetFrom, CallDone, QueueFails, SleepOn
<1>3. ASSUME NEW t, NEW q, NEW p, PutTo(t, q, p) PROVE UNCHANGED mode
  BY <1>3 DEF PutTo, CallDone, QueueFails, SleepOn
<1>4. ASSUME NEW h, NEW p, PutBackOn(h, p) PROVE UNCHANGED mode
  BY <1>4 DEF PutBackOn, CallDone, QueueFails
<1>5. CASE Resumed
  BY <1>2, <1>3, <1>5 DEF Resumed, GetAgain, PutAgain, QueueFails, ModeOK
<1> QED  BY <1>1, <1>2, <1>3, <1>4, <1>5 DEF Transfers, Get, Put, ModeOK

(* The types of the scheduler with its queue, for any program: what a task *)
(* is inside of is a get() of a queue or a put() of an object to one, and  *)
(* a link leads to an object or is null.                                   *)
THEOREM QueueTypes == QSpec => []QTypeOK
<1> DEFINE Data == DataOK /\ ModeOK /\ InsideOK
<1>1. QInit => Data
  BY DataInitial
<1>2. QueueInv /\ Data /\ [QNext]_vars => Data'
  <2> SUFFICES ASSUME QueueInv, Data, [QNext]_vars PROVE Data'
    OBVIOUS
  <2>1. CASE Transfers \/ Resumed
    BY <2>1, QueueCalls, QueueCallData, QueueCallInside, TransfersMode
  <2>2. CASE ~(Transfers \/ Resumed)
    <3>1. UNCHANGED <<oqueueVars, mode, inside>>
      BY <2>2 DEF QNext, Sched, QWaitReturns, QWaitVecReturns, QLoopSleeps, vars
    <3> QED  BY <3>1 DEF DataOK, ModeOK, InsideOK, oqueueVars
  <2> QED  BY <2>1, <2>2
<1>3. QueueInv /\ Data => QTypeOK
  <2> SUFFICES ASSUME QueueInv, Data PROVE QTypeOK
    OBVIOUS
  <2>1. q_max \in [Queues -> Nat \ {0}] /\ q_count \in [Queues -> Nat]
    BY QueueEndsAssumption DEF QueueInv, Wired
  <2>2. heap \subseteq Queues \cup Heads \cup Tails
    BY QueueEndsAssumption DEF QueueInv, Wired
  <2> QED  BY <2>1, <2>2 DEF QTypeOK, Q!TypeOK, QueueInv, DataOK, ModeOK, InsideOK
<1> HIDE DEF Data
<1> QED  BY <1>1, <1>2, <1>3, QueueInvariant, PTL DEF QSpec

(***************************************************************************)
(* Nobody sleeps beside work.                                              *)
(***************************************************************************)
UsesHead(t) ==
  \/ inside[t] # Outside /\ inside[t].end = head
  \/ head \in call[t].on

\* What task t may be asleep for stays as it is: no object for one that the
\* head knows, and no room for one that the tail knows.
EndsStay(t) ==
  /\ Empty /\ t \in Elems(o_link[head]) /\ UsesHead(t) => Empty'
  /\ t \in Elems(o_link[tail]) =>
       /\ Full => Full'
       /\ q_count[queue] = q_max[queue] /\ "putback_full" \notin QApi
          => q_count'[queue] = q_max'[queue]

DozesOn(t) == Dozes(t) /\ inside'[t] = inside[t] /\ EndsStay(t)

\* The end that is alerted knew none of those who are asleep afterwards.
LEMMA AlertEndDozes ==
  ASSUME QueueInv, phase = "user", NEW e \in {None, head, tail}, AlertEnd(e), CallDone,
         NEW t \in Tasks, Dozing(t)'
  PROVE  /\ Dozes(t) /\ inside'[t] = inside[t]
         /\ e # None => t \notin Elems(o_link[e])
<1>0. TypeOK /\ o_link \in [Objects -> Seq(Tasks)] /\ DOMAIN inside = Tasks
  BY DEF QueueInv, TypeOK
<1>1. Going /\ t # thistask /\ UNCHANGED call
  BY DEF CallDone, Dozing, Going
<1>2. inside'[t] = inside[t]
  BY <1>0, <1>1 DEF CallDone, Leave
<1>3. CASE e = None
  BY <1>0, <1>1, <1>2, <1>3, QuietDozes DEF AlertEnd
<1>4. CASE e # None
  <2>1. e \in Objects /\ Alerted(e, s_state, s_time, runchain, clxck)
    BY <1>4, EndsAreObjects DEF AlertEnd
  <2>2. Dozes(t)
    BY <1>0, <1>1, <2>1, AlertedDozes
  <2>3. t \notin Elems(o_link[e])
    BY <1>0, <2>1, AlertedWakes DEF Dozing
  <2> QED  BY <1>2, <2>2, <2>3
<1> QED  BY <1>3, <1>4

\* Who falls asleep in a call is heard by the end, and the others stay.
LEMMA SleepOnDozes ==
  ASSUME QueueInv, phase = "user", NEW e \in {head, tail}, NEW locals, SleepOn(e, locals),
         NEW t \in Tasks, Dozing(t)'
  PROVE  /\ t # thistask => DozesOn(t)
         /\ t = thistask => t \in Elems(o_link'[e]) /\ inside'[t] = locals
<1>0. /\ TypeOK /\ o_link \in [Objects -> Seq(Tasks)] /\ DOMAIN inside = Tasks
      /\ thistask \in Tasks /\ thistask \in Scheds /\ e \in Objects /\ t \in Scheds
  BY EndsAreObjects DEF QueueInv, TypeOK, Scheds
<1>1. /\ RemovedIfRunning(thistask) /\ UNCHANGED <<call, q_count, q_max>>
      /\ inside' = [inside EXCEPT ![thistask] = locals]
      /\ o_link' = IF s_state[thistask] = "TERMINATED" THEN o_link
                   ELSE [o_link EXCEPT ![e] = Remembering(@, thistask)]
  BY DEF SleepOn, oqueueVars
<1>2. /\ \A s \in Scheds : s # thistask => s_state'[s] = s_state[s]
      /\ \A s \in Scheds : s_state'[s] = "TERMINATED" => s_state[s] = "TERMINATED"
      /\ s_state'[thistask] = "IDLE" => s_state[thistask] # "TERMINATED"
  BY <1>0, <1>1, RemovedStates
<1>3. ASSUME t # thistask PROVE DozesOn(t)
  <2>1. \A o \in Objects : t \in Elems(o_link[o]) => t \in Elems(o_link'[o])
    BY <1>0, <1>1, RememberingElems
  <2>2. Dozes(t)
    BY <1>0, <1>1, <1>2, <1>3, <2>1, QuietDozes DEF Going
  <2> QED  BY <1>0, <1>1, <1>3, <2>2 DEF DozesOn, EndsStay, Empty, Full
<1>4. ASSUME t = thistask PROVE t \in Elems(o_link'[e]) /\ inside'[t] = locals
  <2>1. o_link'[e] = Remembering(o_link[e], thistask)
    BY <1>0, <1>1, <1>2, <1>4 DEF Dozing
  <2> QED  BY <1>0, <1>1, <1>4, <2>1, RememberingElems
<1> QED  BY <1>3, <1>4

LEMMA QueueCallDozes ==
  ASSUME QueueInv, QueueCall, phase = "user", "busy" \notin QApi, NEW t \in Tasks, Dozing(t)'
  PROVE  \/ DozesOn(t)
         \/ t = thistask /\ SleepsOnHead
         \/ t = thistask /\ \E p \in Items : SleepsOnTail(p)
<1>0. /\ Wired /\ q_count[queue] \in Nat /\ q_max[queue] \in Nat \ {0} /\ queue \in Queues
      /\ DOMAIN q_count = Queues
  BY RoomOrFull, EndsAreObjects DEF QueueInv, Wired
<1>1. ~Refuses
  BY DEF Refuses, QueueFails, Fail, Dozing, Going
<1>2. CASE Takes
  <2> DEFINE e == TailToAlert(queue)
  <2>1. e \in {None, head, tail} /\ (q_count[queue] = q_max[queue] => e = tail)
    BY <1>0 DEF TailToAlert, Wired
  <2>2. /\ Dozes(t) /\ inside'[t] = inside[t]
        /\ e # None => t \notin Elems(o_link[e])
    <3>1. AlertEnd(e) /\ CallDone
      BY <1>2 DEF Takes
    <3> HIDE DEF e
    <3> QED  BY <2>1, <3>1, AlertEndDozes
  <2>3. /\ q_count[queue] # 0 /\ q_count'[queue] = q_count[queue] - 1 /\ UNCHANGED q_max
    BY <1>0, <1>2 DEF Takes, Q!Take, Q!NotEmpty
  <2>4. t \in Elems(o_link[tail]) => q_count[queue] # q_max[queue]
    BY <2>1, <2>2, EndsAreObjects
  <2>5. EndsStay(t)
    BY <1>0, <2>3, <2>4 DEF EndsStay, Empty, Full
  <2> QED  BY <2>2, <2>5 DEF DozesOn
<1>3. ASSUME NEW p \in Items, Adds(p) PROVE DozesOn(t)
  <2> DEFINE e == HeadToAlert(queue)
  <2>1. e \in {None, head, tail} /\ (Empty => e = head)
    BY <1>0 DEF HeadToAlert, Wired, Empty
  <2>2. /\ Dozes(t) /\ inside'[t] = inside[t]
        /\ e # None => t \notin Elems(o_link[e])
    <3>1. AlertEnd(e) /\ CallDone
      BY <1>3 DEF Adds
    <3> HIDE DEF e
    <3> QED  BY <2>1, <3>1, AlertEndDozes
  <2>3. ~Full /\ UNCHANGED q_max
    BY <1>0, <1>3, RoomOrFull DEF Adds, Q!Add
  <2>4. t \in Elems(o_link[head]) => ~Empty
    BY <2>1, <2>2, EndsAreObjects
  <2>5. EndsStay(t)
    BY <1>0, <2>3, <2>4 DEF EndsStay, Full
  <2> QED  BY <2>2, <2>5 DEF DozesOn
<1>4. ASSUME NEW p \in Items, AddsFirst(p) PROVE DozesOn(t)
  <2>1. AlertEnd(None) /\ CallDone /\ ~InUse(head) /\ ~Full
    BY <1>0, <1>4, RoomOrFull DEF AddsFirst, Alone, AlertEnd, Undisturbed, Q!AddFirst
  <2>2. Dozes(t) /\ inside'[t] = inside[t]
    BY <2>1, AlertEndDozes
  <2>3. ~UsesHead(t)
    BY <2>1 DEF InUse, UsesHead
  <2> QED  BY <1>0, <2>1, <2>2, <2>3 DEF DozesOn, EndsStay, Full
<1>5. CASE Counts
  <2>1. /\ AlertEnd(None) /\ CallDone /\ Full /\ "putback_full" \in QApi
        /\ q_count'[queue] = q_count[queue] + 1 /\ UNCHANGED q_max
    BY <1>0, <1>5, RoomOrFull DEF Counts, Alone, AlertEnd, Q!CountOnly
  <2>2. Dozes(t) /\ inside'[t] = inside[t]
    BY <2>1, AlertEndDozes
  <2> QED  BY <1>0, <2>1, <2>2 DEF DozesOn, EndsStay, Full, Empty
<1>6. CASE SleepsOnHead \/ \E p \in Items : SleepsOnTail(p)
  BY <1>6, SleepOnDozes DEF SleepsOnHead, SleepsOnTail
<1>7. CASE DoesNothing
  <2>1. /\ UNCHANGED <<s_state, phase, thistask, call, o_link, q_count, q_max>>
        /\ Going /\ t # thistask
    BY <1>7 DEF DoesNothing, schedVars, oqueueVars, Dozing, Going
  <2>2. inside'[t] = inside[t]
    BY <1>7, <2>1 DEF DoesNothing, Leave, QueueInv
  <2>3. Dozes(t)
    BY <2>1, QuietDozes
  <2> QED  BY <2>1, <2>2, <2>3 DEF DozesOn, EndsStay, Empty, Full
<1> QED  BY <1>1, <1>2, <1>3, <1>4, <1>5, <1>6, <1>7 DEF QueueCall

\* Whoever calls falls asleep: in a get() or put() that finds nothing to do, in
\* a loop of wait() or waitvec(), or just so.
FallsAsleep(t) ==
  /\ t = thistask /\ phase = "user"
  /\ \/ SleepsOnHead /\ call'[t].loop = "none"
     \/ (\E p \in Items : SleepsOnTail(p)) /\ call'[t].loop = "none"
     \/ /\ inside'[t] = Outside
        /\ \A o \in call'[t].on :
             call'[t].loop # "none" => t \in Elems(o_link'[o]) /\ QPending(o)'

LEMMA LoopDozes ==
  ASSUME QueueInv, QLoopSleeps, NEW t \in Tasks, Dozing(t)'
  PROVE  DozesOn(t) \/ FallsAsleep(t)
<1> USE DEF Scheds
<1>0. /\ TypeOK /\ thistask \in Tasks /\ s_state \in [Scheds -> States]
      /\ call \in [Tasks -> Calls] /\ o_link \in [Objects -> Seq(Tasks)]
  BY DEF QueueInv, TypeOK
<1>1. ~ \E e : Fail(e)
  BY DEF Fail, Dozing, Going
<1>2. /\ phase = "user" /\ call' = call /\ RemovedIfRunning(thistask)
      /\ \A o \in On : QPending(o) /\ Pending(o)
      /\ o_link' = [o \in Objects |->
                      IF o \in On /\ s_state[thistask] # "TERMINATED"
                      THEN Remembering(o_link[o], thistask) ELSE o_link[o]]
      /\ inside[thistask] = Outside /\ UNCHANGED <<oqueueVars, inside>>
  BY <1>1 DEF QLoopSleeps, LoopSleeps, InLoop, Free
<1>3. \A o \in Objects : \A u \in Elems(o_link[o]) : u \in Elems(o_link'[o])
  BY <1>0, <1>2, RememberingElems
<1>4. /\ \A s \in Scheds : s # thistask => s_state'[s] = s_state[s]
      /\ \A s \in Scheds : s_state'[s] = "TERMINATED" => s_state[s] = "TERMINATED"
      /\ s_state'[thistask] = "IDLE" => s_state[thistask] # "TERMINATED"
  BY <1>0, <1>2, RemovedStates
<1>5. CASE t # thistask
  <2>1. Dozes(t)
    BY <1>2, <1>3, <1>4, <1>5, QuietDozes DEF Going
  <2> QED  BY <1>2, <2>1 DEF DozesOn, EndsStay, Empty, Full, oqueueVars
<1>6. CASE t = thistask
  <2>1. ASSUME NEW o \in call'[t].on
        PROVE  t \in Elems(o_link'[o]) /\ QPending(o)'
    <3>1. o \in Objects /\ o \in On /\ s_state[thistask] # "TERMINATED"
      BY <1>0, <1>2, <1>4, <1>6, <2>1 DEF Calls, On, Dozing
    <3>2. o_link'[o] = Remembering(o_link[o], thistask)
      BY <1>2, <3>1
    <3>3. t \in Elems(o_link'[o])
      BY <1>0, <1>6, <3>1, <3>2, RememberingElems
    <3>4. QPending(o) /\ Pending(o)
      BY <1>2, <3>1
    <3>5. Pending(o)'
      BY <1>4, <3>4 DEF Pending
    <3>6. QPending(o)'
      BY <1>2, <3>4, <3>5 DEF QPending, Q!HeadPending, Q!TailPending, oqueueVars
    <3> QED  BY <3>3, <3>6
  <2> QED  BY <1>2, <1>6, <2>1 DEF FallsAsleep
<1> QED  BY <1>5, <1>6

LEMMA StepDozes ==
  ASSUME LeavesWaiters, QueueInv, [QNext]_vars, "busy" \notin QApi, NEW t \in Tasks, Dozing(t)'
  PROVE  DozesOn(t) \/ FallsAsleep(t)
<1>0. /\ TypeOK /\ Wired /\ thistask \in Tasks
  BY DEF QueueInv, TypeOK
<1>1. ASSUME UNCHANGED <<oqueueVars, inside>>, Dozes(t) PROVE DozesOn(t)
  BY <1>1 DEF DozesOn, EndsStay, Empty, Full, oqueueVars
<1>2. CASE Transfers \/ Resumed
  <2>1. QueueCall /\ phase = "user" /\ call[thistask].loop = "none"
    BY <1>2, QueueCalls
  <2>2. (SleepsOnHead \/ \E p \in Items : SleepsOnTail(p)) => call' = call
    BY DEF SleepsOnHead, SleepsOnTail, SleepOn
  <2> QED  BY <2>1, <2>2, QueueCallDozes DEF FallsAsleep
<1>3. CASE Free /\ Sched(UserCall)
  <2>1. UserCall /\ UNCHANGED <<oqueueVars, inside>> /\ inside[thistask] = Outside
    BY <1>3 DEF Sched, Free
  <2>2. CASE t # thistask
    BY <1>0, <1>1, <2>1, <2>2, UserCallDozes DEF LeavesWaiters
  <2>3. CASE t = thistask
    BY <2>1, <2>3, UserCallEnters, UserCallPhase DEF Dozing, FallsAsleep
  <2> QED  BY <2>2, <2>3
<1>4. CASE QWaitReturns \/ QWaitVecReturns
  <2>1. /\ phase = "user" /\ Return /\ UNCHANGED <<oqueueVars, inside>>
        /\ \A o \in Objects : o_link'[o] \in {o_link[o], Without(o_link[o], thistask)}
    BY <1>4 DEF QWaitReturns, QWaitVecReturns, InLoop
  <2> QED  BY <1>0, <1>1, <2>1, ReturnsDozes
<1>5. CASE QLoopSleeps
  BY <1>5, LoopDozes
<1>6. CASE Sched(Schedule)
  BY <1>0, <1>1, <1>6, ScheduleDozes DEF Sched
<1>7. CASE Sched(Stopped) \/ UNCHANGED vars
  <2>1. UNCHANGED <<schedVars, oqueueVars, inside>>
    BY <1>7 DEF Sched, Stopped, vars
  <2>2. Dozes(t)
    BY <2>1 DEF schedVars, Dozes, Dozing, Going, Pending
  <2> QED  BY <1>1, <2>1, <2>2
<1> QED  BY <1>2, <1>3, <1>4, <1>5, <1>6, <1>7 DEF QNext

(***************************************************************************)
(* The inductive forms of the two properties.                              *)
(***************************************************************************)
InsideHeard ==
  \A t \in Tasks : Dozing(t) /\ inside[t] # Outside =>
    /\ t \in Elems(o_link[inside[t].end])
    /\ inside[t].op = "get" => Empty
    /\ inside[t].op = "put" => Full

LEMMA InsideStaysHeard ==
  ASSUME LeavesWaiters, QueueInv, InsideHeard, [QNext]_vars, "busy" \notin QApi
  PROVE  InsideHeard'
<1> SUFFICES ASSUME NEW t \in Tasks, Dozing(t)', inside'[t] # Outside
             PROVE  /\ t \in Elems(o_link'[inside'[t].end])
                    /\ inside'[t].op = "get" => Empty'
                    /\ inside'[t].op = "put" => Full'
  BY DEF InsideHeard
<1>0. /\ InsideQueue(t) /\ o_link \in [Objects -> Seq(Tasks)] /\ q_count[queue] \in Nat
      /\ q_max[queue] \in Nat
  BY RoomOrFull DEF QueueInv, TypeOK
<1>1. CASE DozesOn(t)
  <2>1. Dozes(t) /\ inside'[t] = inside[t] /\ EndsStay(t) /\ Dozing(t)
    BY <1>1 DEF DozesOn, Dozes
  <2>2. /\ t \in Elems(o_link[inside[t].end])
        /\ inside[t].op = "get" => Empty
        /\ inside[t].op = "put" => Full
    BY <2>1 DEF InsideHeard
  <2>3. /\ inside[t].op = "get" => inside[t].end = head
        /\ inside[t].op = "put" => inside[t].end = tail
        /\ inside[t].op \in {"get", "put"}
    BY <1>0, <2>1 DEF InsideQueue
  <2>4. t \in Elems(o_link'[inside[t].end])
    BY <2>1, <2>2, <2>3, EndsAreObjects DEF Dozes
  <2>5. inside[t].op = "get" => Empty'
    BY <2>1, <2>2, <2>3 DEF EndsStay, UsesHead
  <2>6. inside[t].op = "put" => Full'
    BY <2>1, <2>2, <2>3 DEF EndsStay
  <2> QED  BY <2>1, <2>4, <2>5, <2>6
<1>2. CASE t = thistask /\ phase = "user" /\ SleepsOnHead
  <2>1. t \in Elems(o_link'[head]) /\ inside'[t] = [op |-> "get", end |-> head, q |-> queue]
    BY <1>2, SleepOnDozes DEF SleepsOnHead
  <2>2. Empty'
    BY <1>2 DEF SleepsOnHead, SleepOn, Empty, oqueueVars
  <2> QED  BY <2>1, <2>2
<1>3. ASSUME t = thistask, phase = "user", NEW p \in Items, SleepsOnTail(p)
      PROVE  /\ t \in Elems(o_link'[inside'[t].end])
             /\ inside'[t].op = "get" => Empty'
             /\ inside'[t].op = "put" => Full'
  <2>1. t \in Elems(o_link'[tail]) /\ inside'[t] = [op |-> "put", end |-> tail, item |-> p]
    BY <1>3, SleepOnDozes DEF SleepsOnTail
  <2>2. Full'
    BY <1>3 DEF SleepsOnTail, SleepOn, Full, oqueueVars
  <2> QED  BY <2>1, <2>2
<1> QED  BY <1>1, <1>2, <1>3, StepDozes DEF FallsAsleep

(* A task asleep in get() finds nothing, one asleep in put() no room, and  *)
(* the end it sleeps on will tell it otherwise, in a program where nobody  *)
(* puts back or cuts an end in use (qhead.c, qtail.c).                     *)
THEOREM NobodyOversleeps ==
  ASSUME LeavesWaiters, "busy" \notin QApi
  PROVE  QSpec => []NobodySleepsBesideWork
<1>1. QInit => InsideHeard
  BY DEF QInit, InsideHeard
<1>2. QueueInv /\ InsideHeard /\ [QNext]_vars => InsideHeard'
  BY InsideStaysHeard
<1>3. QueueInv /\ InsideHeard => NobodySleepsBesideWork
  <2> SUFFICES ASSUME QueueInv, InsideHeard, NEW t \in Tasks, Asleep(t), inside[t] # Outside
               PROVE  /\ t \in Elems(o_link[inside[t].end])
                      /\ inside[t].op = "get" => Q!HeadPending(inside[t].end)
                      /\ inside[t].op = "put" => ~Q!HasRoom(qt_queue[inside[t].end])
    BY DEF NobodySleepsBesideWork
  <2>1. Dozing(t)
    BY DEF Asleep, Dozing, Going, QueueInv
  <2>2. InsideQueue(t) /\ Wired
    BY DEF QueueInv
  <2>3. inside[t].op = "get" => Q!HeadPending(inside[t].end)
    BY <2>1, <2>2 DEF InsideHeard, InsideQueue, Wired, Empty, Q!HeadPending
  <2>4. inside[t].op = "put" => ~Q!HasRoom(qt_queue[inside[t].end])
    BY <2>1, <2>2, RoomOrFull DEF InsideHeard, InsideQueue, Wired
  <2> QED  BY <2>1, <2>3, <2>4 DEF InsideHeard
<1> QED  BY <1>1, <1>2, <1>3, QueueInvariant, PTL DEF QSpec

LoopHeard ==
  \A t \in Tasks : Dozing(t) /\ call[t].loop # "none" =>
    \A o \in call[t].on : t \in Elems(o_link[o]) /\ QPending(o)

LEMMA LoopStaysHeard ==
  ASSUME LeavesWaiters, QueueInv, LoopHeard, [QNext]_vars,
         QApi \cap {"busy", "putback_full"} = {}, Heads = {head}, Tails = {tail}
  PROVE  LoopHeard'
<1> SUFFICES ASSUME NEW t \in Tasks, Dozing(t)', call'[t].loop # "none", NEW o \in call'[t].on
             PROVE  t \in Elems(o_link'[o]) /\ QPending(o)'
  BY DEF LoopHeard
<1>0. /\ QueueInv' /\ call \in [Tasks -> Calls] /\ head # tail
      /\ q_count[queue] \in Nat /\ q_max[queue] \in Nat /\ q_count'[queue] \in Nat
      /\ q_max'[queue] \in Nat
  <2>1. QueueInv'
    BY QueueNextKeeps
  <2>2. q_count'[queue] \in Nat /\ q_max'[queue] \in Nat
    BY <2>1, QueueEndsAssumption DEF QueueInv, Wired
  <2> QED  BY <2>1, <2>2, RoomOrFull, EndsAreObjects DEF QueueInv, TypeOK
<1>1. CASE DozesOn(t)
  <2>1. Dozes(t) /\ EndsStay(t) /\ Dozing(t) /\ call'[t] = call[t]
    BY <1>1 DEF DozesOn, Dozes
  <2>2. o \in Objects /\ t \in Elems(o_link[o]) /\ QPending(o)
    BY <1>0, <2>1 DEF LoopHeard, Calls
  <2>3. t \in Elems(o_link'[o]) /\ (Pending(o) => Pending(o)')
    BY <2>1, <2>2 DEF Dozes
  <2>4. CASE o = head
    <3>1. Empty
      BY <1>0, <2>2, <2>4 DEF QPending, Q!HeadPending, QueueInv, Wired, Empty
    <3>2. Empty'
      BY <2>1, <2>2, <2>4, <3>1 DEF EndsStay, UsesHead
    <3>3. QPending(o)'
      BY <1>0, <2>4, <3>2 DEF QPending, Q!HeadPending, QueueInv, Wired, Empty
    <3> QED  BY <2>3, <3>3
  <2>5. CASE o = tail
    <3>1. q_max[queue] - q_count[queue] = 0
      BY <1>0, <2>2, <2>5 DEF QPending, Q!TailPending, QueueInv, Wired
    <3>2. q_count'[queue] = q_max'[queue]
      BY <1>0, <2>1, <2>2, <2>5, <3>1 DEF EndsStay
    <3>3. q_max'[queue] - q_count'[queue] = 0
      BY <1>0, <3>2
    <3>4. QPending(o)'
      BY <1>0, <2>5, <3>3 DEF QPending, Q!TailPending, QueueInv, Wired
    <3> QED  BY <2>3, <3>4
  <2>6. CASE o # head /\ o # tail
    BY <2>2, <2>3, <2>6 DEF QPending
  <2> QED  BY <2>4, <2>5, <2>6
<1>2. CASE FallsAsleep(t)
  BY <1>2 DEF FallsAsleep
<1> QED  BY <1>1, <1>2, StepDozes

(* The same of a task in wait() or waitvec(), of the ends of a queue and   *)
(* of all else: it sleeps only while all of it is pending, and all of it   *)
(* knows the task (task.c, qhead.c, qtail.c).                              *)
THEOREM ReadyEndsAreNoticed ==
  ASSUME LeavesWaiters, QApi \cap {"busy", "putback_full"} = {}, Heads = {head}, Tails = {tail}
  PROVE  QSpec => []NobodyWaitsForReadyEnds
<1>1. QInit => LoopHeard
  BY DEF QInit, Init, NotInCall, LoopHeard
<1>2. QueueInv /\ LoopHeard /\ [QNext]_vars => LoopHeard'
  BY LoopStaysHeard
<1>3. QueueInv /\ LoopHeard => NobodyWaitsForReadyEnds
  BY DEF NobodyWaitsForReadyEnds, LoopHeard, Asleep, Dozing, Going, QueueInv
<1> QED  BY <1>1, <1>2, <1>3, QueueInvariant, PTL DEF QSpec

(***************************************************************************)
(* The filter, of any program that waits (WMODE), puts no object that is   *)
(* still queued, and cuts an end only when nobody is inside a call of it.  *)
(*                                                                         *)
(* The lemmas of OQueueProofs say which lines of objects the rings hold    *)
(* after each call.  The invariant adds where the filter stands: which     *)
(* queue each end leads to at each point of its program (Plumbed), and     *)
(* that a call which sleeps has loaded the queue its end still has         *)
(* (Underway), which an end that is cut while in use would break.          *)
(***************************************************************************)
QP == INSTANCE OQueueProofs WITH Api <- QApi

LEMMA QueuesAssumed ==
  /\ None \notin Queues \cup Heads \cup Tails \cup Items
  /\ Queues \cap (Heads \cup Tails) = {}
  /\ Heads \cap Tails = {}
  /\ QP!IsFiniteSet(Items)
  /\ Maxes \subseteq Nat \ {0}
  /\ MaxCount \in Nat
<1>1. Plain \subseteq Objects
  BY DEF Objects
<1>2. QP!IsFiniteSet(Items)
  BY QueueEndsAssumption DEF QP!IsFiniteSet, IsFiniteSet
<1> QED  BY QueueEndsAssumption, IdentitiesAssumption, <1>1, <1>2

LEMMA RolesDiffer ==
  /\ Main \in Tasks /\ consumer \in Tasks /\ filter \in Tasks
  /\ Main # consumer /\ Main # filter /\ consumer # filter
<1> DEFINE Two(u, v) == {u} \cup {v}
<1>1. \A u, v : IsFiniteSet(Two(u, v)) /\ Cardinality(Two(u, v)) < 3
  <2> SUFFICES ASSUME NEW u, NEW v PROVE IsFiniteSet(Two(u, v)) /\ Cardinality(Two(u, v)) < 3
    OBVIOUS
  <2>1. IsFiniteSet({u}) /\ Cardinality({u}) = 1
    BY FS_Singleton
  <2> QED  BY <2>1, FS_AddElement
<1>2. Cardinality({Main, consumer, filter}) = 3
  BY RolesAssumption
<1>3. ~ Cardinality({Main, consumer, filter}) < 3
  BY <1>2
<1> HIDE DEF Two
<1>4. Main = consumer => {Main, consumer, filter} = Two(Main, filter)
  BY DEF Two
<1>5. Main = filter => {Main, consumer, filter} = Two(Main, consumer)
  BY DEF Two
<1>6. consumer = filter => {Main, consumer, filter} = Two(Main, consumer)
  BY DEF Two
<1> QED  BY <1>1, <1>3, <1>4, <1>5, <1>6, RolesAssumption, IdentitiesAssumption

CarefulFilter ==
  /\ Modes \subseteq {"WMODE"}
  /\ QApi \cap {"busy", "requeue"} = {}

\* The queue that the consumer gets from and the one the producer puts to.
Down == qh_queue[head]
Up   == qt_queue[tail]

\* What is on its way when the queues hold the lines of content.
Line(content) ==
  IF Down = Up THEN content[Down] ELSE content[Down] \o hand \o content[Up]

Flow(content) == QP!Hold(content) /\ sent = received \o Line(content)

Data == QP!TypeOK /\ QP!EndsMatch /\ QP!EmptyWhenFree

(* Where the filter is, and the ends it has made.                          *)
Plumbed ==
  /\ head \in heap /\ tail \in heap
  /\ point \in {"outside", "removed"} => Down = Up /\ from = None /\ to = None
  /\ point \in {"cut", "inserted"} => Down # Up
  /\ from # None => from \in Heads /\ from \in heap /\ from # head /\ qh_queue[from] = Up
  /\ to # None => to \in Tails /\ to \in heap /\ to # tail /\ qt_queue[to] = Down
  /\ point = "inserted" => from # None /\ to # None
  /\ point = "cut" => (from = None <=> to # None)
  /\ point \in {"outside", "cut", "inserted", "removed"}

Carried ==
  /\ sent \in Seq(Items) /\ received \in Seq(Items)
  /\ hand = <<>> \/ \E p \in Items : hand = <<p>>
  /\ point # "inserted" => hand = <<>>

(* A call that sleeps works on the queue that its end still has.           *)
Underway(t) ==
  /\ inside[t].op = "get" =>
       /\ "get" \in QApi
       /\ \/ t = consumer /\ inside[t].end = head /\ inside[t].q = Down
          \/ /\ t = filter /\ point = "inserted" /\ hand = <<>>
             /\ inside[t].end = from /\ inside[t].q = Up
  /\ inside[t].op = "put" =>
       /\ "put" \in QApi /\ inside[t].item \in Items
       /\ \/ t = Main /\ inside[t].end = tail
          \/ /\ t = filter /\ point = "inserted" /\ hand = <<inside[t].item>>
             /\ inside[t].end = to

Waiting ==
  /\ \A e \in Heads \cup Tails : mode[e] = "WMODE"
  /\ DOMAIN mode = Heads \cup Tails

FilterInv ==
  /\ Data /\ Plumbed /\ Carried /\ Waiting
  /\ DOMAIN inside = Tasks /\ \A t \in Tasks : Underway(t)
  /\ \E content : Flow(content)

----------------------------------------------------------------------------
(* Lines.                                                                  *)
LEMMA LinesAreSequences ==
  ASSUME NEW content, QP!Hold(content), NEW q \in Queues
  PROVE  content[q] \in Seq(Items) /\ content[q] \in QP!Lines
         /\ content \in [Queues -> QP!Lines] /\ QP!AreRings(content)
<1>1. content \in [Queues -> QP!Lines] /\ QP!AreRings(content)
  BY DEF QP!Hold
<1>2. content[q] \in QP!Lines
  BY <1>1
<1> QED  BY <1>1, <1>2, QP!LineElim, QueuesAssumed

LEMMA ConcatThree ==
  \A s, t, u \in Seq(Items) :
     (s \o t) \o u = s \o (t \o u) /\ s \o t \in Seq(Items) /\ t \o u \in Seq(Items)
BY SMTT(30)

LEMMA FirstOff ==
  \A r, c, u \in Seq(Items) : c # <<>> =>
    /\ Append(r, Head(c)) \o Tail(c) = r \o c
    /\ Append(r, Head(c)) \o (Tail(c) \o u) = r \o (c \o u)
<1>1. \A r, c \in Seq(Items) : c # <<>> => Append(r, Head(c)) \o Tail(c) = r \o c
  BY SMTT(30)
<1>2. \A r, c, u \in Seq(Items) :
         c # <<>> => Append(r, Head(c)) \o (Tail(c) \o u) = r \o (c \o u)
  BY SMTT(60)
<1> QED  BY <1>1, <1>2

LEMMA LastOn ==
  \A r, c \in Seq(Items), p \in Items : Append(r \o c, p) = r \o Append(c, p)
BY SMTT(30)

LEMMA HandedOver ==
  /\ \A d, u \in Seq(Items) : u # <<>> => d \o <<Head(u)>> \o Tail(u) = d \o <<>> \o u
  /\ \A d, u \in Seq(Items), p \in Items : Append(d, p) \o <<>> \o u = d \o <<p>> \o u
  /\ \A d, u \in Seq(Items) :
        d \o <<>> \o u = d \o u /\ <<>> \o <<>> \o u = u /\ d \o <<>> \o <<>> = d
BY SMTT(30)

----------------------------------------------------------------------------
(* What get() and put() do, with the end that the queue they work on has.  *)
LEMMA DataStays ==
  ASSUME Data, UNCHANGED oqueueVars
  PROVE  Data'
BY DEF Data, oqueueVars, QP!TypeOK, QP!EndsMatch, QP!EmptyWhenFree, QP!IsHead, QP!IsTail, QP!IsQueue

LEMMA DataNext ==
  ASSUME Data, QP!Next
  PROVE  Data'
<1>1. QP!RefusingNext
  BY DEF QP!RefusingNext
<1>2. QP!TypeOK /\ QP!EndsMatch /\ QP!EmptyWhenFree
  BY DEF Data
<1>3. QP!TypeOK'
  BY <1>1, <1>2, QP!StepType, QueuesAssumed
<1>4. QP!EndsMatch'
  BY <1>1, <1>2, QP!StepEnds, QueuesAssumed
<1>5. QP!EmptyWhenFree'
  BY <1>2, QP!StepEmpty, QueuesAssumed
<1> QED  BY <1>3, <1>4, <1>5 DEF Data

LEMMA HoldStays ==
  ASSUME NEW content, QP!Hold(content), UNCHANGED oqueueVars
  PROVE  QP!Hold(content)'
BY QP!KeepRings, QueuesAssumed DEF oqueueVars

LEMMA LiveQueues ==
  ASSUME Data
  PROVE  /\ \A h \in Heads : h \in heap =>
              qh_queue[h] \in Queues /\ qh_queue[h] \in heap /\ q_head[qh_queue[h]] = h
         /\ \A t \in Tails : t \in heap =>
              qt_queue[t] \in Queues /\ qt_queue[t] \in heap /\ q_tail[qt_queue[t]] = t
BY QP!LiveEnds, QueuesAssumed DEF Data, QP!IsHead, QP!IsTail, QP!IsQueue

LEMMA TakeHolds ==
  ASSUME QP!TypeOK, NEW content, QP!Hold(content), NEW q \in Queues, QP!Take(q)
  PROVE  content[q] # <<>> /\ QP!Hold([content EXCEPT ![q] = Tail(content[q])])'
<1>1. content \in [Queues -> QP!Lines] /\ QP!AreRings(content)
  BY DEF QP!Hold
<1> QED  BY <1>1, QP!TakeRings, QueuesAssumed

LEMMA AddHolds ==
  ASSUME QP!TypeOK, NEW content, QP!Hold(content), NEW q \in Queues, NEW p \in Items,
         QP!Add(q, p)
  PROVE  QP!Hold([content EXCEPT ![q] = Append(content[q], p)])'
<1>1. content \in [Queues -> QP!Lines] /\ QP!AreRings(content)
  BY DEF QP!Hold
<1> QED  BY <1>1, QP!AddRings, QueuesAssumed

Still == UNCHANGED <<mode, thistask, qh_queue, qt_queue, q_head, q_tail, heap>>

\* The call returns with an object, or sleeps, or is refused.
Taken(content, q) ==
  /\ Leave /\ content[q] # <<>> /\ Q!First(q) = Head(content[q])
  /\ \E new : /\ new = [content EXCEPT ![q] = Tail(content[q])]
             /\ QP!Hold(new)'

Entered(content, q, p) ==
  /\ Leave
  /\ \E new : /\ new = [content EXCEPT ![q] = Append(content[q], p)]
             /\ QP!Hold(new)'

Sleeps(content, locals) ==
  /\ inside' = [inside EXCEPT ![thistask] = locals]
  /\ QP!Hold(content)'

Refused(content, p) == o_next[p] # None /\ UNCHANGED inside /\ QP!Hold(content)'

LEMMA GetMoves ==
  ASSUME Data, NEW content, QP!Hold(content), "get" \in QApi,
         NEW h \in Heads, h \in heap, mode[h] = "WMODE",
         NEW q, q = qh_queue[h], GetFrom(h, q)
  PROVE  /\ Data' /\ Still
         /\ Taken(content, q) \/ Sleeps(content, [op |-> "get", end |-> h, q |-> q])
<1>1. q \in Queues /\ q \in heap /\ QP!TypeOK /\ QP!IsHead(h)
  BY LiveQueues DEF Data, QP!IsHead
<1>2. content[q] \in QP!Lines /\ content \in [Queues -> QP!Lines] /\ QP!AreRings(content)
      /\ content[q] \in Seq(Items)
  BY <1>1, LinesAreSequences
<1>3. q_count[q] # 0 => Len(content[q]) > 0 /\ QP!First(q) = content[q][1]
  <2>1. QP!IsRing(q, content[q])
    BY <1>1, <1>2 DEF QP!AreRings
  <2> QED  BY <1>1, <1>2, <2>1, QP!RingFirst, QueuesAssumed
<1>4. Q!First(q) = QP!First(q)
  BY DEF Q!First, QP!First
<1>5. q_count[q] # 0 => content[q][1] \in Items /\ content[q][1] # None
  <2>1. content[q] # <<>> => content[q][1] \in Items
    BY <1>2, LenProperties, EmptySeq
  <2> QED  BY <1>2, <1>3, <2>1, EmptySeq, QueuesAssumed
<1>6. CASE Q!Take(q) /\ AlertEnd(TailToAlert(q)) /\ CallDone
  <2>1. QP!Take(q)
    BY <1>6 DEF Q!Take, QP!Take, Q!First, QP!First, Q!NotEmpty, QP!NotEmpty
  <2>2. QP!Next
    BY <1>1, <2>1 DEF QP!Next, QP!Transfer, QP!Get, QP!Calling
  <2>3. Data'
    BY <2>2, DataNext
  <2>4. content[q] # <<>> /\ QP!Hold([content EXCEPT ![q] = Tail(content[q])])'
    BY <1>1, <2>1, TakeHolds
  <2>5. q_count[q] # 0
    BY <2>1 DEF QP!Take, QP!NotEmpty
  <2>6. Q!First(q) = Head(content[q])
    BY <1>2, <1>3, <1>4, <2>4, <2>5
  <2>7. Still
    BY <1>6 DEF Still, CallDone, Q!Take
  <2> QED  BY <1>6, <2>3, <2>4, <2>6, <2>7 DEF CallDone, Taken
<1>7. CASE q_count[q] = 0 /\ SleepOn(h, [op |-> "get", end |-> h, q |-> q])
  <2>1. UNCHANGED oqueueVars /\ Still
    BY <1>7 DEF SleepOn, Still, oqueueVars
  <2>2. Data' /\ QP!Hold(content)'
    BY <2>1, DataStays, HoldStays
  <2> QED  BY <1>7, <2>1, <2>2 DEF SleepOn, Sleeps
<1>8. ~ (q_count[q] # 0 /\ Q!First(q) = None)
  BY <1>3, <1>4, <1>5
<1> QED  BY <1>6, <1>7, <1>8 DEF GetFrom

LEMMA PutMoves ==
  ASSUME Data, NEW content, QP!Hold(content), "put" \in QApi,
         NEW t \in Tails, t \in heap, mode[t] = "WMODE",
         NEW p \in Items, NEW q, q = qt_queue[t], PutTo(t, q, p)
  PROVE  /\ Data' /\ Still
         /\ \/ Entered(content, q, p)
            \/ Sleeps(content, [op |-> "put", end |-> t, item |-> p])
            \/ Refused(content, p)
<1>1. q \in Queues /\ q \in heap /\ QP!TypeOK /\ QP!IsTail(t)
  BY LiveQueues DEF Data, QP!IsTail
<1>2. content[q] \in QP!Lines /\ content \in [Queues -> QP!Lines] /\ QP!AreRings(content)
      /\ content[q] \in Seq(Items)
  BY <1>1, LinesAreSequences
<1>3. CASE o_next[p] # None /\ QueueFails("E_PUTOBJ")
  <2>1. UNCHANGED oqueueVars /\ Still /\ UNCHANGED inside
    BY <1>3 DEF QueueFails, Fail, Still, oqueueVars
  <2>2. Data' /\ QP!Hold(content)'
    BY <2>1, DataStays, HoldStays
  <2> QED  BY <1>3, <2>1, <2>2 DEF Refused
<1>4. CASE Q!Add(q, p) /\ AlertEnd(HeadToAlert(q)) /\ CallDone
  <2>1. QP!Add(q, p)
    BY <1>4 DEF Q!Add, QP!Add, Q!First, QP!First, Q!HasRoom, QP!HasRoom, Q!Linked,
                QP!Linked, Q!NewLast, QP!NewLast
  <2>2. QP!Next
    BY <1>1, <2>1 DEF QP!Next, QP!Transfer, QP!Put, QP!Calling
  <2>3. Data'
    BY <2>2, DataNext
  <2>4. QP!Hold([content EXCEPT ![q] = Append(content[q], p)])'
    BY <1>1, <2>1, AddHolds
  <2>5. Still
    BY <1>4 DEF Still, CallDone, Q!Add
  <2> QED  BY <1>4, <2>3, <2>4, <2>5 DEF CallDone, Entered
<1>5. CASE SleepOn(t, [op |-> "put", end |-> t, item |-> p])
  <2>1. UNCHANGED oqueueVars /\ Still
    BY <1>5 DEF SleepOn, Still, oqueueVars
  <2>2. Data' /\ QP!Hold(content)'
    BY <2>1, DataStays, HoldStays
  <2> QED  BY <1>5, <2>1, <2>2 DEF SleepOn, Sleeps
<1> QED  BY <1>3, <1>4, <1>5 DEF PutTo
----------------------------------------------------------------------------
(* What the step of a call leaves as it is.                                *)
LEMMA RestStays ==
  ASSUME Plumbed, Waiting, DOMAIN inside = Tasks, \A t \in Tasks : Underway(t),
         Still, UNCHANGED <<point, from, to>>, thistask \in Tasks,
         UNCHANGED hand \/ thistask = filter,
         NEW v, inside' = [inside EXCEPT ![thistask] = v]
  PROVE  /\ Plumbed' /\ Waiting' /\ DOMAIN inside' = Tasks
         /\ Down' = Down /\ Up' = Up /\ inside'[thistask] = v
         /\ Free' <=> v = Outside
         /\ v = Outside \/ Underway(thistask)' => \A t \in Tasks : Underway(t)'
<1>1. Down' = Down /\ Up' = Up
  BY DEF Still, Down, Up
<1>2. Plumbed' /\ Waiting'
  BY <1>1 DEF Still, Plumbed, Waiting
<1>3. /\ DOMAIN inside' = Tasks /\ inside'[thistask] = v /\ thistask' = thistask
      /\ \A t \in Tasks : t # thistask => inside'[t] = inside[t]
  BY DEF Still
<1>4. Free' <=> v = Outside
  BY <1>3 DEF Free, Outside
<1>5. \A t \in Tasks : t # thistask => Underway(t)'
  BY <1>1, <1>3, RolesDiffer DEF Underway
<1>6. v = Outside => Underway(thistask)'
  BY <1>3 DEF Underway, Outside
<1> QED  BY <1>1, <1>2, <1>3, <1>4, <1>5, <1>6

LEMMA LinesOf ==
  ASSUME Data, Plumbed, Carried, NEW content, QP!Hold(content)
  PROVE  /\ Down \in Queues /\ Up \in Queues /\ head \in Heads /\ tail \in Tails
         /\ Down \in heap /\ Up \in heap
         /\ DOMAIN content = Queues
         /\ content[Down] \in Seq(Items) /\ content[Up] \in Seq(Items)
         /\ hand \in Seq(Items)
         /\ content[Down] \o hand \o content[Up]
              = content[Down] \o (hand \o content[Up])
         /\ hand \o content[Up] \in Seq(Items)
         /\ Line(content) \in Seq(Items)
<1>1. Down \in Queues /\ Up \in Queues /\ head \in Heads /\ tail \in Tails
      /\ Down \in heap /\ Up \in heap
  BY QueueEndsAssumption, LiveQueues DEF Plumbed, Down, Up
<1>2. content[Down] \in Seq(Items) /\ content[Up] \in Seq(Items)
  BY <1>1, LinesAreSequences
<1>3. hand \in Seq(Items)
  <2>1. CASE hand = <<>>
    BY <2>1, EmptySeq
  <2>2. CASE \E p \in Items : hand = <<p>>
    BY <2>2
  <2> QED  BY <2>1, <2>2 DEF Carried
<1>4. content[Down] \o hand \o content[Up] = content[Down] \o (hand \o content[Up])
  <2> DEFINE d == content[Down]  u == content[Up]
  <2>1. d \in Seq(Items) /\ u \in Seq(Items)
    BY <1>2
  <2> HIDE DEF d, u
  <2>2. (d \o hand) \o u = d \o (hand \o u)
    BY <1>3, <2>1, ConcatThree
  <2> QED  BY <2>2 DEF d, u
<1>5. hand \o content[Up] \in Seq(Items)
  BY <1>2, <1>3, ConcatThree
<1>6. Line(content) \in Seq(Items)
  <2>1. content[Down] \o (hand \o content[Up]) \in Seq(Items)
    BY <1>2, <1>5, ConcatThree
  <2>2. Line(content) \in {content[Down], content[Down] \o (hand \o content[Up])}
    BY <1>4, Zenon DEF Line
  <2> QED  BY <1>2, <2>1, <2>2
<1>7. DOMAIN content = Queues
  BY DEF QP!Hold
<1> QED  BY <1>1, <1>2, <1>3, <1>4, <1>5, <1>6, <1>7

LEMMA StillAll ==
  ASSUME Plumbed, Waiting, DOMAIN inside = Tasks, \A t \in Tasks : Underway(t), Carried,
         UNCHANGED <<mode, qh_queue, qt_queue, heap, inside>>,
         UNCHANGED <<point, from, to, hand, received, sent>>,
         NEW content
  PROVE  /\ Plumbed' /\ Waiting' /\ DOMAIN inside' = Tasks /\ Carried'
         /\ \A t \in Tasks : Underway(t)'
         /\ Line(content)' = Line(content)
<1>1. Down' = Down /\ Up' = Up
  BY DEF Down, Up
<1>2. Plumbed' /\ Waiting' /\ Carried'
  BY <1>1 DEF Plumbed, Waiting, Carried
<1>3. \A t \in Tasks : Underway(t)'
  BY <1>1 DEF Underway
<1>4. Line(content)' = Line(content)
  BY <1>1 DEF Line
<1> QED  BY <1>2, <1>3, <1>4

LEMMA ConsumeFlows ==
  ASSUME FilterInv, Consume
  PROVE  FilterInv'
<1>0. Data /\ Plumbed /\ Carried /\ Waiting /\ DOMAIN inside = Tasks /\ thistask = consumer
      /\ \A t \in Tasks : Underway(t)
  BY DEF FilterInv, Consume, Runs
<1>1. PICK content : QP!Hold(content) /\ sent = received \o Line(content)
  BY DEF FilterInv, Flow
<1> DEFINE c == content[Down]
<1>2. /\ Down \in Queues /\ Up \in Queues /\ head \in Heads /\ head \in heap
      /\ c \in Seq(Items) /\ content[Up] \in Seq(Items) /\ hand \o content[Up] \in Seq(Items)
      /\ c \o hand \o content[Up] = c \o (hand \o content[Up]) /\ hand \in Seq(Items)
      /\ DOMAIN content = Queues
  BY <1>0, <1>1, LinesOf DEF Plumbed
<1>3. PICK q : q = Down /\ q = qh_queue[head]
  BY DEF Down
<1>4. "get" \in QApi /\ GetFrom(head, q) /\ Loaded(head) = q
  <2>1. CASE Free
    BY <2>1, <1>3 DEF Consume, Get, QCalling, Loaded, Down
  <2>2. CASE ~Free
    <3>1. GetAgain /\ inside[consumer].op = "get"
      BY <2>2, <1>0 DEF Consume, GetAgain, InCall
    <3>2. "get" \in QApi /\ inside[consumer].end = head /\ inside[consumer].q = Down
      BY <3>1, <1>0, RolesDiffer DEF Underway
    <3>3. Q!IsQueue(Down)
      BY <1>0, <1>1, LinesOf DEF Q!IsQueue
    <3>4. GetFrom(head, q)
      BY <3>1, <3>2, <3>3, <1>0, <1>3 DEF GetAgain
    <3> QED  BY <2>2, <3>2, <3>4, <1>0, <1>3 DEF Loaded
  <2> QED  BY <2>1, <2>2
<1>5. mode[head] = "WMODE"
  BY <1>0, <1>2 DEF Waiting
<1>6. /\ Data' /\ Still
      /\ Taken(content, q) \/ Sleeps(content, [op |-> "get", end |-> head, q |-> q])
  BY <1>0, <1>1, <1>2, <1>3, <1>4, <1>5, GetMoves
<1>7. UNCHANGED <<point, from, to, hand, sent>> /\ thistask \in Tasks
  BY <1>0, RolesDiffer DEF Consume
<1>8. received' = IF Free' THEN Append(received, Q!First(q)) ELSE received
  BY <1>4 DEF Consume
<1>9. CASE Taken(content, q)
  <2>0. PICK new : new = [content EXCEPT ![q] = Tail(content[q])] /\ QP!Hold(new)'
    BY <1>9 DEF Taken
  <2>1. /\ Plumbed' /\ Waiting' /\ DOMAIN inside' = Tasks /\ Free'
        /\ Down' = Down /\ Up' = Up /\ \A t \in Tasks : Underway(t)'
    BY <1>0, <1>6, <1>7, <1>9, RestStays DEF Leave, Taken
  <2>2. received' = Append(received, Head(c)) /\ c # <<>> /\ Head(c) \in Items
        /\ received \in Seq(Items)
    BY <1>2, <1>3, <1>8, <1>9, <2>1, HeadTailProperties, <1>0 DEF Carried, Taken
  <2>3. Carried'
    <3>1. received' \in Seq(Items)
      BY <2>2, AppendProperties
    <3> QED  BY <3>1, <1>0, <1>7 DEF Carried
  <2>4. new[Down] = Tail(c) /\ (Up # Down => new[Up] = content[Up])
    BY <1>2, <1>3, <2>0
  <2>6. sent' = received' \o Line(new)'
    <3>1. /\ received' \o Tail(c) = received \o c
          /\ received' \o (Tail(c) \o (hand \o content[Up])) = received \o (c \o (hand \o content[Up]))
      <4> DEFINE d == hand \o content[Up]
      <4>1. /\ c \in Seq(Items) /\ d \in Seq(Items) /\ c # <<>> /\ received \in Seq(Items)
            /\ received' = Append(received, Head(c))
        BY <1>2, <2>2
      <4> HIDE DEF c, d
      <4>2. received' \o Tail(c) = received \o c /\ received' \o (Tail(c) \o d) = received \o (c \o d)
        BY <4>1, FirstOff
      <4> QED  BY <4>2 DEF d
    <3>2. CASE Down = Up
      BY <1>1, <1>7, <2>1, <2>4, <3>1, <3>2 DEF Line
    <3>3. CASE Down # Up
      <4>1. Tail(c) \in Seq(Items)
        BY <1>2, <2>2, HeadTailProperties
      <4>2. Tail(c) \o hand \o content[Up] = Tail(c) \o (hand \o content[Up])
        BY <4>1, <1>2, ConcatThree
      <4>3. Line(new)' = Tail(c) \o hand \o content[Up]
        BY <1>7, <2>1, <2>4, <3>3 DEF Line
      <4>4. Line(content) = c \o (hand \o content[Up])
        BY <1>2, <3>3 DEF Line
      <4>5. received' \o Line(new)' = received' \o (Tail(c) \o (hand \o content[Up]))
        BY <4>2, <4>3
      <4>6. received \o Line(content) = received \o (c \o (hand \o content[Up]))
        BY <4>4
      <4> HIDE DEF c
      <4> QED  BY <1>1, <1>7, <3>1, <4>5, <4>6, Zenon
    <3> QED  BY <3>2, <3>3
  <2>7. \E k : Flow(k)'
    BY <2>0, <2>6 DEF Flow
  <2> QED  BY <1>6, <2>1, <2>3, <2>7 DEF FilterInv
<1>10. CASE Sleeps(content, [op |-> "get", end |-> head, q |-> q])
  <2>1. [op |-> "get", end |-> head, q |-> q] # Outside
    BY DEF Outside
  <2>2. /\ Plumbed' /\ Waiting' /\ DOMAIN inside' = Tasks /\ ~Free'
        /\ Down' = Down /\ Up' = Up
        /\ inside'[thistask] = [op |-> "get", end |-> head, q |-> q]
        /\ Underway(thistask)' => \A t \in Tasks : Underway(t)'
    BY <1>0, <1>6, <1>7, <1>10, <2>1, RestStays DEF Sleeps
  <2>3. Underway(thistask)'
    <3>1. /\ thistask' = thistask /\ thistask = consumer /\ "get" \in QApi
          /\ inside'[thistask'] = [op |-> "get", end |-> head, q |-> Down']
      BY <1>0, <1>3, <1>4, <1>6, <2>2 DEF Still
    <3> HIDE DEF Down
    <3> QED  BY <3>1 DEF Underway
  <2>4. Carried' /\ received' = received
    BY <1>0, <1>7, <1>8, <2>2 DEF Carried
  <2>5. Line(content)' = Line(content)
    BY <1>7, <2>2 DEF Line
  <2>6. \E k : Flow(k)'
    BY <1>1, <1>7, <1>10, <2>4, <2>5 DEF Flow, Sleeps
  <2> QED  BY <1>6, <2>2, <2>3, <2>4, <2>6 DEF FilterInv
<1> QED  BY <1>6, <1>9, <1>10
LEMMA ProduceFlows ==
  ASSUME FilterInv, CarefulFilter, Produce
  PROVE  FilterInv'
<1>0. Data /\ Plumbed /\ Carried /\ Waiting /\ DOMAIN inside = Tasks /\ thistask = Main
      /\ \A t \in Tasks : Underway(t)
  BY DEF FilterInv, Produce, Runs
<1>1. PICK content : QP!Hold(content) /\ sent = received \o Line(content)
  BY DEF FilterInv, Flow
<1>2. /\ Down \in Queues /\ Up \in Queues /\ tail \in Tails /\ tail \in heap
      /\ content[Down] \in Seq(Items) /\ content[Up] \in Seq(Items) /\ hand \in Seq(Items)
      /\ Line(content) \in Seq(Items) /\ DOMAIN content = Queues
  BY <1>0, <1>1, LinesOf DEF Plumbed
<1>3. PICK q : q = Up /\ q = qt_queue[tail]
  BY DEF Up
<1>4. PICK p \in Items : /\ IF Free THEN Put(tail, p) ELSE inside[Main].item = p /\ PutAgain
                         /\ sent' = IF Free' THEN Append(sent, p) ELSE sent
  BY DEF Produce
<1>5. "put" \in QApi /\ PutTo(tail, q, p) /\ (Free => o_next[p] = None)
  <2>1. CASE Free
    BY <2>1, <1>3, <1>4 DEF Put, QCalling, MayBePut, CarefulFilter
  <2>2. CASE ~Free
    <3>1. PutAgain /\ inside[Main].op = "put" /\ inside[Main].item = p
      BY <2>2, <1>0, <1>4 DEF PutAgain, InCall
    <3>2. "put" \in QApi /\ inside[Main].end = tail
      BY <3>1, <1>0, RolesDiffer DEF Underway
    <3>3. PutTo(tail, q, p)
      BY <3>1, <3>2, <1>0, <1>3 DEF PutAgain
    <3> QED  BY <2>2, <3>2, <3>3
  <2> QED  BY <2>1, <2>2
<1>6. mode[tail] = "WMODE"
  BY <1>0, <1>2 DEF Waiting
<1>7. /\ Data' /\ Still
      /\ \/ Entered(content, q, p)
         \/ Sleeps(content, [op |-> "put", end |-> tail, item |-> p])
         \/ Refused(content, p)
  BY <1>0, <1>1, <1>2, <1>3, <1>5, <1>6, PutMoves
<1>8. UNCHANGED <<point, from, to, hand, received>> /\ thistask \in Tasks
  BY <1>0, RolesDiffer DEF Produce
<1>9. CASE Entered(content, q, p)
  <2>0. PICK new : new = [content EXCEPT ![q] = Append(content[q], p)] /\ QP!Hold(new)'
    BY <1>9 DEF Entered
  <2>1. /\ Plumbed' /\ Waiting' /\ DOMAIN inside' = Tasks /\ Free'
        /\ Down' = Down /\ Up' = Up /\ \A t \in Tasks : Underway(t)'
    BY <1>0, <1>7, <1>8, <1>9, RestStays DEF Leave, Entered
  <2>2. sent' = Append(sent, p)
    BY <1>4, <2>1
  <2>3. Carried'
    <3>1. sent' \in Seq(Items)
      BY <2>2, <1>0, AppendProperties DEF Carried
    <3> QED  BY <3>1, <1>0, <1>8 DEF Carried
  <2>4. new[Up] = Append(content[Up], p) /\ (Up # Down => new[Down] = content[Down])
    BY <1>2, <1>3, <2>0
  <2>5. Line(new)' = Append(Line(content), p)
    <3>1. CASE Down = Up
      BY <3>1, <2>1, <2>4 DEF Line
    <3>2. CASE Down # Up
      <4>1. Line(new)' = content[Down] \o hand \o Append(content[Up], p)
        BY <1>8, <2>1, <2>4, <3>2 DEF Line
      <4>2. content[Down] \o hand \in Seq(Items)
        BY <1>2, ConcatThree
      <4>3. Append((content[Down] \o hand) \o content[Up], p)
              = (content[Down] \o hand) \o Append(content[Up], p)
        BY <1>2, <4>2, LastOn
      <4> QED  BY <3>2, <4>1, <4>3 DEF Line
    <3> QED  BY <3>1, <3>2
  <2>6. sent' = received' \o Line(new)'
    <3> DEFINE l == Line(content)
    <3>1. l \in Seq(Items) /\ received \in Seq(Items) /\ sent = received \o l
          /\ Line(new)' = Append(l, p)
      BY <1>0, <1>1, <1>2, <2>5 DEF Carried
    <3> HIDE DEF l
    <3>2. Append(received \o l, p) = received \o Append(l, p)
      BY <3>1, LastOn
    <3> QED  BY <3>1, <3>2, <2>2, <1>8
  <2>7. \E k : Flow(k)'
    BY <2>0, <2>6 DEF Flow
  <2> QED  BY <1>7, <2>1, <2>3, <2>7 DEF FilterInv
<1>10. CASE Sleeps(content, [op |-> "put", end |-> tail, item |-> p])
  <2>1. [op |-> "put", end |-> tail, item |-> p] # Outside
    BY DEF Outside
  <2>2. /\ Plumbed' /\ Waiting' /\ DOMAIN inside' = Tasks /\ ~Free'
        /\ Down' = Down /\ Up' = Up
        /\ inside'[thistask] = [op |-> "put", end |-> tail, item |-> p]
        /\ Underway(thistask)' => \A t \in Tasks : Underway(t)'
    BY <1>0, <1>7, <1>8, <1>10, <2>1, RestStays DEF Sleeps
  <2>3. Underway(thistask)'
    <3>1. /\ thistask' = thistask /\ thistask = Main /\ "put" \in QApi
          /\ inside'[thistask'] = [op |-> "put", end |-> tail, item |-> p]
      BY <1>0, <1>3, <1>5, <1>7, <2>2 DEF Still
    <3> QED  BY <3>1 DEF Underway
  <2>4. Carried' /\ sent' = sent
    BY <1>0, <1>4, <1>8, <2>2 DEF Carried
  <2>5. Line(content)' = Line(content)
    BY <1>8, <2>2 DEF Line
  <2>6. \E k : Flow(k)'
    BY <1>1, <1>8, <1>10, <2>4, <2>5 DEF Flow, Sleeps
  <2> QED  BY <1>7, <2>2, <2>3, <2>4, <2>6 DEF FilterInv
<1>11. CASE Refused(content, p)
  <2>1. ~Free' /\ UNCHANGED inside
    BY <1>5, <1>7, <1>11 DEF Refused, Free, Still
  <2>2. UNCHANGED <<point, from, to, hand, received, sent>>
    BY <1>4, <1>8, <2>1
  <2>3. /\ Plumbed' /\ Waiting' /\ DOMAIN inside' = Tasks /\ Carried'
        /\ \A t \in Tasks : Underway(t)'
        /\ Line(content)' = Line(content)
    BY <1>0, <1>7, <2>1, <2>2, StillAll DEF Still
  <2>4. \E k : Flow(k)'
    BY <1>1, <1>11, <2>2, <2>3 DEF Flow, Refused
  <2> QED  BY <1>7, <2>3, <2>4 DEF FilterInv
<1> QED  BY <1>7, <1>9, <1>10, <1>11
LEMMA InsertedEnds ==
  ASSUME Data, Plumbed, point = "inserted"
  PROVE  /\ Down # Up /\ from \in Heads /\ from \in heap /\ qh_queue[from] = Up
         /\ to \in Tails /\ to \in heap /\ qt_queue[to] = Down
BY DEF Plumbed

LEMMA PassInFlows ==
  ASSUME FilterInv, PassIn
  PROVE  FilterInv'
<1>0. /\ Data /\ Plumbed /\ Carried /\ Waiting /\ DOMAIN inside = Tasks /\ thistask = filter
      /\ \A t \in Tasks : Underway(t)
      /\ point = "inserted" /\ hand = <<>>
  BY DEF FilterInv, PassIn, Runs
<1>1. PICK content : QP!Hold(content) /\ sent = received \o Line(content)
  BY DEF FilterInv, Flow
<1> DEFINE u == content[Up]
<1>2. /\ Down \in Queues /\ Up \in Queues /\ Up \in heap
      /\ content[Down] \in Seq(Items) /\ u \in Seq(Items)
      /\ DOMAIN content = Queues
      /\ Down # Up /\ from \in Heads /\ from \in heap /\ qh_queue[from] = Up
  BY <1>0, <1>1, LinesOf, InsertedEnds
<1>3. PICK q : q = Up /\ q = qh_queue[from]
  BY <1>2
<1>4. "get" \in QApi /\ GetFrom(from, q) /\ Loaded(from) = q
  <2>1. CASE Free
    BY <2>1, <1>3 DEF PassIn, Get, QCalling, Loaded
  <2>2. CASE ~Free
    <3>1. GetAgain /\ inside[filter].op = "get"
      BY <2>2, <1>0 DEF PassIn, GetAgain, InCall
    <3>2. "get" \in QApi /\ inside[filter].end = from /\ inside[filter].q = Up
      BY <3>1, <1>0, RolesDiffer DEF Underway
    <3>3. Q!IsQueue(Up)
      BY <1>2 DEF Q!IsQueue
    <3>4. GetFrom(from, q)
      BY <3>1, <3>2, <3>3, <1>0, <1>3 DEF GetAgain
    <3> QED  BY <2>2, <3>2, <3>4, <1>0, <1>3 DEF Loaded
  <2> QED  BY <2>1, <2>2
<1>5. mode[from] = "WMODE"
  BY <1>0, <1>2 DEF Waiting
<1>6. /\ Data' /\ Still
      /\ Taken(content, q) \/ Sleeps(content, [op |-> "get", end |-> from, q |-> q])
  BY <1>0, <1>1, <1>2, <1>3, <1>4, <1>5, GetMoves
<1>7. UNCHANGED <<point, from, to, sent, received>> /\ thistask \in Tasks
  BY <1>0, RolesDiffer DEF PassIn
<1>8. hand' = IF Free' THEN <<Q!First(q)>> ELSE hand
  BY <1>4 DEF PassIn
<1>9. CASE Taken(content, q)
  <2>0. PICK new : new = [content EXCEPT ![q] = Tail(content[q])] /\ QP!Hold(new)'
    BY <1>9 DEF Taken
  <2>1. /\ Plumbed' /\ Waiting' /\ DOMAIN inside' = Tasks /\ Free'
        /\ Down' = Down /\ Up' = Up /\ \A t \in Tasks : Underway(t)'
    BY <1>0, <1>6, <1>7, <1>9, RestStays DEF Leave, Taken
  <2>2. hand' = <<Head(u)>> /\ u # <<>> /\ Head(u) \in Items
    BY <1>2, <1>3, <1>8, <1>9, <2>1, HeadTailProperties DEF Taken
  <2>3. Carried'
    BY <1>0, <1>7, <2>2 DEF Carried
  <2>4. new[Up] = Tail(u) /\ new[Down] = content[Down]
    BY <1>2, <1>3, <2>0
  <2>5. Line(new)' = Line(content)
    <3> DEFINE d == content[Down]
    <3>1. /\ Line(new)' = d \o <<Head(u)>> \o Tail(u) /\ Line(content) = d \o <<>> \o u
          /\ d \in Seq(Items) /\ u \in Seq(Items) /\ u # <<>>
      BY <1>0, <1>2, <2>1, <2>2, <2>4 DEF Line
    <3> HIDE DEF d, u
    <3> QED  BY <3>1, HandedOver
  <2>6. \E k : Flow(k)'
    BY <1>1, <1>7, <2>0, <2>5 DEF Flow
  <2> QED  BY <1>6, <2>1, <2>3, <2>6 DEF FilterInv
<1>10. CASE Sleeps(content, [op |-> "get", end |-> from, q |-> q])
  <2>1. [op |-> "get", end |-> from, q |-> q] # Outside
    BY DEF Outside
  <2>2. /\ Plumbed' /\ Waiting' /\ DOMAIN inside' = Tasks /\ ~Free'
        /\ Down' = Down /\ Up' = Up
        /\ inside'[thistask] = [op |-> "get", end |-> from, q |-> q]
        /\ Underway(thistask)' => \A t \in Tasks : Underway(t)'
    BY <1>0, <1>6, <1>7, <1>10, <2>1, RestStays DEF Sleeps
  <2>4. Carried' /\ hand' = hand
    BY <1>0, <1>7, <1>8, <2>2 DEF Carried
  <2>3. Underway(thistask)'
    <3>1. /\ thistask' = thistask /\ thistask = filter /\ "get" \in QApi
          /\ inside'[thistask'] = [op |-> "get", end |-> from', q |-> Up']
          /\ point' = "inserted" /\ hand' = <<>>
      BY <1>0, <1>3, <1>4, <1>6, <1>7, <2>2, <2>4 DEF Still
    <3> QED  BY <3>1 DEF Underway
  <2>5. Line(content)' = Line(content)
    BY <2>2, <2>4 DEF Line
  <2>6. \E k : Flow(k)'
    BY <1>1, <1>7, <1>10, <2>5 DEF Flow, Sleeps
  <2> QED  BY <1>6, <2>2, <2>3, <2>4, <2>6 DEF FilterInv
<1> QED  BY <1>6, <1>9, <1>10

LEMMA PassOnFlows ==
  ASSUME FilterInv, CarefulFilter, PassOn
  PROVE  FilterInv'
<1>0. /\ Data /\ Plumbed /\ Carried /\ Waiting /\ DOMAIN inside = Tasks /\ thistask = filter
      /\ \A t \in Tasks : Underway(t)
      /\ point = "inserted" /\ hand # <<>>
  BY DEF FilterInv, PassOn, Runs
<1>1. PICK content : QP!Hold(content) /\ sent = received \o Line(content)
  BY DEF FilterInv, Flow
<1> DEFINE d == content[Down]
<1>2. /\ Down \in Queues /\ Up \in Queues
      /\ d \in Seq(Items) /\ content[Up] \in Seq(Items)
      /\ DOMAIN content = Queues
      /\ Down # Up /\ to \in Tails /\ to \in heap /\ qt_queue[to] = Down
  BY <1>0, <1>1, LinesOf, InsertedEnds
<1>3. PICK q : q = Down /\ q = qt_queue[to]
  BY <1>2
<1>4. PICK p \in Items : hand = <<p>> /\ Head(hand) = p
  BY <1>0 DEF Carried
<1>5. "put" \in QApi /\ PutTo(to, q, p) /\ (Free => o_next[p] = None)
  <2>1. CASE Free
    BY <2>1, <1>3, <1>4 DEF PassOn, Put, QCalling, MayBePut, CarefulFilter
  <2>2. CASE ~Free
    <3>1. PutAgain /\ inside[filter].op = "put"
      BY <2>2, <1>0 DEF PassOn, PutAgain, InCall
    <3>2. "put" \in QApi /\ inside[filter].end = to /\ hand = <<inside[filter].item>>
      BY <3>1, <1>0, RolesDiffer DEF Underway
    <3>3. inside[filter].item = p
      BY <3>2, <1>4
    <3>4. PutTo(to, q, p)
      BY <3>1, <3>2, <3>3, <1>0, <1>3 DEF PutAgain
    <3> QED  BY <2>2, <3>2, <3>4
  <2> QED  BY <2>1, <2>2
<1>6. mode[to] = "WMODE"
  BY <1>0, <1>2 DEF Waiting
<1>7. /\ Data' /\ Still
      /\ \/ Entered(content, q, p)
         \/ Sleeps(content, [op |-> "put", end |-> to, item |-> p])
         \/ Refused(content, p)
  BY <1>0, <1>1, <1>2, <1>3, <1>5, <1>6, PutMoves
<1>8. /\ UNCHANGED <<point, from, to, received, sent>> /\ thistask \in Tasks
      /\ hand' = IF Free' THEN <<>> ELSE hand
  BY <1>0, RolesDiffer DEF PassOn
<1>9. CASE Entered(content, q, p)
  <2>0. PICK new : new = [content EXCEPT ![q] = Append(content[q], p)] /\ QP!Hold(new)'
    BY <1>9 DEF Entered
  <2>1. /\ Plumbed' /\ Waiting' /\ DOMAIN inside' = Tasks /\ Free'
        /\ Down' = Down /\ Up' = Up /\ \A t \in Tasks : Underway(t)'
    BY <1>0, <1>7, <1>8, <1>9, RestStays DEF Leave, Entered
  <2>2. Carried' /\ hand' = <<>>
    BY <1>0, <1>8, <2>1 DEF Carried
  <2>4. new[Down] = Append(d, p) /\ new[Up] = content[Up]
    BY <1>2, <1>3, <2>0
  <2>5. Line(new)' = Line(content)
    <3> DEFINE u == content[Up]
    <3>1. /\ Line(new)' = Append(d, p) \o <<>> \o u /\ Line(content) = d \o <<p>> \o u
          /\ d \in Seq(Items) /\ u \in Seq(Items)
      BY <1>2, <1>4, <2>1, <2>2, <2>4 DEF Line
    <3> HIDE DEF d, u
    <3> QED  BY <3>1, HandedOver
  <2>6. \E k : Flow(k)'
    BY <1>1, <1>8, <2>0, <2>5 DEF Flow
  <2> QED  BY <1>7, <2>1, <2>2, <2>6 DEF FilterInv
<1>10. CASE Sleeps(content, [op |-> "put", end |-> to, item |-> p])
  <2>1. [op |-> "put", end |-> to, item |-> p] # Outside
    BY DEF Outside
  <2>2. /\ Plumbed' /\ Waiting' /\ DOMAIN inside' = Tasks /\ ~Free'
        /\ Down' = Down /\ Up' = Up
        /\ inside'[thistask] = [op |-> "put", end |-> to, item |-> p]
        /\ Underway(thistask)' => \A t \in Tasks : Underway(t)'
    BY <1>0, <1>7, <1>8, <1>10, <2>1, RestStays DEF Sleeps
  <2>4. Carried' /\ hand' = hand
    BY <1>0, <1>8, <2>2 DEF Carried
  <2>3. Underway(thistask)'
    <3>1. /\ thistask' = thistask /\ thistask = filter /\ "put" \in QApi
          /\ inside'[thistask'] = [op |-> "put", end |-> to', item |-> p]
          /\ point' = "inserted" /\ hand' = <<p>>
      BY <1>0, <1>4, <1>5, <1>7, <1>8, <2>2, <2>4 DEF Still
    <3> QED  BY <3>1 DEF Underway
  <2>5. Line(content)' = Line(content)
    BY <2>2, <2>4 DEF Line
  <2>6. \E k : Flow(k)'
    BY <1>1, <1>8, <1>10, <2>5 DEF Flow, Sleeps
  <2> QED  BY <1>7, <2>2, <2>3, <2>4, <2>6 DEF FilterInv
<1>11. CASE Refused(content, p)
  <2>1. ~Free' /\ UNCHANGED inside
    BY <1>5, <1>7, <1>11 DEF Refused, Free, Still
  <2>2. UNCHANGED <<point, from, to, hand, received, sent>>
    BY <1>8, <2>1
  <2>3. /\ Plumbed' /\ Waiting' /\ DOMAIN inside' = Tasks /\ Carried'
        /\ \A t \in Tasks : Underway(t)'
        /\ Line(content)' = Line(content)
    BY <1>0, <1>7, <2>1, <2>2, StillAll DEF Still
  <2>4. \E k : Flow(k)'
    BY <1>1, <1>11, <2>2, <2>3 DEF Flow, Refused
  <2> QED  BY <1>7, <2>3, <2>4 DEF FilterInv
<1> QED  BY <1>7, <1>9, <1>10, <1>11
----------------------------------------------------------------------------
(* cut(), tail(), head() and splice().                                     *)
LEMMA NobodyInside ==
  ASSUME NEW e, ~InUse(e), NEW t \in Tasks
  PROVE  /\ inside[t].op = "get" => inside[t].end # e
         /\ inside[t].op = "put" => inside[t].end # e
BY DEF InUse, Outside

\* The new queue that an end gets is empty.
LEMMA NewQueueHolds ==
  ASSUME Data, NEW content, QP!Hold(content), NEW r \in Queues, r \notin heap,
         q_count' = [q_count EXCEPT ![r] = 0], UNCHANGED <<q_ptr, o_next>>
  PROVE  QP!Hold(content)' /\ content[r] = <<>>
<1>1. QP!TypeOK /\ QP!EmptyWhenFree /\ r \in QP!Fresh(Queues)
  BY DEF Data, QP!Fresh
<1>2. \A q \in Queues : q_count'[q] = q_count[q]
  BY <1>1, QP!FreshCount, QueuesAssumed
<1>3. QP!Hold(content)'
  BY <1>2, QP!KeepRings, QueuesAssumed
<1>4. QP!IsRing(r, content[r])
  BY LinesAreSequences DEF QP!AreRings
<1>5. content[r] \in Seq(Items) /\ Len(content[r]) = 0
  BY <1>1, <1>4, LinesAreSequences DEF QP!IsRing, QP!EmptyWhenFree
<1> QED  BY <1>3, <1>5, EmptySeq

LEMMA InsertAtHead ==
  ASSUME FilterInv, CarefulFilter, thistask = filter, point = "outside",
         NEW n \in Heads, NEW r \in Queues, CutHead(head, n, r),
         from' = n, to' = to, point' = "cut", UNCHANGED <<hand, sent, received>>
  PROVE  FilterInv'
<1>0. /\ Data /\ Plumbed /\ Carried /\ Waiting /\ DOMAIN inside = Tasks
      /\ \A t \in Tasks : Underway(t)
      /\ Down = Up /\ from = None /\ to = None /\ hand = <<>>
  BY DEF FilterInv, Plumbed, Carried
<1>1. PICK content : QP!Hold(content) /\ sent = received \o Line(content)
  BY DEF FilterInv, Flow
<1>2. /\ Q!CutHead(head, n, r) /\ ~InUse(head)
      /\ mode' = [mode EXCEPT ![n] = mode[head]] /\ UNCHANGED inside
  BY DEF CutHead, Quietly, Undisturbed, CarefulFilter
<1>3. QP!Next
  <2>1. QP!CutHead(head, n, r)
    BY <1>2 DEF Q!CutHead, QP!CutHead, Q!Calling, QP!Calling, Q!IsHead, QP!IsHead, Q!Fresh,
                QP!Fresh, Q!HeadsExchanged, QP!HeadsExchanged
  <2> QED  BY <2>1, QueueEndsAssumption DEF QP!Next, QP!Surgery
<1>4. Data'
  BY <1>0, <1>3, DataNext
<1>5. /\ n \notin heap /\ r \notin heap /\ heap' = heap \cup {n, r}
      /\ qh_queue' = [qh_queue EXCEPT ![n] = Down, ![head] = r] /\ qt_queue' = qt_queue
      /\ q_count' = [q_count EXCEPT ![r] = 0] /\ UNCHANGED <<q_ptr, o_next>>
  BY <1>2 DEF Q!CutHead, Q!Fresh, Down
<1>6. /\ Down \in Queues /\ Down \in heap /\ head \in Heads /\ tail \in Tails
      /\ head \in heap /\ tail \in heap /\ DOMAIN qh_queue = Heads
      /\ content[Down] \in Seq(Items)
  BY <1>0, <1>1, LinesOf DEF Plumbed, Data, QP!TypeOK
<1>7. QP!Hold(content)' /\ content[r] = <<>>
  BY <1>0, <1>1, <1>5, NewQueueHolds
<1>8. /\ n # head /\ Down' = r /\ Up' = Up /\ r # Up /\ qh_queue'[n] = Up'
  BY <1>0, <1>5, <1>6 DEF Down, Up
<1>9. Plumbed'
  BY <1>0, <1>5, <1>6, <1>8, QueuesAssumed DEF Plumbed
<1>10. Waiting' /\ Carried'
  BY <1>0, <1>2, <1>6 DEF Waiting, Carried
<1>11. \A t \in Tasks : Underway(t)'
  BY <1>0, <1>2, <1>8, NobodyInside DEF Underway
<1>12. sent' = received' \o Line(content)'
  <2>1. Line(content)' = <<>> \o <<>> \o content[Down]
    BY <1>0, <1>7, <1>8 DEF Line
  <2>2. Line(content)' = content[Down]
    BY <2>1, <1>6, HandedOver
  <2> QED  BY <1>0, <1>1, <2>2 DEF Line
<1>13. \E k : Flow(k)'
  BY <1>7, <1>12 DEF Flow
<1> QED  BY <1>0, <1>2, <1>4, <1>9, <1>10, <1>11, <1>13 DEF FilterInv

LEMMA InsertAtTail ==
  ASSUME FilterInv, CarefulFilter, thistask = filter, point = "outside",
         NEW n \in Tails, NEW r \in Queues, CutTail(tail, n, r),
         to' = n, from' = from, point' = "cut", UNCHANGED <<hand, sent, received>>
  PROVE  FilterInv'
<1>0. /\ Data /\ Plumbed /\ Carried /\ Waiting /\ DOMAIN inside = Tasks
      /\ \A t \in Tasks : Underway(t)
      /\ Down = Up /\ from = None /\ to = None /\ hand = <<>>
  BY DEF FilterInv, Plumbed, Carried
<1>1. PICK content : QP!Hold(content) /\ sent = received \o Line(content)
  BY DEF FilterInv, Flow
<1>2. /\ Q!CutTail(tail, n, r)
      /\ mode' = [mode EXCEPT ![n] = mode[tail]] /\ UNCHANGED inside
  BY DEF CutTail, Quietly
<1>3. QP!Next
  <2>1. QP!CutTail(tail, n, r)
    BY <1>2 DEF Q!CutTail, QP!CutTail, Q!Calling, QP!Calling, Q!IsTail, QP!IsTail, Q!Fresh,
                QP!Fresh
  <2> QED  BY <2>1, QueueEndsAssumption DEF QP!Next, QP!Surgery
<1>4. Data'
  BY <1>0, <1>3, DataNext
<1>5. /\ n \notin heap /\ r \notin heap /\ heap' = heap \cup {n, r}
      /\ qt_queue' = [qt_queue EXCEPT ![n] = Up, ![tail] = r] /\ qh_queue' = qh_queue
      /\ q_count' = [q_count EXCEPT ![r] = 0] /\ UNCHANGED <<q_ptr, o_next>>
  BY <1>2 DEF Q!CutTail, Q!Fresh, Up
<1>6. /\ Down \in Queues /\ Down \in heap /\ head \in Heads /\ tail \in Tails
      /\ head \in heap /\ tail \in heap /\ DOMAIN qt_queue = Tails
      /\ content[Down] \in Seq(Items)
  BY <1>0, <1>1, LinesOf DEF Plumbed, Data, QP!TypeOK
<1>7. QP!Hold(content)' /\ content[r] = <<>>
  BY <1>0, <1>1, <1>5, NewQueueHolds
<1>8. /\ n # tail /\ Up' = r /\ Down' = Down /\ r # Down /\ qt_queue'[n] = Down'
  BY <1>0, <1>5, <1>6 DEF Down, Up
<1>9. Plumbed'
  BY <1>0, <1>5, <1>6, <1>8, QueuesAssumed DEF Plumbed
<1>10. Waiting' /\ Carried'
  BY <1>0, <1>2, <1>6 DEF Waiting, Carried
<1>11. \A t \in Tasks : Underway(t)'
  BY <1>0, <1>2, <1>8 DEF Underway
<1>12. sent' = received' \o Line(content)'
  <2>1. Line(content)' = content[Down] \o <<>> \o <<>>
    BY <1>0, <1>7, <1>8 DEF Line
  <2>2. Line(content)' = content[Down]
    BY <2>1, <1>6, HandedOver
  <2> QED  BY <1>0, <1>1, <2>2 DEF Line
<1>13. \E k : Flow(k)'
  BY <1>7, <1>12 DEF Flow
<1> QED  BY <1>0, <1>2, <1>4, <1>9, <1>10, <1>11, <1>13 DEF FilterInv

LEMMA InsertFlows ==
  ASSUME FilterInv, CarefulFilter, Insert
  PROVE  FilterInv'
BY InsertAtHead, InsertAtTail DEF Insert, Runs

LEMMA ConnectFlows ==
  ASSUME FilterInv, Connect
  PROVE  FilterInv'
<1>0. /\ Data /\ Plumbed /\ Carried /\ Waiting /\ DOMAIN inside = Tasks
      /\ \A t \in Tasks : Underway(t)
      /\ point = "cut" /\ point' = "inserted" /\ UNCHANGED <<hand, sent, received>>
      /\ hand = <<>> /\ Down # Up /\ (from = None <=> to # None)
  BY DEF FilterInv, Plumbed, Carried, Connect
<1>1. PICK content : QP!Hold(content) /\ sent = received \o Line(content)
  BY DEF FilterInv, Flow
<1>2. /\ Down \in Queues /\ Up \in Queues /\ head \in Heads /\ tail \in Tails
      /\ head \in heap /\ tail \in heap /\ DOMAIN qt_queue = Tails /\ DOMAIN qh_queue = Heads
  BY <1>0, <1>1, LinesOf DEF Plumbed, Data, QP!TypeOK
<1>3. ASSUME Down' = Down, Up' = Up, UNCHANGED <<q_count, q_ptr, o_next, inside>>
      PROVE  (\E k : Flow(k)') /\ \A t \in Tasks : Underway(t)'
  <2>1. QP!Hold(content)'
    BY <1>1, <1>3, QP!KeepRings, QueuesAssumed
  <2>2. Line(content)' = Line(content)
    BY <1>0, <1>3 DEF Line
  <2>3. \E k : Flow(k)'
    BY <1>0, <1>1, <2>1, <2>2 DEF Flow
  <2>4. \A t \in Tasks : Underway(t)'
    BY <1>0, <1>3 DEF Underway
  <2> QED  BY <2>3, <2>4
<1>4. CASE to = None /\ (\E t \in Tails : MakeTail(head, t) /\ to' = t) /\ UNCHANGED from
  <2>1. PICK t \in Tails : Q!MakeTail(head, t) /\ to' = t
                           /\ mode' = [mode EXCEPT ![t] = mode[head]] /\ UNCHANGED inside
    BY <1>4 DEF MakeTail, Quietly
  <2>2. QP!Next
    <3>1. QP!MakeTail(head, t)
      BY <2>1 DEF Q!MakeTail, QP!MakeTail, Q!Calling, QP!Calling, Q!IsHead, QP!IsHead, Q!Fresh,
                  QP!Fresh
    <3> QED  BY <3>1, <1>2 DEF QP!Next, QP!Build
  <2>3. Data'
    BY <1>0, <2>2, DataNext
  <2>4. /\ t \notin heap /\ heap' = heap \cup {t} /\ qh_queue' = qh_queue
        /\ qt_queue' = [qt_queue EXCEPT ![t] = Down] /\ UNCHANGED <<q_count, q_ptr, o_next>>
    BY <2>1 DEF Q!MakeTail, Q!Fresh, Down
  <2>5. t # tail /\ Down' = Down /\ Up' = Up /\ qt_queue'[t] = Down'
    BY <1>2, <2>4 DEF Down, Up
  <2>6. Plumbed'
    BY <1>0, <1>2, <1>4, <2>1, <2>4, <2>5, QueuesAssumed DEF Plumbed
  <2>7. Waiting' /\ Carried' /\ DOMAIN inside' = Tasks
    BY <1>0, <1>2, <2>1 DEF Waiting, Carried
  <2> QED  BY <1>3, <2>1, <2>3, <2>4, <2>5, <2>6, <2>7 DEF FilterInv
<1>5. CASE from = None /\ (\E h \in Heads : MakeHead(tail, h) /\ from' = h) /\ UNCHANGED to
  <2>1. PICK h \in Heads : Q!MakeHead(tail, h) /\ from' = h
                           /\ mode' = [mode EXCEPT ![h] = mode[tail]] /\ UNCHANGED inside
    BY <1>5 DEF MakeHead, Quietly
  <2>2. QP!Next
    <3>1. QP!MakeHead(tail, h)
      BY <2>1 DEF Q!MakeHead, QP!MakeHead, Q!Calling, QP!Calling, Q!IsTail, QP!IsTail, Q!Fresh,
                  QP!Fresh
    <3> QED  BY <3>1, <1>2 DEF QP!Next, QP!Build
  <2>3. Data'
    BY <1>0, <2>2, DataNext
  <2>4. /\ h \notin heap /\ heap' = heap \cup {h} /\ qt_queue' = qt_queue
        /\ qh_queue' = [qh_queue EXCEPT ![h] = Up] /\ UNCHANGED <<q_count, q_ptr, o_next>>
    BY <2>1 DEF Q!MakeHead, Q!Fresh, Up
  <2>5. h # head /\ Down' = Down /\ Up' = Up /\ qh_queue'[h] = Up'
    BY <1>2, <2>4 DEF Down, Up
  <2>6. Plumbed'
    BY <1>0, <1>2, <1>5, <2>1, <2>4, <2>5, QueuesAssumed DEF Plumbed
  <2>7. Waiting' /\ Carried' /\ DOMAIN inside' = Tasks
    BY <1>0, <1>2, <2>1 DEF Waiting, Carried
  <2> QED  BY <1>3, <2>1, <2>3, <2>4, <2>5, <2>6, <2>7 DEF FilterInv
<1> QED  BY <1>4, <1>5 DEF Connect
LEMMA TakeOutFlows ==
  ASSUME FilterInv, TakeOut
  PROVE  FilterInv'
<1>0. /\ Data /\ Plumbed /\ Carried /\ Waiting /\ DOMAIN inside = Tasks /\ thistask = filter
      /\ \A t \in Tasks : Underway(t)
      /\ point = "inserted" /\ point' = "removed" /\ from' = None /\ to' = None
      /\ hand = <<>> /\ UNCHANGED <<hand, sent, received>> /\ Free
  BY DEF FilterInv, TakeOut, Runs
<1>1. PICK content : QP!Hold(content) /\ sent = received \o Line(content)
  BY DEF FilterInv, Flow
<1>2. /\ Down \in Queues /\ Up \in Queues /\ head \in Heads /\ tail \in Tails
      /\ head \in heap /\ tail \in heap /\ DOMAIN qt_queue = Tails
      /\ content[Down] \in Seq(Items) /\ content[Up] \in Seq(Items)
      /\ DOMAIN content = Queues
      /\ Down # Up /\ from \in Heads /\ from \in heap /\ qh_queue[from] = Up
      /\ to \in Tails /\ to \in heap /\ qt_queue[to] = Down
      /\ from # head /\ to # tail /\ q_tail[Up] = tail
  <2>1. from # head /\ to # tail /\ head \in heap /\ tail \in heap /\ DOMAIN qt_queue = Tails
    BY <1>0, QueuesAssumed DEF Plumbed, Data, QP!TypeOK
  <2>2. tail \in Tails /\ q_tail[Up] = tail
    BY <2>1, <1>0, <1>1, LinesOf, LiveQueues DEF Up
  <2> QED  BY <1>0, <1>1, <2>1, <2>2, LinesOf, InsertedEnds
<1>3. Q!Splice(from, to) /\ UNCHANGED <<mode, inside, thistask>>
  BY DEF TakeOut, Splice
<1>4. QP!Next
  <2>1. QP!Splice(from, to)
    BY <1>3 DEF Q!Splice, QP!Splice, Q!Calling, QP!Calling, Q!IsHead, QP!IsHead, Q!IsTail,
                QP!IsTail, Q!SplicedRings, QP!SplicedRings, Q!SplicedLast, QP!SplicedLast,
                Q!First, QP!First
  <2> QED  BY <2>1, <1>2 DEF QP!Next, QP!Surgery
<1>5. Data'
  BY <1>0, <1>4, DataNext
<1>6. /\ o_next' = QP!SplicedRings(Up, Down) /\ q_ptr' = QP!SplicedLast(Up, Down)
      /\ q_count' = [q_count EXCEPT ![Down] = @ + q_count[Up], ![Up] = 0]
      /\ qt_queue' = [qt_queue EXCEPT ![tail] = Down]
      /\ heap' = heap \ {from, to, Up} /\ qh_queue' = qh_queue
  BY <1>2, <1>3 DEF Q!Splice, Q!SplicedRings, QP!SplicedRings, Q!SplicedLast,
                    QP!SplicedLast, Q!First, QP!First
<1>7. PICK qh \in Queues, qt \in Queues : qh = Up /\ qt = Down
  BY <1>2
<1>8. PICK new : /\ new = [content EXCEPT ![qt] = content[qt] \o content[qh], ![qh] = <<>>]
                 /\ QP!Hold(new)'
  <2>1. QP!TypeOK /\ content \in [Queues -> QP!Lines] /\ QP!AreRings(content)
    BY <1>0, <1>1 DEF Data, QP!Hold
  <2>2. QP!Hold([content EXCEPT ![qt] = content[qt] \o content[qh], ![qh] = <<>>])'
    BY <1>2, <1>6, <1>7, <2>1, QP!SpliceRings, QueuesAssumed
  <2> QED  BY <2>2
<1>9. Down' = Down /\ Up' = Down
  BY <1>2, <1>6 DEF Down, Up
<1>10. Plumbed'
  BY <1>0, <1>2, <1>6, <1>9, QueuesAssumed DEF Plumbed
<1>11. Waiting' /\ Carried'
  BY <1>0, <1>3 DEF Waiting, Carried
<1>12. \A t \in Tasks : Underway(t)'
  <2>1. inside[filter] = Outside /\ inside' = inside
    BY <1>0, <1>3 DEF Free
  <2>2. inside[filter].op \notin {"get", "put"}
    BY <2>1 DEF Outside
  <2> QED  BY <1>0, <1>9, <2>1, <2>2 DEF Underway
<1>13. sent' = received' \o Line(new)'
  <2>1. new[Down] = content[Down] \o content[Up]
    BY <1>2, <1>7, <1>8
  <2>2. Line(new)' = content[Down] \o content[Up]
    BY <1>9, <2>1 DEF Line
  <2>3. Line(content) = content[Down] \o <<>> \o content[Up]
    BY <1>0, <1>2 DEF Line
  <2>4. Line(content) = content[Down] \o content[Up]
    BY <1>2, <2>3, HandedOver
  <2> QED  BY <1>0, <1>1, <2>2, <2>4
<1>14. \E k : Flow(k)'
  BY <1>8, <1>13 DEF Flow
<1> QED  BY <1>0, <1>3, <1>5, <1>10, <1>11, <1>12, <1>14 DEF FilterInv

----------------------------------------------------------------------------
LEMMA NoTransferFlows ==
  ASSUME FilterInv, UNCHANGED <<oqueueVars, mode, inside>>,
         UNCHANGED <<point, from, to, hand, sent, received>>
  PROVE  FilterInv'
<1>0. /\ Data /\ Plumbed /\ Carried /\ Waiting /\ DOMAIN inside = Tasks
      /\ \A t \in Tasks : Underway(t)
  BY DEF FilterInv
<1>1. PICK content : QP!Hold(content) /\ sent = received \o Line(content)
  BY DEF FilterInv, Flow
<1>2. Data' /\ QP!Hold(content)'
  BY <1>0, <1>1, DataStays, HoldStays
<1>3. /\ Plumbed' /\ Waiting' /\ DOMAIN inside' = Tasks /\ Carried'
      /\ \A t \in Tasks : Underway(t)'
      /\ Line(content)' = Line(content)
  BY <1>0, StillAll DEF oqueueVars
<1>4. \E k : Flow(k)'
  BY <1>1, <1>2, <1>3 DEF Flow
<1> QED  BY <1>2, <1>3, <1>4 DEF FilterInv

LEMMA FilterStarts == CarefulFilter /\ FilterInit => FilterInv
<1> SUFFICES ASSUME CarefulFilter, FilterInit PROVE FilterInv
  OBVIOUS
<1>0. /\ QInit
      /\ point = "outside" /\ from = None /\ to = None /\ hand = <<>>
      /\ sent = <<>> /\ received = <<>>
  BY DEF FilterInit
<1>1. /\ queue \in Queues /\ head \in Heads /\ tail \in Tails
      /\ queue \notin Heads \cup Tails /\ head \notin Tails \cup Queues
      /\ tail \notin Heads \cup Queues
  BY QueueEndsAssumption, QueuesAssumed
<1>2. Data
  <2>1. q_max \in [Queues -> Nat \ {0}]
    BY <1>0, QueueEndsAssumption DEF QInit
  <2>2. QP!TypeOK
    BY <1>0, <1>1, <2>1 DEF QInit, QP!TypeOK
  <2>3. QP!EndsMatch
    BY <1>0, <1>1, QueuesAssumed DEF QInit, QP!EndsMatch, QP!IsHead, QP!IsTail, QP!IsQueue
  <2>4. QP!EmptyWhenFree
    BY <1>0 DEF QInit, QP!EmptyWhenFree
  <2> QED  BY <2>2, <2>3, <2>4 DEF Data
<1>3. PICK content : content = [q \in Queues |-> <<>>]
  OBVIOUS
<1>4. QP!Hold(content)
  <2>1. <<>> \in QP!Lines
    BY QP!EmptyLine, QueuesAssumed
  <2>2. Len(<<>>) = 0 /\ DOMAIN <<>> = {}
    OBVIOUS
  <2>3. content \in [Queues -> QP!Lines] /\ \A q \in Queues : content[q] = <<>>
    BY <1>3, <2>1
  <2>4. \A q \in Queues : QP!IsRing(q, content[q])
    BY <1>0, <2>2, <2>3 DEF QP!IsRing, QInit
  <2> QED  BY <1>0, <2>2, <2>3, <2>4 DEF QP!Hold, QP!AreRings, QInit
<1>5. Down = queue /\ Up = queue
  BY <1>0, <1>1 DEF QInit, Down, Up
<1>6. Plumbed /\ Carried
  BY <1>0, <1>1, <1>5 DEF QInit, Plumbed, Carried
<1>7. Waiting
  BY <1>0 DEF QInit, Waiting, CarefulFilter
<1>8. DOMAIN inside = Tasks /\ \A t \in Tasks : Underway(t)
  BY <1>0 DEF QInit, Underway, Outside
<1>9. Flow(content)
  <2>1. Line(content) = <<>>
    BY <1>1, <1>3, <1>5 DEF Line
  <2> QED  BY <1>0, <1>4, <2>1 DEF Flow
<1> QED  BY <1>2, <1>6, <1>7, <1>8, <1>9 DEF FilterInv

LEMMA FilterSteps ==
  ASSUME FilterInv, CarefulFilter, [FilterNext]_filterVars
  PROVE  FilterInv'
<1>1. CASE Create \/ YieldOnce \/ ProducerEnds \/ FilterEnds \/ TasksGoOn
  <2>1. /\ UNCHANGED <<oqueueVars, mode, inside>>
        /\ UNCHANGED <<point, from, to, hand, sent, received>>
    BY <1>1 DEF Create, YieldOnce, ProducerEnds, FilterEnds, TasksGoOn, Sched, progVars
  <2> QED  BY <2>1, NoTransferFlows
<1>2. CASE UNCHANGED filterVars
  BY <1>2, NoTransferFlows DEF filterVars, vars, progVars
<1> QED
  BY <1>1, <1>2, ProduceFlows, ConsumeFlows, InsertFlows, ConnectFlows, PassInFlows,
     PassOnFlows, TakeOutFlows DEF FilterNext

LEMMA SameRings == \A q \in Queues : Q!Ring(q) = QP!Ring(q)
<1>1. Q!Lines = QP!Lines
  BY DEF Q!Lines, QP!Lines, Q!Cardinality, QP!Cardinality
<1> QED  BY <1>1 DEF Q!Ring, QP!Ring, Q!IsRing, QP!IsRing

LEMMA FlowIsSeen == FilterInv => NothingLostOrOvertaken
<1> SUFFICES ASSUME FilterInv PROVE NothingLostOrOvertaken
  OBVIOUS
<1>1. PICK content : QP!Hold(content) /\ sent = received \o Line(content)
  BY DEF FilterInv, Flow
<1>2. Down \in Queues /\ Up \in Queues
  BY <1>1, LinesOf DEF FilterInv
<1>3. \A q \in Queues : QP!Ring(q) = content[q]
  BY <1>1, QP!RingsAreRead, QueuesAssumed DEF QP!RingsRead
<1>4. InPipe = Line(content)
  BY <1>2, <1>3, SameRings DEF InPipe, Line, Down, Up
<1> QED  BY <1>1, <1>4 DEF NothingLostOrOvertaken

\* What the producer has put is what the consumer has got and, behind it, what
\* is in the queues and in the hand of the filter, in this order, wherever the
\* filter cuts in and however often it passes objects on before its splice()
\* (qhead.c, qtail.c): for any number of tasks, objects, ends and queues, of
\* programs that wait and cut no end in use.
THEOREM FilterGoesUnnoticed ==
  ASSUME CarefulFilter
  PROVE  FilterSpec => []NothingLostOrOvertaken
<1>1. FilterInit => FilterInv
  BY FilterStarts
<1>2. FilterInv /\ [FilterNext]_filterVars => FilterInv'
  BY FilterSteps
<1> QED  BY <1>1, <1>2, FlowIsSeen, PTL DEF FilterSpec
=============================================================================
