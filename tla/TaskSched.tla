----------------------------- MODULE TaskSched -----------------------------
(***************************************************************************)
(* The coroutine scheduler of the C++ task library: class object           *)
(* (obj.c), class sched (sched.c), class timer (timer.c) and the           *)
(* scheduling side of class task (task.c).                                 *)
(*                                                                         *)
(* Tasks are coroutines of one UNIX process.  Only thistask executes user  *)
(* code; it keeps the processor until it calls something that ends in      *)
(* sched::schedule().  Time is simulated: sched::clxck moves only inside   *)
(* schedule(), to the s_time of the next sched on the run chain.           *)
(*                                                                         *)
(* schedule() is cut where a signal handler can see its intermediate       *)
(* states: after the test of priority_sched, and before sig_hold().  Every *)
(* other call is one action.                                               *)
(***************************************************************************)
EXTENDS Integers, Sequences, FiniteSets

CONSTANTS
  Tasks,      \* identities of task objects
  Main,       \* the task that the first task constructor makes of main()
  Timers,     \* identities of timer objects
  Plain,      \* objects that are neither: class object itself
  None,       \* the null pointer
  Delays,     \* the arguments d of delay(d), timer(d) and timer::reset(d)
  Results,    \* the arguments of cancel(val) and resultis(val)
  Lists,      \* the arguments of waitvec(): sets of objects
  MaxClock,   \* bound: no call schedules beyond this time
  MaxKeep,    \* bound on keep_waiting_count
  Api         \* names of the calls the modelled program makes

Scheds  == Tasks \cup Timers
Objects == Scheds \cup Plain

ASSUME IdentitiesAssumption ==
  /\ Main \in Tasks
  /\ IsFiniteSet(Tasks)
  /\ Tasks \cap Timers = {}
  /\ Plain \cap Scheds = {}
  /\ None \notin Objects /\ None \notin Int

ASSUME BoundsAssumption ==
  /\ Delays \subseteq Int
  /\ Results \subseteq Int
  /\ Lists \subseteq SUBSET Objects
  /\ MaxClock \in Nat
  /\ MaxKeep \in Nat

VARIABLES
  thistask,            \* object::thxstxsk, the task that owns the processor
  runchain,            \* sched::runchain, linked through o_next
  priority_sched,      \* sched::priority_sched, sched to run next
  clxck,               \* sched::clxck, the simulated time
  clock_task,          \* sched::clock_task, awoken at each clock tick
  keep_waiting_count,  \* sched::keep_waiting_count
  s_state,             \* s_state of every sched; "UNBORN" before its constructor
  s_time,              \* s_time of every sched
  o_link,              \* the remember chain of every object, newest first
  call,                \* the wait loop each task is inside of
  phase,               \* where the process is
  picked,              \* the local p of schedule()
  error                \* argument of the task_error() that ended the process

schedVars == <<thistask, runchain, priority_sched, clxck, clock_task,
               keep_waiting_count, s_state, s_time, o_link, call, phase,
               picked, error>>

Times    == 0..MaxClock
Phases   == {"user", "schedule", "pausing", "picked", "exited", "error"}
States   == {"UNBORN", "IDLE", "RUNNING", "TERMINATED"}
Errors   == {"none", "E_SETCLOCK", "E_RESULT", "E_WAIT", "E_RESTERM",
             "E_RESRUN", "E_NEGTIME", "E_RESOBJ", "E_TASKPRE", "E_SCHTIME",
             "E_CLOCKIDLE", "RUNCHAIN_CYCLE", "E_GETEMPTY", "E_PUTOBJ",
             "E_PUTFULL", "E_BACKOBJ", "E_BACKFULL", "E_NO_HNDLR", "FAULT"}
NotInCall == [loop |-> "none", on |-> {}]
Calls    == [loop : {"none", "wait", "waitvec"}, on : SUBSET Objects]

----------------------------------------------------------------------------
(* Chains.  A chain is a sequence without repetitions: o_link may hold a   *)
(* task several times, but alert() acts on the first occurrence only and   *)
(* forget() removes all of them, so remember() moves the task to the front.*)

Elems(c) == {c[i] : i \in DOMAIN c}

At(c, x) == CHOOSE i \in DOMAIN c : c[i] = x

Without(c, x) ==
  IF x \in Elems(c)
  THEN [j \in 1..(Len(c) - 1) |-> IF j < At(c, x) THEN c[j] ELSE c[j + 1]]
  ELSE c

Remembering(c, t) == <<t>> \o Without(c, t)

\* The sequence w put into c behind its first k elements.
SpliceAt(c, k, w) ==
  [j \in 1..(Len(c) + Len(w)) |->
     IF j <= k THEN c[j] ELSE IF j <= k + Len(w) THEN w[j - k]
     ELSE c[j - Len(w)]]

\* Bug: the test of insert() written as tt <= p->s_time.
WalkPastLess(c, time, tt) ==
  CHOOSE k \in 0..Len(c) :
    /\ \A i \in 1..k : time[c[i]] < tt
    /\ k < Len(c) => ~(time[c[k + 1]] < tt)

\* Bug: every sched goes to the end of the run chain.
WalkPastAll(c, time, tt) == Len(c)

\* How many elements of c insert() walks past to place a sched of time tt:
\* it stops in front of the first one that is due strictly later.
WalkPast(c, time, tt) ==
  CHOOSE k \in 0..Len(c) :
    /\ \A i \in 1..k : ~(tt < time[c[i]])
    /\ k < Len(c) => tt < time[c[k + 1]]

Born(s) == s_state[s] # "UNBORN"

\* o_next is null off the chain, and also at its end.
HasNext(s) == \E i \in 1..(Len(runchain) - 1) : runchain[i] = s

(* virtual int pending(): overridden by sched; object::pending() says yes. *)
Pending(o) == o \in Scheds => s_state[o] # "TERMINATED"

----------------------------------------------------------------------------
(* object::alert(): every IDLE task on o_link is inserted at once, in chain*)
(* order, and the chain is flushed.  st, time and rc are the states, times *)
(* and run chain that the caller of alert() leaves, now is the clock.      *)

\* Bug: alert() wakes the newest IDLE task only, and still flushes the chain.
NewestIdler(o, st) ==
  {t \in Elems(o_link[o]) :
     /\ st[t] = "IDLE"
     /\ \A u \in Elems(o_link[o]) :
          st[u] = "IDLE" => At(o_link[o], t) <= At(o_link[o], u)}

Idlers(o, st) == {t \in Elems(o_link[o]) : st[t] = "IDLE"}

WakeOrders(o, W) ==
  {w \in [1..Cardinality(W) -> W] :
     /\ \A i, j \in DOMAIN w : i < j => At(o_link[o], w[i]) < At(o_link[o], w[j])
     /\ \A t \in W : \E i \in DOMAIN w : w[i] = t}

Alerted(o, st, time, rc, now) ==
  LET W == Idlers(o, st) IN
  /\ \E w \in WakeOrders(o, W) :
        runchain' = SpliceAt(rc, WalkPast(rc, time, now), w)
  /\ s_state' = [s \in Scheds |-> IF s \in W THEN "RUNNING" ELSE st[s]]
  /\ s_time'  = [s \in Scheds |-> IF s \in W THEN now ELSE time[s]]
  /\ o_link'  = [o_link EXCEPT ![o] = <<>>]

(* task_error() without a user error_fct prints and exits.                 *)
Fail(e) ==
  /\ error' = e
  /\ phase' = "error"
  /\ UNCHANGED <<thistask, runchain, priority_sched, clxck, clock_task,
                 keep_waiting_count, s_state, s_time, o_link, call, picked>>

\* Bug: insert() does not refuse a TERMINATED sched.
InsertTerminated(s, d) ==
  IF s_state[s] = "RUNNING" /\ s # thistask         THEN "E_RESRUN"
  ELSE IF d < 0                                     THEN "E_NEGTIME"
  ELSE IF HasNext(s)                                THEN "E_RESOBJ"
  ELSE IF s \in Elems(runchain)                     THEN "RUNCHAIN_CYCLE"
  ELSE "none"

(* sched::insert(d, who): the tests in the order of the code.  The last    *)
(* outcome is no test of the code: a thistask that is last on the run chain*)
(* has a null o_next, passes every test, and is then linked to itself.     *)
InsertError(s, d) ==
  IF s_state[s] = "TERMINATED"                      THEN "E_RESTERM"
  ELSE IF s_state[s] = "RUNNING" /\ s # thistask    THEN "E_RESRUN"
  ELSE IF d < 0                                     THEN "E_NEGTIME"
  ELSE IF HasNext(s)                                THEN "E_RESOBJ"
  ELSE IF s \in Elems(runchain)                     THEN "RUNCHAIN_CYCLE"
  ELSE "none"

\* The run chain, states and times after a successful insert; rc is the
\* run chain insert() finds.
Inserted(s, d, rc) ==
  /\ runchain' = SpliceAt(rc, WalkPast(rc, s_time, clxck + d), <<s>>)
  /\ s_state'  = [s_state EXCEPT ![s] = "RUNNING"]
  /\ s_time'   = [s_time EXCEPT ![s] = clxck + d]
----------------------------------------------------------------------------
(* Calls made by thistask.                                                 *)

Calling(name) ==
  /\ name \in Api
  /\ phase = "user"
  /\ call[thistask].loop = "none"

\* A call made on a task ends in schedule() only when that task is thistask.
GoesOn(t) == phase' = IF t = thistask THEN "schedule" ELSE "user"

\* task::task(): the parent goes to the run chain and the child starts at
\* once.  sched::sched() leaves the child's s_time at 0.
NewTask(c) ==
  /\ Calling("task")
  /\ ~Born(c)
  /\ LET e == InsertError(thistask, 0) IN
       \/ e # "none" /\ Fail(e)
       \/ /\ e = "none"
          /\ runchain' = SpliceAt(runchain, WalkPast(runchain, s_time, clxck),
                                  <<thistask>>)
          /\ s_state' = [s_state EXCEPT ![thistask] = "RUNNING", ![c] = "RUNNING"]
          /\ s_time' = [s_time EXCEPT ![thistask] = clxck]
          /\ thistask' = c
          /\ UNCHANGED <<priority_sched, clxck, clock_task, keep_waiting_count,
                         o_link, call, phase, picked, error>>

\* timer::timer(d), and timer::reset(d), which begins with remove().
SetTimer(m, d) ==
  /\ Calling(IF Born(m) THEN "reset" ELSE "timer")
  /\ clxck + d <= MaxClock
  /\ \/ d < 0 /\ Fail("E_NEGTIME")
     \/ /\ d >= 0
        /\ Inserted(m, d, Without(runchain, m))
        /\ UNCHANGED <<thistask, priority_sched, clxck, clock_task,
                       keep_waiting_count, o_link, call, phase, picked, error>>

\* task::delay(d)
Delay(t, d) ==
  /\ Calling("delay")
  /\ Born(t)
  /\ clxck + d <= MaxClock
  /\ LET e == InsertError(t, d) IN
       \/ e # "none" /\ Fail(e)
       \/ /\ e = "none"
          /\ Inserted(t, d, runchain)
          /\ GoesOn(t)
          /\ UNCHANGED <<thistask, priority_sched, clxck, clock_task,
                         keep_waiting_count, o_link, call, picked, error>>

\* Bug: remove() makes the sched IDLE but leaves it linked.
IdleOnChain(t) ==
  IF s_state[t] = "RUNNING"
  THEN s_state' = [s_state EXCEPT ![t] = "IDLE"] /\ UNCHANGED runchain
  ELSE UNCHANGED <<runchain, s_state>>

\* sched::remove(), as sleep() and preempt() use it: only on a RUNNING sched.
RemovedIfRunning(t) ==
  IF s_state[t] = "RUNNING"
  THEN /\ runchain' = Without(runchain, t)
       /\ s_state' = [s_state EXCEPT ![t] = "IDLE"]
  ELSE UNCHANGED <<runchain, s_state>>

\* task::sleep(o); o may be null.
Sleep(t, o) ==
  /\ Calling(IF t = thistask THEN "sleep" ELSE "sleep_other")
  /\ Born(t)
  /\ o_link' = IF o # None /\ s_state[t] # "TERMINATED"
               THEN [o_link EXCEPT ![o] = Remembering(@, t)] ELSE o_link
  /\ RemovedIfRunning(t)
  /\ GoesOn(t)
  /\ UNCHANGED <<thistask, priority_sched, clxck, clock_task,
                 keep_waiting_count, s_time, call, picked, error>>

\* task::preempt()
Preempt(t) ==
  /\ Calling("preempt")
  /\ Born(t)
  /\ \/ s_state[t] # "RUNNING" /\ Fail("E_TASKPRE")
     \/ /\ s_state[t] = "RUNNING"
        /\ RemovedIfRunning(t)
        /\ UNCHANGED <<thistask, priority_sched, clxck, clock_task,
                       keep_waiting_count, s_time, o_link, call, phase, picked,
                       error>>

\* sched::cancel(val)
Cancelled(s, val) ==
  Alerted(s, [s_state EXCEPT ![s] = "TERMINATED"], [s_time EXCEPT ![s] = val],
          IF s_state[s] = "RUNNING" THEN Without(runchain, s) ELSE runchain,
          clxck)

\* task::cancel(val) does nothing on a TERMINATED task; a timer has only
\* sched::cancel(val).
Cancel(s, val) ==
  /\ Calling("cancel")
  /\ Born(s)
  /\ IF s \in Tasks /\ s_state[s] = "TERMINATED"
     THEN UNCHANGED <<runchain, s_state, s_time, o_link>>
     ELSE Cancelled(s, val)
  /\ UNCHANGED <<thistask, priority_sched, clxck, clock_task,
                 keep_waiting_count, call, phase, picked, error>>

\* task::resultis(val)
ResultIs(t, val) ==
  /\ Calling("resultis")
  /\ Born(t)
  /\ IF s_state[t] = "TERMINATED"
     THEN UNCHANGED <<runchain, s_state, s_time, o_link>>
     ELSE Cancelled(t, val)
  /\ GoesOn(t)
  /\ UNCHANGED <<thistask, priority_sched, clxck, clock_task,
                 keep_waiting_count, call, picked, error>>

\* sched::result(), task::wait(ob) and task::waitlist(...) up to their loops.
Enter(loop, S) ==
  /\ call' = [call EXCEPT ![thistask] = [loop |-> loop, on |-> S]]
  /\ UNCHANGED <<thistask, runchain, priority_sched, clxck, clock_task,
                 keep_waiting_count, s_state, s_time, o_link, phase, picked,
                 error>>

Result(s) ==
  /\ Calling("result")
  /\ Born(s)
  /\ \/ s = thistask /\ Fail("E_RESULT")
     \/ s # thistask /\ Enter("wait", {s})

Wait(o) ==
  /\ Calling("wait")
  /\ o \in Scheds => Born(o)
  /\ \/ o = thistask /\ Fail("E_WAIT")
     \/ o # thistask /\ Enter("wait", {o})

WaitVec(S) ==
  /\ Calling("waitvec")
  /\ \A o \in S \cap Scheds : Born(o)
  /\ Enter("waitvec", S)

\* The public halves of object.
Remember(o, t) ==
  /\ Calling("remember")
  /\ Born(t) /\ s_state[t] # "TERMINATED"
  /\ o_link' = [o_link EXCEPT ![o] = Remembering(@, t)]
  /\ UNCHANGED <<thistask, runchain, priority_sched, clxck, clock_task,
                 keep_waiting_count, s_state, s_time, call, phase, picked, error>>

Forget(o, t) ==
  /\ Calling("forget")
  /\ o_link' = [o_link EXCEPT ![o] = Without(@, t)]
  /\ UNCHANGED <<thistask, runchain, priority_sched, clxck, clock_task,
                 keep_waiting_count, s_state, s_time, call, phase, picked, error>>

Alert(o) ==
  /\ Calling("alert")
  /\ Alerted(o, s_state, s_time, runchain, clxck)
  /\ UNCHANGED <<thistask, priority_sched, clxck, clock_task,
                 keep_waiting_count, call, phase, picked, error>>

\* The static members of sched.
SetClock(t) ==
  /\ Calling("setclock")
  /\ \/ clxck # 0 /\ Fail("E_SETCLOCK")
     \/ /\ clxck = 0
        /\ clxck' = t
        /\ UNCHANGED <<thistask, runchain, priority_sched, clock_task,
                       keep_waiting_count, s_state, s_time, o_link, call, phase,
                       picked, error>>

SetPrioritySched(s) ==
  /\ Calling("set_priority_sched")
  /\ Born(s)
  /\ s_time' = [s_time EXCEPT ![s] = clxck]
  /\ priority_sched' = s
  /\ UNCHANGED <<thistask, runchain, clxck, clock_task, keep_waiting_count,
                 s_state, o_link, call, phase, picked, error>>

SetClockTask(t) ==
  /\ Calling("clock_task")
  /\ Born(t)
  /\ clock_task' = t
  /\ UNCHANGED <<thistask, runchain, priority_sched, clxck, keep_waiting_count,
                 s_state, s_time, o_link, call, phase, picked, error>>

KeepWaiting(n) ==
  /\ Calling("keep_waiting")
  /\ keep_waiting_count + n \in -MaxKeep..MaxKeep
  /\ keep_waiting_count' = keep_waiting_count + n
  /\ UNCHANGED <<thistask, runchain, priority_sched, clxck, clock_task, s_state,
                 s_time, o_link, call, phase, picked, error>>

----------------------------------------------------------------------------
(* The loops of result(), wait() and waitvec(), run by thistask when the   *)
(* call is made and again each time it is resumed inside of it.            *)

InLoop(loop) == phase = "user" /\ call[thistask].loop = loop

On == call[thistask].on

Return ==
  /\ call' = [call EXCEPT ![thistask] = NotInCall]
  /\ UNCHANGED <<thistask, runchain, priority_sched, clxck, clock_task,
                 keep_waiting_count, s_state, s_time, phase, picked, error>>

WaitReturns ==
  /\ InLoop("wait")
  /\ \A o \in On : ~Pending(o)
  /\ Return
  /\ UNCHANGED o_link

\* waitvec() forgets on every object it was given.
WaitVecReturns ==
  /\ InLoop("waitvec")
  /\ \E o \in On : ~Pending(o)
  /\ o_link' = [o \in Objects |-> IF o \in On THEN Without(o_link[o], thistask)
                                 ELSE o_link[o]]
  /\ Return

\* remember() on every object that is waited for, then sleep().
LoopSleeps ==
  /\ InLoop("wait") \/ InLoop("waitvec")
  /\ \A o \in On : Pending(o)
  /\ \/ call[thistask] = [loop |-> "waitvec", on |-> {thistask}] /\ Fail("E_WAIT")
     \/ /\ call[thistask] # [loop |-> "waitvec", on |-> {thistask}]
        /\ o_link' = [o \in Objects |->
                        IF o \in On /\ s_state[thistask] # "TERMINATED"
                        THEN Remembering(o_link[o], thistask) ELSE o_link[o]]
        /\ RemovedIfRunning(thistask)
        /\ phase' = "schedule"
        /\ UNCHANGED <<thistask, priority_sched, clxck, clock_task,
                       keep_waiting_count, s_time, call, picked, error>>

----------------------------------------------------------------------------
(* sched::schedule()                                                       *)

\* Bug: priority_sched is used without the test for null.
PriorityUntested == TRUE

HasPriority == priority_sched # None

PickPriority ==
  /\ phase = "schedule"
  /\ HasPriority
  /\ picked' = priority_sched
  /\ priority_sched' = None
  /\ runchain' = Without(runchain, picked')
  /\ s_state' = [s_state EXCEPT ![picked'] = "RUNNING"]
  /\ phase' = "picked"
  /\ UNCHANGED <<thistask, clxck, clock_task, keep_waiting_count, s_time, o_link,
                 call, error>>

PickFront ==
  /\ phase = "schedule"
  /\ ~HasPriority
  /\ runchain # <<>>
  /\ picked' = Head(runchain)
  /\ runchain' = Tail(runchain)
  /\ phase' = "picked"
  /\ UNCHANGED <<thistask, priority_sched, clxck, clock_task, keep_waiting_count,
                 s_state, s_time, o_link, call, error>>

\* Nothing to run: pause() for a signal if somebody keeps the system waiting,
\* else terminate every task and exit().
NothingToRun ==
  /\ phase = "schedule"
  /\ ~HasPriority
  /\ runchain = <<>>
  /\ \/ /\ keep_waiting_count # 0
        /\ phase' = "pausing"
        /\ UNCHANGED <<s_state, s_time>>
     \/ /\ keep_waiting_count = 0
        /\ phase' = "exited"
        /\ s_state' = [s \in Scheds |-> IF s \in Tasks /\ Born(s)
                                       THEN "TERMINATED" ELSE s_state[s]]
        /\ s_time' = [s \in Scheds |-> IF s \in Tasks THEN 0 ELSE s_time[s]]
  /\ UNCHANGED <<thistask, runchain, priority_sched, clxck, clock_task,
                 keep_waiting_count, o_link, call, picked, error>>

\* A signal ends pause(); back to keep_waiting.
PauseReturns ==
  /\ phase = "pausing"
  /\ phase' = "schedule"
  /\ UNCHANGED <<thistask, runchain, priority_sched, clxck, clock_task,
                 keep_waiting_count, s_state, s_time, o_link, call, picked, error>>

\* The rest of schedule(): the clock moves to s_time of the picked sched, and
\* the clock task, if there is one, goes first when the clock ticks.
Ticks == s_time[picked] # clxck /\ clock_task # None

BadTime ==
  /\ phase = "picked"
  /\ \/ s_time[picked] < clxck /\ Fail("E_SCHTIME")
     \/ /\ s_time[picked] > clxck
        /\ Ticks
        /\ s_state[clock_task] # "IDLE"
        /\ Fail("E_CLOCKIDLE")

\* task::resume()
ResumeTask ==
  /\ phase = "picked"
  /\ picked \in Tasks
  /\ s_time[picked] >= clxck
  /\ ~Ticks
  /\ clxck' = s_time[picked]
  /\ thistask' = picked
  /\ picked' = None
  /\ phase' = "user"
  /\ UNCHANGED <<runchain, priority_sched, clock_task, keep_waiting_count,
                 s_state, s_time, o_link, call, error>>

\* Bug: the picked sched is put back behind the others.
PutBackLast == Append(runchain, picked)

PutBack == <<picked>> \o runchain

ResumeClockTask ==
  /\ phase = "picked"
  /\ s_time[picked] > clxck
  /\ Ticks
  /\ s_state[clock_task] = "IDLE"
  /\ clxck' = s_time[picked]
  /\ runchain' = PutBack
  /\ thistask' = clock_task
  /\ picked' = None
  /\ phase' = "user"
  /\ UNCHANGED <<priority_sched, clock_task, keep_waiting_count, s_state, s_time,
                 o_link, call, error>>

\* timer::resume(): the timer terminates, alerts, and schedules the next one.
FireTimer ==
  /\ phase = "picked"
  /\ picked \in Timers
  /\ s_time[picked] >= clxck
  /\ ~Ticks
  /\ clxck' = s_time[picked]
  /\ Alerted(picked, [s_state EXCEPT ![picked] = "TERMINATED"], s_time, runchain,
             s_time[picked])
  /\ picked' = None
  /\ phase' = "schedule"
  /\ UNCHANGED <<thistask, priority_sched, clock_task, keep_waiting_count, call,
                 error>>

Stopped == phase \in {"exited", "error"} /\ UNCHANGED schedVars

----------------------------------------------------------------------------
\* After the static constructors: main() runs as the task Main.
Init ==
  /\ thistask = Main
  /\ runchain = <<>>
  /\ priority_sched = None
  /\ clxck = 0
  /\ clock_task = None
  /\ keep_waiting_count = 0
  /\ s_state = [s \in Scheds |-> IF s = Main THEN "RUNNING" ELSE "UNBORN"]
  /\ s_time = [s \in Scheds |-> 0]
  /\ o_link = [o \in Objects |-> <<>>]
  /\ call = [t \in Tasks |-> NotInCall]
  /\ phase = "user"
  /\ picked = None
  /\ error = "none"

UserCall ==
  \/ \E t \in Tasks :
       \/ NewTask(t)
       \/ Preempt(t)
       \/ SetClockTask(t)
       \/ \E d \in Delays : Delay(t, d)
       \/ \E o \in Objects \cup {None} : Sleep(t, o)
       \/ \E o \in Objects : Remember(o, t) \/ Forget(o, t)
       \/ \E val \in Results : ResultIs(t, val)
  \/ \E m \in Timers, d \in Delays : SetTimer(m, d)
  \/ \E s \in Scheds :
       \/ Result(s)
       \/ SetPrioritySched(s)
       \/ \E val \in Results : Cancel(s, val)
  \/ \E o \in Objects : Wait(o) \/ Alert(o)
  \/ \E S \in Lists : WaitVec(S)
  \/ \E t \in Times : SetClock(t)
  \/ KeepWaiting(1) \/ KeepWaiting(-1)

Schedule ==
  \/ PickPriority \/ PickFront \/ NothingToRun
  \/ BadTime \/ ResumeTask \/ ResumeClockTask \/ FireTimer

Next ==
  \/ UserCall
  \/ WaitReturns \/ WaitVecReturns \/ LoopSleeps
  \/ Schedule \/ PauseReturns
  \/ Stopped

Spec == Init /\ [][Next]_schedVars

(* The program is cooperative: the fairness is that of one process that    *)
(* keeps executing.  schedule() runs to its end, a resumed wait loop runs  *)
(* on, and user code sooner or later makes a call that gives up the        *)
(* processor.  Nothing is assumed of the signals that end pause().         *)
Yield == UserCall /\ phase' # "user"

FairSpec ==
  /\ Spec
  /\ WF_schedVars(Schedule)
  /\ WF_schedVars(WaitReturns \/ WaitVecReturns \/ LoopSleeps)
  /\ SF_schedVars(Yield)
----------------------------------------------------------------------------
TypeOK ==
  /\ thistask \in Tasks
  /\ runchain \in Seq(Scheds)
  /\ priority_sched \in Scheds \cup {None}
  /\ clxck \in Int
  /\ clock_task \in Tasks \cup {None}
  /\ keep_waiting_count \in -MaxKeep..MaxKeep
  /\ s_state \in [Scheds -> States]
  /\ s_time \in [Scheds -> Int]
  /\ o_link \in [Objects -> Seq(Tasks)]
  /\ call \in [Tasks -> Calls]
  /\ phase \in Phases
  /\ IF phase = "picked" THEN picked \in Scheds ELSE phase # "error" => picked = None
  /\ error \in Errors

\* The sched that is to run next, if schedule() has taken it off the chain,
\* and then the run chain.
Queue == IF phase = "picked" THEN <<picked>> \o runchain ELSE runchain

\* No sched is twice on the chain c, and every sched on it is RUNNING.
WellFormed(c, st) ==
  /\ \A i, j \in DOMAIN c : c[i] = c[j] => i = j
  /\ \A i \in DOMAIN c : st[c[i]] = "RUNNING"

\* The chain c is sorted, and nothing on it is due before now.
Ordered(c, time, now) ==
  /\ \A i, j \in DOMAIN c : i < j => time[c[i]] <= time[c[j]]
  /\ \A i \in DOMAIN c : now <= time[c[i]]

\* The links of the run chain are sound, and the sched that schedule() has
\* taken off the chain is RUNNING and not on it any more.
ChainWellFormed ==
  /\ WellFormed(runchain, s_state)
  /\ phase = "picked" => /\ s_state[picked] = "RUNNING"
                         /\ \A i \in DOMAIN runchain : runchain[i] # picked

\* "runchain ordered by s_time" (the comment of sched.c in insert()), from the
\* picked sched on, and nothing is due before the clock.
ChainOrdered ==
  /\ Ordered(runchain, s_time, IF phase = "picked" THEN s_time[picked] ELSE clxck)
  /\ phase = "picked" => clxck <= s_time[picked]

\* schedule() never finds the sched it picked overdue.
NoBadTime == error # "E_SCHTIME"

\* No wakeup is lost: a task that is IDLE inside wait(), result() or waitvec()
\* is on the remember chain of everything it waits for, and all of that is
\* still pending.  (An alert() of any of it would have put the task on the run
\* chain.)
WaitersHeard ==
  \A t \in Tasks :
    /\ call[t].loop # "none"
    /\ s_state[t] = "IDLE"
    /\ phase \in {"user", "schedule", "picked", "pausing"}
    /\ phase = "user" => t # thistask
    => \A o \in call[t].on : t \in Elems(o_link[o]) /\ Pending(o)

\* A task that has terminated stays terminated ("cannot schedule terminated
\* sched", E_RESTERM).
TerminatedStays ==
  [][\A t \in Tasks : s_state[t] = "TERMINATED" => s_state'[t] = "TERMINATED"]_schedVars

\* insert() never finds thistask at the end of the run chain, where the test
\* for E_RESOBJ ("task or timer on other queue") cannot see it.
NoSelfLink == error # "RUNCHAIN_CYCLE"

\* First come, first served: scheds that wait for the processor keep their
\* order, and one that comes to wait goes behind all that are due no later,
\* unless a timer is reset.
Ahead(q, s, u) == \E i, j \in DOMAIN q : i < j /\ q[i] = s /\ q[j] = u

Precedes(s, u) ==
  \/ Ahead(Queue, s, u)
  \/ s \in Elems(Queue) /\ u \notin Elems(Queue) /\ s_time'[s] <= s_time'[u]

NoOvertaking ==
  [][\A s, u \in Scheds :
       /\ Precedes(s, u)
       /\ s \in Elems(Queue') /\ u \in Elems(Queue')
       => Ahead(Queue', s, u)
          \/ \E m \in {s, u} \cap Timers, d \in Delays : SetTimer(m, d)]_schedVars

\* Nobody who is due is starved by others that keep coming back at the same
\* time: every sched that is due leaves the run chain.
DueGetsProcessor ==
  \A t \in Tasks :
    (t \in Elems(runchain) /\ s_time[t] = clxck)
      ~> (t \notin Elems(Queue) \/ phase \in {"exited", "error"})

\* The event list a simulation sees (module EventList): simulated time never
\* passes a sched that is still to run.
Due == [s \in Scheds |-> IF s \in Elems(Queue) THEN s_time[s] ELSE None]

Events == INSTANCE EventList WITH
  Entries <- Scheds, Off <- None, now <- clxck, due <- Due

RunsInOrder == Events!Spec
============================================================================
