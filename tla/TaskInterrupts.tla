--------------------------- MODULE TaskInterrupts ---------------------------
(***************************************************************************)
(* Signals as objects that tasks wait for: Interrupt_handler, sigFunc and  *)
(* the Interrupt_alerter (event.c), composed with the scheduler.           *)
(*                                                                         *)
(* sigFunc runs between any two instructions.  It only marks the newest    *)
(* handler of its signal and makes the alerter the priority sched; the     *)
(* alerter, when it runs, alerts the marked handlers, and pending() takes  *)
(* the mark off again.  A signal therefore commutes with every instruction *)
(* that touches none of these, and the steps below are cut only where it   *)
(* does not: in schedule() at the cuts of TaskSched and before pause(), in *)
(* the alerter between two handlers, and in the middle of the constructor  *)
(* and of the destructor of a handler.                                     *)
(***************************************************************************)
EXTENDS TaskSched

CONSTANTS
  Alerter,   \* interrupt_alerter, a static task
  Handlers,  \* identities of Interrupt_handler objects
  NASS,      \* signals are numbered 1..NASS
  Programs   \* what else may happen: "signals in windows", "any order"

Signals == 1..NASS

ASSUME InterruptsAssumption ==
  /\ Alerter \in Tasks \ {Main}
  /\ Handlers \subseteq Plain
  /\ NASS \in Nat \ {0}

VARIABLES
  hnd,       \* per signal, its handlers: hnd[i] and what old leads to
  got,       \* got_interrupt of every handler
  installed, \* the signals whose disposition is sigFunc
  half,      \* the constructor or destructor of a handler under way
  at,        \* the hnd[] that the alerter looks at next; 0 at its sleep()
  paused     \* whether the process is inside pause()

interruptVars == <<hnd, got, installed, half, at, paused>>
systemVars == <<schedVars, interruptVars>>

NoHalf == [op |-> "none"]
Halves == {NoHalf} \cup [op : {"constructor", "destructor"}, h : Handlers, sig : Signals]

Scheduling(step) == step /\ UNCHANGED interruptVars

Exists(h) == \E sig \in Signals : h \in Elems(hnd[sig])

Marked(sig) == hnd[sig] # <<>> /\ got[Head(hnd[sig])]

(* No handler exists before interrupt_alerter has been constructed, and its*)
(* task does nothing but what its constructor says.                        *)
UserRuns ==
  /\ thistask # Alerter
  /\ Born(Alerter)
  /\ half = NoHalf

StaticConstruction == Scheduling(NewTask(Alerter))

----------------------------------------------------------------------------
(* The signal.  A careful program blocks it in the windows where the code  *)
(* does not: in the middle of a constructor or destructor, and between the *)
(* test of keep_waiting_count and pause().                                 *)

InWindow(sig) ==
  \/ half # NoHalf /\ half.sig = sig
  \/ phase = "pausing" /\ ~paused

\* A signal ends pause().
Unpaused == IF paused THEN "schedule" ELSE phase

sigFunc(sig) ==
  /\ sig \in installed
  /\ phase \notin {"exited", "error"}
  /\ InWindow(sig) => "signals in windows" \in Programs
  /\ \/ hnd[sig] = <<>> /\ Fail("E_NO_HNDLR") /\ UNCHANGED <<got, paused>>
     \/ /\ hnd[sig] # <<>>
        /\ got' = [got EXCEPT ![Head(hnd[sig])] = TRUE]
        /\ s_time' = [s_time EXCEPT ![Alerter] = clxck]
        /\ priority_sched' = Alerter
        /\ phase' = Unpaused
        /\ paused' = FALSE
        /\ UNCHANGED <<thistask, runchain, clxck, clock_task, keep_waiting_count,
                       s_state, o_link, call, picked, error>>
  /\ UNCHANGED <<hnd, installed, half, at>>

Pause ==
  /\ phase = "pausing" /\ ~paused
  /\ paused' = TRUE
  /\ UNCHANGED <<schedVars, hnd, got, installed, half, at>>

----------------------------------------------------------------------------
(* The alerter: for(;;) sleep and look at every signal.                    *)

AlerterSleeps ==
  /\ thistask = Alerter /\ phase = "user"
  /\ at = 0
  /\ RemovedIfRunning(Alerter)
  /\ phase' = "schedule"
  /\ at' = 1
  /\ UNCHANGED <<thistask, priority_sched, clxck, clock_task, keep_waiting_count,
                 s_time, o_link, call, picked, error, hnd, got, installed, half,
                 paused>>

\* Bug: the last signal is not looked at.
LooksShort(i) == IF i + 1 >= NASS THEN 0 ELSE i + 1

NextLook(i) == IF i = NASS THEN 0 ELSE i + 1

AlerterLooks ==
  /\ thistask = Alerter /\ phase = "user"
  /\ at \in Signals
  /\ IF Marked(at)
     THEN Alerted(Head(hnd[at]), s_state, s_time, runchain, clxck)
     ELSE UNCHANGED <<runchain, s_state, s_time, o_link>>
  /\ at' = NextLook(at)
  /\ UNCHANGED <<thistask, priority_sched, clxck, clock_task, keep_waiting_count,
                 call, phase, picked, error, hnd, got, installed, half, paused>>

----------------------------------------------------------------------------
(* Interrupt_handler's constructor and destructor, each in two steps.      *)

\* Bug: the constructor leaves the tasks that wait for a marked older handler.
OldForgotten(sig) == FALSE

OldToAlert(sig) == Marked(sig)

Construct(h, sig) ==
  /\ Calling("handler") /\ UserRuns
  /\ ~Exists(h)
  /\ keep_waiting_count < MaxKeep
  /\ o_link[h] = <<>>
  /\ IF OldToAlert(sig)
     THEN Alerted(Head(hnd[sig]), s_state, s_time, runchain, clxck)
     ELSE UNCHANGED <<runchain, s_state, s_time, o_link>>
  /\ installed' = IF hnd[sig] = <<>> THEN installed \cup {sig} ELSE installed
  /\ got' = [got EXCEPT ![h] = FALSE]
  /\ half' = [op |-> "constructor", h |-> h, sig |-> sig]
  /\ UNCHANGED <<thistask, priority_sched, clxck, clock_task, keep_waiting_count,
                 call, phase, picked, error, hnd, at, paused>>

Constructed ==
  /\ phase = "user" /\ half.op = "constructor"
  /\ hnd' = [hnd EXCEPT ![half.sig] = <<half.h>> \o @]
  /\ keep_waiting_count' = keep_waiting_count + 1
  /\ half' = NoHalf
  /\ UNCHANGED <<thistask, runchain, priority_sched, clxck, clock_task, s_state,
                 s_time, o_link, call, phase, picked, error, got, installed, at,
                 paused>>

\* Bug: the destructor restores the old disposition in any case.
NoOlder(h, sig) == TRUE

IsOldest(h, sig) == h = hnd[sig][Len(hnd[sig])]

\* A program deletes no handler that a task is waiting for.  A careful one
\* deletes the handlers of a signal newest first.
Destroy(h, sig) ==
  /\ Calling("handler") /\ UserRuns
  /\ h \in Elems(hnd[sig])
  /\ o_link[h] = <<>> /\ \A t \in Tasks : h \notin call[t].on
  /\ h # Head(hnd[sig]) => "any order" \in Programs
  /\ keep_waiting_count > -MaxKeep
  /\ keep_waiting_count' = keep_waiting_count - 1
  /\ hnd' = [hnd EXCEPT ![sig] = Without(@, h)]
  /\ half' = IF IsOldest(h, sig) THEN [op |-> "destructor", h |-> h, sig |-> sig]
             ELSE NoHalf
  /\ UNCHANGED <<thistask, runchain, priority_sched, clxck, clock_task, s_state,
                 s_time, o_link, call, phase, picked, error, got, installed, at,
                 paused>>

Destroyed ==
  /\ phase = "user" /\ half.op = "destructor"
  /\ installed' = installed \ {half.sig}
  /\ half' = NoHalf
  /\ UNCHANGED <<schedVars, hnd, got, at, paused>>

----------------------------------------------------------------------------
(* wait() and waitvec() with Interrupt_handler::pending(), which is "FALSE *)
(* once after interrupt": the call that returns takes the mark off.        *)

IPending(o) == IF o \in Handlers THEN ~got[o] ELSE Pending(o)

Unmarked(o) == [h \in Handlers |-> h # o /\ got[h]]

IWaitReturns ==
  /\ InLoop("wait")
  /\ \E o \in On : ~IPending(o) /\ got' = Unmarked(o)
  /\ Return
  /\ UNCHANGED <<o_link, hnd, installed, half, at, paused>>

IWaitVecReturns ==
  /\ InLoop("waitvec")
  /\ \E o \in On : ~IPending(o) /\ got' = Unmarked(o)
  /\ o_link' = [o \in Objects |-> IF o \in On THEN Without(o_link[o], thistask)
                                 ELSE o_link[o]]
  /\ Return
  /\ UNCHANGED <<hnd, installed, half, at, paused>>

ILoopSleeps ==
  /\ \A o \in On : IPending(o)
  /\ Scheduling(LoopSleeps)

----------------------------------------------------------------------------
IInit ==
  /\ Init
  /\ hnd = [sig \in Signals |-> <<>>]
  /\ got = [h \in Handlers |-> FALSE]
  /\ installed = {}
  /\ half = NoHalf
  /\ at = 0
  /\ paused = FALSE

\* A program does nothing to a handler that does not exist.
UsesExisting ==
  \A h \in Handlers :
    \/ Exists(h)
    \/ o_link'[h] = o_link[h] /\ \A t \in Tasks : h \notin call'[t].on \ call[t].on

User ==
  \/ UserRuns /\ Scheduling(UserCall) /\ UsesExisting
  \/ \E h \in Handlers, sig \in Signals : Construct(h, sig) \/ Destroy(h, sig)

Goes ==
  \/ AlerterSleeps \/ AlerterLooks
  \/ Constructed \/ Destroyed
  \/ IWaitReturns \/ IWaitVecReturns \/ ILoopSleeps
  \/ Scheduling(Schedule) \/ Pause

INext ==
  \/ StaticConstruction \/ User \/ Goes
  \/ \E sig \in Signals : sigFunc(sig)
  \/ Scheduling(Stopped)

ISpec == IInit /\ [][INext]_systemVars
----------------------------------------------------------------------------
ITypeOK ==
  /\ TypeOK
  /\ hnd \in [Signals -> Seq(Handlers)]
  /\ got \in [Handlers -> BOOLEAN]
  /\ installed \subseteq Signals
  /\ half \in Halves
  /\ at \in 0..NASS
  /\ paused \in BOOLEAN

\* A task that sleeps in wait() or waitvec() on the newest handler of sig,
\* although that signal has come.
SleepsOn(t, sig) ==
  /\ s_state[t] = "IDLE" /\ phase \notin {"exited", "error"}
  /\ call[t].loop # "none"
  /\ Marked(sig) /\ Head(hnd[sig]) \in call[t].on

\* No interrupt is lost: while a task sleeps on a signal that has come, the
\* alerter is the next to run, or runs and has not looked at the signal yet,
\* and the process is not inside pause().
InterruptsHeard ==
  \A t \in Tasks, sig \in Signals : SleepsOn(t, sig) =>
    /\ ~paused
    /\ \/ priority_sched = Alerter
       \/ phase = "picked" /\ picked = Alerter
       \/ thistask = Alerter /\ at \in 1..sig

\* A signal that has a handler is caught, whichever handlers have been
\* constructed and deleted before.
HandlersArmed == \A sig \in Signals : hnd[sig] # <<>> => sig \in installed
=============================================================================
