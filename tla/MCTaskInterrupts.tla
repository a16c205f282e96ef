-------------------------- MODULE MCTaskInterrupts --------------------------
(***************************************************************************)
(* Two programs for TLC, in one run: two tasks besides the alerter, two    *)
(* signals, and two handlers, of one signal or of both; or three tasks     *)
(* that wait for objects and for each other, without signals.              *)
(***************************************************************************)
EXTENDS TaskInterrupts, TLC

CONSTANTS main, a, alerter, h1, h2

ThreeTasks  == {main, a, alerter}
TwoHandlers == {h1, h2}
NoTimer     == {}
Now         == {0}
OneResult   == {0}
BothHandlers == {{h1, h2}}
Careful     == {}

\* Tasks that yield, and wait for each other and for handlers.
InterruptCalls == {"task", "delay", "wait", "waitvec", "handler"}

\* Tasks that wait for objects, for each other and for each other's results.
WaitCalls == {"task", "wait", "waitvec", "result", "alert", "cancel", "resultis"}

\* Tasks and objects together; the empty list, and a task by itself.
SomeLists == {{main, h1}, {main, a}, {a, alerter}, {a, h1, h2}, {}, {a}}

Alike == Permutations({h1, h2})

VARIABLE program   \* "signals" or "waits"

W == INSTANCE TaskSched WITH
       Lists <- SomeLists, Api <- WaitCalls, MaxKeep <- 0

ProgramsInit ==
  \/ program = "signals" /\ IInit
  \/ /\ program = "waits" /\ W!Init
     /\ hnd = [sig \in Signals |-> <<>>] /\ got = [h \in Handlers |-> FALSE]
     /\ installed = {} /\ half = NoHalf /\ at = 0 /\ paused = FALSE

ProgramsNext ==
  \/ program = "signals" /\ INext /\ UNCHANGED program
  \/ program = "waits" /\ W!Next /\ UNCHANGED <<program, interruptVars>>

ProgramsSpec == ProgramsInit /\ [][ProgramsNext]_<<program, systemVars>>

\* The types of both programs (TaskInterrupts!ITypeOK, TaskSched!TypeOK).
ProgramsTypeOK == IF program = "signals" THEN ITypeOK ELSE W!TypeOK
============================================================================
