---------------------------- MODULE MCTaskSched ----------------------------
(***************************************************************************)
(* Instances of TaskSched for TLC.  Each configuration chooses the calls   *)
(* its program makes, so that every group of calls is explored together    *)
(* with the calls it interacts with.                                       *)
(***************************************************************************)
EXTENDS TaskSched, TLC

CONSTANTS main, a, m1, m2, o

TwoTasks   == {main, a}
NoTimer    == {}
TwoTimers  == {m1, m2}
NoPlain    == {}
OnePlain   == {o}

Now        == {0}
NowOrNext  == {0, 1}
AlsoWrong  == {-1, 0, 1, 2}
AnyList   == SUBSET Objects
OneResult  == {0}
TwoResults == {0, 7}

\* Tasks that wait for objects, for timers and for each other.
WaitCalls == {"task", "wait", "waitvec", "result", "alert", "cancel", "resultis"}

\* Simulated time: delays, timers that are reset, tasks taken off the chain.
TimeCalls == {"task", "timer", "reset", "delay", "preempt", "cancel",
              "clock_task"}

\* The calls that reach into the chains from outside: remember chains, the
\* static members of sched, other tasks put to sleep or cancelled.
LinkCalls == {"remember", "forget", "sleep", "sleep_other", "keep_waiting",
              "set_priority_sched", "setclock"}

\* Every call but those of timers, and preempt().
AllCalls == WaitCalls \cup LinkCalls \cup {"delay", "clock_task"}

\* A clock task that is alerted while it runs.
AlertClockCalls == {"task", "timer", "delay", "clock_task", "sleep", "alert"}
============================================================================
