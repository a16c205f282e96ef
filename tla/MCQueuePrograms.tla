-------------------------- MODULE MCQueuePrograms --------------------------
(***************************************************************************)
(* Two programs for TLC in one run: the filter of QueueFilter, and two     *)
(* tasks that get and two that put on a queue of one place.                *)
(***************************************************************************)
EXTENDS MCQueueFilter

CONSTANTS c

VARIABLE program   \* "filter" or "transfer"

FourTasks == {main, a, b, c}

T == INSTANCE QueueTasks WITH
       Api <- {"task", "queue"}, QApi <- {"get", "put"}, Maxes <- {1},
       Getters <- {main, a}, Putters <- {b, c}

ProgramsInit ==
  /\ FilterInit
  /\ \/ program = "filter"
     \/ program = "transfer" /\ T!QInit

InFilter(A) == program = "filter" /\ A /\ UNCHANGED program
InTransfer(A) ==
  program = "transfer" /\ A /\ UNCHANGED <<program, progVars>>

everything == <<program, filterVars>>

\* The fairness of FilterSpec and of QFairSpec, each for its program.
ProgramsSpec ==
  /\ ProgramsInit
  /\ [][InFilter(FilterNext) \/ InTransfer(T!QNext)]_everything
  /\ WF_everything(InFilter(FilterNext))
  /\ WF_everything(InTransfer(T!Sched(T!Schedule)))
  /\ WF_everything(InTransfer(T!Resumed))
  /\ WF_everything(InTransfer(T!QWaitReturns \/ T!QWaitVecReturns
                              \/ T!QLoopSleeps))
  /\ WF_everything(InTransfer(T!Transfers))

\* QueueFilter!NothingLostOrOvertaken, of the program with the filter.
FilterUnnoticed == program = "filter" => NothingLostOrOvertaken

\* QueueFilter!EverythingArrives, of the program with the filter.
FilterPassesAll == program = "filter" => EverythingArrives

\* QueueTasks!EveryCallReturns, of the program that only gets and puts.
EveryTransferReturns == program = "transfer" => T!EveryCallReturns
=============================================================================
