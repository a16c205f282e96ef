------------------------------ MODULE TaskTeam ------------------------------
(***************************************************************************)
(* The stacks of tasks (class team, task::restore(), cancel() and ~task()  *)
(* of src/lib/task/task/task.c, with swap.s.386).  The tasks of a team     *)
(* share one stack: one of them has its frames there and the others in     *)
(* save areas.  A stack that is no longer needed is freed, the one that is *)
(* in use only after the switch to another task.                           *)
(*                                                                         *)
(* A team is named for the task that it was made for.  The fields of a     *)
(* team or task that does not exist yet are those of the constructor.      *)
(* Which task schedule() resumes is module TaskSched's; here it is any.    *)
(***************************************************************************)
EXTENDS Integers, FiniteSets

CONSTANTS
  Tasks,
  Main,      \* the task of main()
  NoTask,    \* a null pointer
  Careless   \* what the program does that a careful one does not

ASSUME TeamAssumption ==
  Main \in Tasks /\ NoTask \notin Tasks /\ IsFiniteSet(Tasks)

VARIABLES
  thistask,
  state,           \* of each task: "unborn", "alive", "terminated", "deleted"
  t_mode, t_team,
  t_size,          \* "right": the size of the frames of a task that does not
                   \* run; "old": it was; "unset": what the memory held
  saved,           \* tasks whose frames are in t_savearea
  no_of_tasks, got_stack,
  onstack,         \* whose frames are on the stack of the team
  team_to_delete,  \* the team named by team_to_delete, or NoTask
  freed,           \* teams that are deleted, with their stacks
  sound            \* no switch has used what is deleted or was never set

teamVars == <<thistask, state, t_mode, t_team, t_size, saved, no_of_tasks,
              got_stack, onstack, team_to_delete, freed, sound>>

Born(t) == state[t] # "unborn"
Members(g) == {t \in Tasks : state[t] = "alive" /\ t_team[t] = g}

-----------------------------------------------------------------------------
(* task::restore(): running, or nobody if it was deleted, gives the        *)
(* processor to task to.                                                   *)

Ended(running) == running = NoTask \/ state'[running] # "alive"

\* Bug: swap() does not note the size.
SizesForgotten(running) == t_size

\* What swap() notes.
Sizes(running) ==
  IF ~ Ended(running) /\ t_mode'[running] = "SHARED"
  THEN [t_size EXCEPT ![running] = "right"] ELSE t_size

\* What sswap() notes.
SharedSizes(running) ==
  IF Ended(running) THEN t_size ELSE [t_size EXCEPT ![running] = "right"]

Resumed(sizes, to) == [sizes EXCEPT ![to] = IF @ = "unset" THEN @ ELSE "old"]

\* To a task whose frames are where they belong.
Swap(running, to) ==
  /\ t_size' = Resumed(Sizes(running), to)
  /\ UNCHANGED <<saved, got_stack, onstack>>

\* sswap() moves the frames of the task prev out of the stack of g.
Copies(running, prev) == ~ (Ended(running) /\ running = prev)

SavedOut(running, prev, g) ==
  IF ~ Copies(running, prev) THEN saved
  ELSE IF SharedSizes(running)[prev] = "right" /\ onstack[g] = prev
       THEN saved \cup {prev} ELSE saved \ {prev}

SharedSwap(running, prev, to, child) ==
  LET g == t_team'[to]
      out == SavedOut(running, prev, g)
  IN  /\ t_size' = Resumed(SharedSizes(running), to)
      /\ got_stack' = [got_stack EXCEPT ![g] = to]
      /\ onstack' = [onstack EXCEPT ![g] = IF child \/ to \in out THEN to ELSE NoTask]
      /\ saved' = IF child THEN out ELSE out \ {to}

Shares(to) == t_mode'[to] = "SHARED" /\ got_stack[t_team'[to]] # to

\* The switch to a stack that exists, copying from a task that exists as many
\* words as it has said.
SoundSwitch(running, to) ==
  /\ t_team'[to] \notin freed
  /\ LET prev == got_stack[t_team'[to]]
     IN  Shares(to) /\ Copies(running, prev)
         => state'[prev] # "deleted" /\ SharedSizes(running)[prev] # "unset"

\* pending is the team that is to be deleted; the assertion of cancel() is that
\* there was no other.  A new task on a stack of its own does not return to
\* restore(), which deletes it.
Restore(running, to, child, pending) ==
  /\ IF Shares(to) THEN SharedSwap(running, got_stack[t_team'[to]], to, child)
                   ELSE Swap(running, to)
  /\ thistask' = to
  /\ IF child /\ ~ Shares(to)
     THEN team_to_delete' = pending /\ freed' = freed
     ELSE team_to_delete' = NoTask /\ freed' = freed \cup ({pending} \ {NoTask})
  /\ sound' = /\ sound /\ SoundSwitch(running, to)
              /\ pending \notin freed /\ team_to_delete \in {NoTask, pending}

\* A task that ends before its first switch, on a shared stack, has no size;
\* if a task of another team is next, the stack is copied all the same later.
EndsFresh(running, to) ==
  /\ running # NoTask /\ state'[running] # "alive"
  /\ t_size[running] = "unset"
  /\ got_stack[t_team[running]] = running
  /\ t_team[to] # t_team[running]

MayResume(running, to) ==
  /\ to # thistask /\ state'[to] = "alive"
  /\ "end fresh" \in Careless \/ ~ EndsFresh(running, to)

-----------------------------------------------------------------------------
(* What a task may do. *)

\* task::task() with mode DEDICATED.
NewDedicated(t) ==
  /\ state[thistask] = "alive" /\ ~ Born(t)
  /\ state' = [state EXCEPT ![t] = "alive"]
  /\ t_mode' = [t_mode EXCEPT ![t] = "DEDICATED"]
  /\ t_team' = [t_team EXCEPT ![t] = t]
  /\ no_of_tasks' = no_of_tasks
  /\ Restore(thistask, t, TRUE, team_to_delete)

\* Bug: the team does not count the new task.
NotCounted(g) == no_of_tasks
OneMore(g) == [no_of_tasks EXCEPT ![g] = @ + 1]

\* ... with mode SHARED: the parent shares its stack from now on.
NewShared(t) ==
  /\ state[thistask] = "alive" /\ ~ Born(t)
  /\ state' = [state EXCEPT ![t] = "alive"]
  /\ t_mode' = [t_mode EXCEPT ![thistask] = "SHARED", ![t] = "SHARED"]
  /\ t_team' = [t_team EXCEPT ![t] = t_team[thistask]]
  /\ no_of_tasks' = OneMore(t_team[thistask])
  /\ Restore(thistask, t, TRUE, team_to_delete)

\* task::cancel(), but for the deletion of the team.
Terminated(t) ==
  /\ state[t] = "alive"
  /\ state' = [state EXCEPT ![t] = "terminated"]
  /\ no_of_tasks' = [no_of_tasks EXCEPT ![t_team[t]] = @ - 1]
  /\ UNCHANGED <<t_mode, t_team>>

LastOf(t) == no_of_tasks[t_team[t]] = 1

\* The team that pends when thistask has ended.
Pends == IF LastOf(thistask) THEN t_team[thistask] ELSE team_to_delete

\* cancel() of thistask, which goes on.
CancelThis ==
  /\ Terminated(thistask)
  /\ team_to_delete' = Pends
  /\ sound' = (sound /\ (LastOf(thistask) => team_to_delete = NoTask))
  /\ UNCHANGED <<thistask, t_size, saved, got_stack, onstack, freed>>

\* cancel() of another task.  A careful task that has ended cancels nobody
\* who shares its stack.
CancelOther(t) ==
  /\ t # thistask
  /\ \/ "cancel after end" \in Careless
     \/ state[thistask] = "alive" \/ t_team[t] # t_team[thistask]
  /\ Terminated(t)
  /\ freed' = IF LastOf(t) THEN freed \cup {t_team[t]} ELSE freed
  /\ sound' = (sound /\ (LastOf(t) => t_team[t] \notin freed))
  /\ UNCHANGED <<thistask, t_size, saved, got_stack, onstack, team_to_delete>>

\* resultis() of thistask.
ResultIs(to) ==
  /\ Terminated(thistask)
  /\ MayResume(thistask, to)
  /\ Restore(thistask, to, FALSE, Pends)

\* A call that ends in schedule(), by thistask or what is left of it.
GiveUp(to) ==
  /\ UNCHANGED <<state, t_mode, t_team, no_of_tasks>>
  /\ MayResume(thistask, to)
  /\ Restore(thistask, to, FALSE, team_to_delete)

\* A careful program does not delete the task whose frames are on a stack that
\* others share: the frames are copied to its save area all the same.
MayDelete(t) ==
  /\ state[t] = "terminated"
  /\ \/ "delete holder" \in Careless
     \/ got_stack[t_team[t]] # t \/ Members(t_team[t]) = {}

\* ~task() of another task, and of thistask.
DeleteOther(t) ==
  /\ t # thistask /\ MayDelete(t)
  /\ state' = [state EXCEPT ![t] = "deleted"]
  /\ UNCHANGED <<thistask, t_mode, t_team, t_size, saved, no_of_tasks, got_stack,
                 onstack, team_to_delete, freed, sound>>

DeleteThis(to) ==
  /\ MayDelete(thistask)
  /\ state' = [state EXCEPT ![thistask] = "deleted"]
  /\ UNCHANGED <<t_mode, t_team, no_of_tasks>>
  /\ MayResume(NoTask, to)
  /\ Restore(NoTask, to, FALSE, team_to_delete)

\* Static data are zero: main's task has a team that is never deleted.
TeamInit ==
  /\ thistask = Main
  /\ state = [t \in Tasks |-> IF t = Main THEN "alive" ELSE "unborn"]
  /\ t_mode = [t \in Tasks |-> "DEDICATED"]
  /\ t_team = [t \in Tasks |-> t]
  /\ t_size = [t \in Tasks |-> "unset"]
  /\ saved = {}
  /\ no_of_tasks = [g \in Tasks |-> IF g = Main THEN 2 ELSE 1]
  /\ got_stack = [g \in Tasks |-> g]
  /\ onstack = [g \in Tasks |-> g]
  /\ team_to_delete = NoTask /\ freed = {} /\ sound = TRUE

TeamNext ==
  \/ CancelThis
  \/ \E t \in Tasks :
       \/ NewDedicated(t) \/ NewShared(t)
       \/ CancelOther(t) \/ DeleteOther(t)
       \/ ResultIs(t) \/ GiveUp(t) \/ DeleteThis(t)

TeamSpec == TeamInit /\ [][TeamNext]_teamVars
-----------------------------------------------------------------------------
(* Properties. *)

TeamTypeOK ==
  /\ thistask \in Tasks
  /\ state \in [Tasks -> {"unborn", "alive", "terminated", "deleted"}]
  /\ t_mode \in [Tasks -> {"DEDICATED", "SHARED"}]
  /\ t_team \in [Tasks -> Tasks]
  /\ t_size \in [Tasks -> {"unset", "old", "right"}]
  /\ saved \subseteq Tasks
  /\ no_of_tasks \in [Tasks -> Int]
  /\ got_stack \in [Tasks -> Tasks]
  /\ onstack \in [Tasks -> Tasks \cup {NoTask}]
  /\ team_to_delete \in Tasks \cup {NoTask}
  /\ freed \subseteq Tasks
  /\ sound \in BOOLEAN

\* Whoever runs, runs on its own frames, on a stack that is not deleted ("don't
\* delete current stack!", task.c:331), however the tasks of the teams took
\* turns, and no switch has used a task or a size that is not there.
RunsOnItsFrames ==
  /\ onstack[t_team[thistask]] = thistask
  /\ t_team[thistask] \notin freed
  /\ sound

\* A stack is deleted when the last of its tasks has ended, and not before;
\* one in use is deleted by the next switch.  (That of main() never is.)
StacksFreedInTime ==
  \A g \in Tasks \ {Main} :
    Born(g) /\ t_team[g] = g =>
      (g \in freed \cup {team_to_delete} <=> Members(g) = {})
=============================================================================
