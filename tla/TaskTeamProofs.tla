--------------------------- MODULE TaskTeamProofs ---------------------------
(***************************************************************************)
(* Proofs about TaskTeam, of programs that are careful: whoever runs, runs *)
(* on its own frames, and stacks are freed in time, for any number of      *)
(* tasks.                                                                  *)
(***************************************************************************)
EXTENDS TaskTeam, FiniteSetTheorems, TLAPS

-----------------------------------------------------------------------------
(* The inductive invariant.                                                *)

Made(g) == Born(g) /\ t_team[g] = g

(* The frames of task t, of mode m and team g, are on the stack of g, with *)
(* their size known if they may have to go, or in the save area.           *)
FramesKept(t, m, g) ==
  IF got_stack[g] = t
  THEN onstack[g] = t /\ (m = "SHARED" => t_size[t] = "right")
  ELSE m = "SHARED" /\ t \in saved

(* Whoever holds a stack can be copied out of it.                          *)
Copyable(p) == state[p] \in {"alive", "terminated"} /\ t_size[p] # "unset"

Running ==
  /\ state[thistask] \in {"alive", "terminated"}
  /\ got_stack[t_team[thistask]] = thistask
  /\ RunsOnItsFrames

Waiting ==
  \A t \in Tasks : state[t] = "alive" /\ t # thistask =>
    t_team[t] \notin freed /\ FramesKept(t, t_mode[t], t_team[t])

Holders ==
  \A t \in Tasks : state[t] = "alive" =>
    LET p == got_stack[t_team[t]]
    IN  /\ t_team[p] = t_team[t] /\ Born(p)
        /\ p # t /\ p # thistask => Copyable(p)

(* A task that does not share its stack is alone on it.                    *)
Alone ==
  \A t, u \in Tasks :
    Born(t) /\ Born(u) /\ t_mode[t] = "DEDICATED" /\ t_team[u] = t_team[t] => u = t

Homes == \A t \in Tasks : Born(t) => Made(t_team[t])

Unborn ==
  \A t \in Tasks : ~ Born(t) =>
    /\ t_team[t] = t /\ t_mode[t] = "DEDICATED" /\ t_size[t] = "unset"

Unmade ==
  \A g \in Tasks : ~ Made(g) =>
    /\ no_of_tasks[g] = 1 /\ got_stack[g] = g /\ onstack[g] = g
    /\ g \notin freed /\ g # team_to_delete

Counted ==
  \A g \in Tasks : Made(g) =>
    no_of_tasks[g] = Cardinality(Members(g)) + (IF g = Main THEN 1 ELSE 0)

Pended ==
  /\ team_to_delete \notin freed
  /\ team_to_delete # NoTask =>
       state[thistask] = "terminated" /\ t_team[thistask] = team_to_delete

TeamInv ==
  /\ TeamTypeOK /\ Running /\ Waiting /\ Holders /\ Alone /\ Homes
  /\ Unborn /\ Unmade /\ Counted /\ Pended /\ StacksFreedInTime
  /\ Born(Main) /\ Main \notin freed \cup {team_to_delete}

-----------------------------------------------------------------------------
(* The switch: what holds of the tasks as they are after the call that     *)
(* gives up the processor, and of the stacks as they were, gives the       *)
(* invariant of the stacks.                                                *)
Ready(running, to, child, pending) ==
  /\ state' \in [Tasks -> {"unborn", "alive", "terminated", "deleted"}]
  /\ t_mode' \in [Tasks -> {"DEDICATED", "SHARED"}]
  /\ t_team' \in [Tasks -> Tasks]
  /\ no_of_tasks' \in [Tasks -> Int]
  /\ to # thistask /\ state'[to] = "alive" /\ state'[thistask] # "unborn"
  /\ running = thistask => state'[thistask] \in {"alive", "terminated"}
  /\ state'[thistask] = "alive" =>
       running = thistask /\ t_team'[thistask] \notin freed \cup {pending}
  /\ got_stack[t_team'[thistask]] = thistask
  /\ onstack[t_team'[thistask]] = thistask
  /\ \A t \in Tasks : state'[t] = "alive" /\ t # thistask /\ ~ (child /\ t = to) =>
       t_team'[t] \notin freed \cup {pending} /\ FramesKept(t, t_mode'[t], t_team'[t])
  /\ child => /\ t_team'[to] \notin freed /\ pending = NoTask
              /\ \/ got_stack[t_team'[to]] = to /\ onstack[t_team'[to]] = to
                 \/ t_mode'[to] = "SHARED" /\ t_team'[to] = t_team'[thistask]
  /\ \A t \in Tasks : state'[t] = "alive" =>
       LET p == got_stack[t_team'[t]]
       IN  /\ t_team'[p] = t_team'[t] /\ state'[p] # "unborn"
           /\ p # t /\ p # thistask =>
                state'[p] \in {"alive", "terminated"} /\ t_size[p] # "unset"
  /\ \A t \in Tasks : state'[t] = "alive" /\ t # thistask /\ t_team'[t] = t_team'[thistask] =>
       /\ running = thistask
       /\ \/ state'[thistask] = "alive" \/ t_size[thistask] # "unset"
          \/ t_team'[to] = t_team'[thistask]
  /\ Alone'
  /\ sound /\ pending \notin freed /\ team_to_delete \in {NoTask, pending}

LEMMA Switching ==
  ASSUME TeamAssumption, TeamTypeOK,
         NEW running \in {thistask, NoTask}, NEW to \in Tasks, NEW child \in BOOLEAN,
         NEW pending \in Tasks \cup {NoTask},
         Ready(running, to, child, pending),
         Restore(running, to, child, pending)
  PROVE  TeamTypeOK' /\ Running' /\ Waiting' /\ Holders'
<1> USE DEF Ready
<1> DEFINE g == t_team'[to]
           prev == got_stack[g]
           Kept(t) == IF got_stack'[t_team'[t]] = t
                      THEN onstack'[t_team'[t]] = t /\ (t_mode'[t] = "SHARED" => t_size'[t] = "right")
                      ELSE t_mode'[t] = "SHARED" /\ t \in saved'
           CanCopy(q) == state'[q] \in {"alive", "terminated"} /\ t_size'[q] # "unset"
<1>1. thistask' = to /\ thistask \in Tasks /\ NoTask \notin Tasks /\ g \in Tasks
  BY DEF Restore, TeamTypeOK, TeamAssumption
<1>2. /\ freed' \in {freed, freed \cup ({pending} \ {NoTask})}
      /\ team_to_delete' \in {NoTask, pending}
      /\ sound' = /\ sound /\ SoundSwitch(running, to)
                  /\ pending \notin freed /\ team_to_delete \in {NoTask, pending}
  BY DEF Restore
<1>3. g \notin freed' /\ g \notin freed
  BY <1>1, <1>2
<1>4. CASE ~ Shares(to)
  <2>1. t_size' = Resumed(Sizes(running), to) /\ saved' = saved /\ got_stack' = got_stack /\ onstack' = onstack
    BY <1>4 DEF Restore, Swap
  <2>2. got_stack[g] = to /\ onstack[g] = to
    <3>1. CASE child
      BY <1>4, <3>1, <1>1 DEF Shares
    <3>2. CASE ~ child
      <4>1. FramesKept(to, t_mode'[to], g)
        BY <3>2
      <4> QED  BY <1>4, <4>1 DEF Shares, FramesKept
    <3> QED  BY <3>1, <3>2
  <2>3. sound'
    BY <1>2, <1>3, <1>4 DEF SoundSwitch
  <2>4. /\ t_size' \in [Tasks -> {"unset", "old", "right"}]
        /\ \A t \in Tasks : t # to /\ t # thistask => t_size'[t] = t_size[t]
        /\ state'[thistask] = "alive" /\ t_mode'[thistask] = "SHARED" => t_size'[thistask] = "right"
        /\ t_size[thistask] # "unset" => t_size'[thistask] # "unset"
    <3>1. Sizes(running) \in [Tasks -> {"unset", "old", "right"}]
      BY <1>1 DEF Sizes, TeamTypeOK
    <3>2. /\ \A t \in Tasks : t # thistask => Sizes(running)[t] = t_size[t]
          /\ state'[thistask] = "alive" /\ t_mode'[thistask] = "SHARED" => Sizes(running)[thistask] = "right"
          /\ t_size[thistask] # "unset" => Sizes(running)[thistask] # "unset"
      BY <1>1 DEF Sizes, TeamTypeOK, Ended
    <3> HIDE DEF g, prev
    <3> DEFINE sizes == Sizes(running)
    <3>3. t_size' = [sizes EXCEPT ![to] = IF sizes[to] = "unset" THEN sizes[to] ELSE "old"]
      BY <2>1 DEF Resumed
    <3> HIDE DEF sizes
    <3> QED  BY <3>1, <3>2, <3>3, <1>1 DEF sizes
  <2>5. Running'
    BY <1>1, <1>3, <2>1, <2>2, <2>3 DEF Running, RunsOnItsFrames
  <2>6. Waiting'
    <3> SUFFICES ASSUME NEW t \in Tasks, state'[t] = "alive", t # to
                 PROVE  t_team'[t] \notin freed' /\ Kept(t)
      BY <1>1 DEF Waiting, FramesKept
    <3>1. t_team'[t] \notin freed'
      BY <1>2
    <3>2. CASE t = thistask
      BY <3>1, <3>2, <2>1, <2>4
    <3>3. CASE t # thistask
      <4>1. FramesKept(t, t_mode'[t], t_team'[t])
        BY <3>3
      <4>2. t_size'[t] = t_size[t]
        BY <3>3, <2>4
      <4> QED  BY <3>1, <4>1, <4>2, <2>1 DEF FramesKept
    <3> QED  BY <3>1, <3>2, <3>3
  <2>7. Holders'
    <3> SUFFICES ASSUME NEW t \in Tasks, state'[t] = "alive"
                 PROVE  LET p == got_stack'[t_team'[t]]
                        IN  /\ t_team'[p] = t_team'[t] /\ state'[p] # "unborn"
                            /\ p # t /\ p # to => CanCopy(p)
      BY <1>1 DEF Holders, Copyable, Born
    <3> DEFINE p == got_stack[t_team'[t]]
    <3>1. /\ t_team'[p] = t_team'[t] /\ state'[p] # "unborn" /\ p \in Tasks
          /\ p # t /\ p # thistask => state'[p] \in {"alive", "terminated"} /\ t_size[p] # "unset"
      BY DEF TeamTypeOK, Born
    <3>2. ASSUME p # t, p # to, p = thistask PROVE CanCopy(p)
      <4>1. t # thistask /\ t_team'[t] = t_team'[thistask]
        BY <3>1, <3>2
      <4>2. running = thistask /\ t_team'[to] # t_team'[thistask]
        BY <4>1, <2>2, <1>1
      <4>3. CASE state'[thistask] = "alive"
        <5>1. t_mode'[thistask] = "SHARED"
          <6>1. t_mode'[thistask] \in {"DEDICATED", "SHARED"}
            BY <1>1
          <6> QED  BY <4>1, <6>1, <1>1, Zenon DEF Alone, Born
        <5> QED  BY <4>3, <5>1, <2>4, <3>2
      <4>4. CASE t_size[thistask] # "unset"
        BY <4>2, <4>4, <2>4, <3>2
      <4> QED  BY <4>1, <4>2, <4>3, <4>4
    <3>3. ASSUME p # t, p # to, p # thistask PROVE CanCopy(p)
      BY <3>1, <3>3, <2>4
    <3> QED  BY <2>1, <3>1, <3>2, <3>3
  <2> QED  BY <1>1, <1>2, <2>1, <2>3, <2>4, <2>5, <2>6, <2>7 DEF TeamTypeOK
<1>5. CASE Shares(to)
  <2> DEFINE sizes == SharedSizes(running)
             out == SavedOut(running, prev, g)
  <2>1. /\ t_size' = Resumed(sizes, to)
        /\ got_stack' = [got_stack EXCEPT ![g] = to]
        /\ onstack' = [onstack EXCEPT ![g] = IF child \/ to \in out THEN to ELSE NoTask]
        /\ saved' = IF child THEN out ELSE out \ {to}
    BY <1>5 DEF Restore, SharedSwap
  <2>2. prev # to /\ t_mode'[to] = "SHARED" /\ prev \in Tasks /\ t_team'[prev] = g
    BY <1>5, <1>1 DEF Shares, TeamTypeOK
  <2>3. /\ sizes \in [Tasks -> {"unset", "old", "right"}]
        /\ \A t \in Tasks : t # thistask => sizes[t] = t_size[t]
        /\ state'[thistask] = "alive" => sizes[thistask] = "right"
        /\ t_size[thistask] # "unset" => sizes[thistask] # "unset"
    BY <1>1 DEF SharedSizes, TeamTypeOK, Ended
  <2>4. /\ t_size' \in [Tasks -> {"unset", "old", "right"}]
        /\ \A t \in Tasks : t # to => t_size'[t] = sizes[t]
    <3> HIDE DEF sizes
    <3>1. t_size' = [sizes EXCEPT ![to] = IF sizes[to] = "unset" THEN sizes[to] ELSE "old"]
      BY <2>1 DEF Resumed
    <3> QED  BY <3>1, <2>3
  <2>5. Copies(running, prev) => state'[prev] # "deleted" /\ sizes[prev] # "unset"
    <3> SUFFICES ASSUME Copies(running, prev)
                 PROVE  state'[prev] # "deleted" /\ sizes[prev] # "unset"
      OBVIOUS
    <3>1. CASE prev = thistask
      <4>1. running = thistask
        BY <3>1, <2>2
      <4>2. state'[thistask] = "alive"
        BY <4>1, <3>1, <1>1 DEF Copies, Ended
      <4> QED  BY <3>1, <4>2, <2>3
    <3>2. CASE prev # thistask
      BY <3>2, <2>2, <2>3
    <3> QED  BY <3>1, <3>2
  <2>6. sound'
    BY <1>2, <1>3, <2>5 DEF SoundSwitch
  <2>7. out \subseteq Tasks /\ \A t \in saved : t # prev => t \in out
    BY <2>2 DEF SavedOut, TeamTypeOK
  <2>8. ASSUME NEW t \in Tasks, state'[t] = "alive", t # to, t_team'[t] = g
        PROVE  t_mode'[t] = "SHARED" /\ t \in out
    <3>1. t_mode'[t] = "SHARED"
      <4>1. Born(t)' /\ Born(to)'
        BY <2>8 DEF Born
      <4> QED  BY <2>8, <4>1, <1>1 DEF Alone
    <3>2. CASE t # prev
      <4>1. t # thistask
        BY <2>8, <3>2
      <4>2. t \in saved
        BY <4>1, <2>8, <3>2 DEF FramesKept
      <4> QED  BY <3>1, <3>2, <4>2, <2>7
    <3>3. CASE t = prev
      <4>1. Copies(running, prev) /\ sizes[prev] = "right" /\ onstack[g] = prev
        <5>1. CASE t = thistask
          BY <5>1, <3>3, <2>8, <2>3, <1>1 DEF Copies, Ended
        <5>2. CASE t # thistask
          <6>1. onstack[g] = t /\ t_size[t] = "right"
            BY <5>2, <2>8, <3>1, <3>3 DEF FramesKept
          <6>2. running # prev
            BY <5>2, <3>3, <1>1
          <6> QED  BY <6>1, <6>2, <5>2, <3>3, <2>3 DEF Copies
        <5> QED  BY <5>1, <5>2
      <4> QED  BY <3>1, <3>3, <4>1 DEF SavedOut
    <3> QED  BY <3>2, <3>3
  <2>9. ~ child => to \in out
    BY <1>5, <2>2, <2>7, <1>1 DEF FramesKept
  <2> HIDE DEF sizes, out
  <2>10. /\ got_stack' \in [Tasks -> Tasks] /\ onstack' \in [Tasks -> Tasks \cup {NoTask}]
         /\ saved' \subseteq Tasks
         /\ got_stack'[g] = to /\ onstack'[g] = to
         /\ \A h \in Tasks : h # g => got_stack'[h] = got_stack[h] /\ onstack'[h] = onstack[h]
         /\ \A t \in out : t # to => t \in saved'
    BY <1>1, <2>1, <2>7, <2>9 DEF TeamTypeOK
  <2>11. Running'
    BY <1>1, <1>3, <2>6, <2>10 DEF Running, RunsOnItsFrames
  <2>12. Waiting'
    <3> SUFFICES ASSUME NEW t \in Tasks, state'[t] = "alive", t # to
                 PROVE  t_team'[t] \notin freed' /\ Kept(t)
      BY <1>1 DEF Waiting, FramesKept
    <3>1. t_team'[t] \notin freed'
      BY <1>2
    <3>2. CASE t_team'[t] = g
      BY <3>1, <3>2, <2>8, <2>10
    <3>3. CASE t_team'[t] # g
      <4>1. t # prev
        BY <3>3, <2>2
      <4>2. CASE t = thistask
        BY <3>1, <3>3, <4>2, <2>3, <2>4, <2>10
      <4>3. CASE t # thistask
        <5>1. FramesKept(t, t_mode'[t], t_team'[t])
          BY <4>3
        <5>2. t_size'[t] = t_size[t]
          BY <4>3, <2>3, <2>4
        <5>3. t \in saved => t \in saved'
          BY <4>1, <2>7, <2>10
        <5>4. got_stack'[t_team'[t]] = got_stack[t_team'[t]] /\ onstack'[t_team'[t]] = onstack[t_team'[t]]
          BY <3>3, <2>10
        <5> QED  BY <3>1, <5>1, <5>2, <5>3, <5>4 DEF FramesKept
      <4> QED  BY <4>2, <4>3
    <3> QED  BY <3>1, <3>2, <3>3
  <2>13. Holders'
    <3> SUFFICES ASSUME NEW t \in Tasks, state'[t] = "alive"
                 PROVE  LET p == got_stack'[t_team'[t]]
                        IN  /\ t_team'[p] = t_team'[t] /\ state'[p] # "unborn"
                            /\ p # t /\ p # to => CanCopy(p)
      BY <1>1 DEF Holders, Copyable, Born
    <3>1. CASE t_team'[t] = g
      BY <3>1, <2>10 DEF Born
    <3>2. CASE t_team'[t] # g
      <4> DEFINE p == got_stack[t_team'[t]]
      <4>1. /\ t_team'[p] = t_team'[t] /\ state'[p] # "unborn" /\ p \in Tasks
            /\ p # t /\ p # thistask => state'[p] \in {"alive", "terminated"} /\ t_size[p] # "unset"
        BY DEF TeamTypeOK, Born
      <4>2. ASSUME p # t, p # to, p = thistask PROVE CanCopy(p)
        <5>1. t # thistask /\ t_team'[t] = t_team'[thistask] /\ t_team'[to] # t_team'[thistask]
          BY <4>1, <4>2, <3>2
        <5>2. running = thistask /\ (state'[thistask] = "alive" \/ t_size[thistask] # "unset")
          BY <5>1
        <5>3. CASE state'[thistask] = "alive"
          BY <5>3, <4>2, <2>3, <2>4, <1>1
        <5>4. CASE t_size[thistask] # "unset"
          BY <5>2, <5>4, <4>2, <2>3, <2>4, <1>1
        <5> QED  BY <5>2, <5>3, <5>4
      <4>3. ASSUME p # t, p # to, p # thistask PROVE CanCopy(p)
        BY <4>1, <4>3, <2>3, <2>4
      <4>4. got_stack'[t_team'[t]] = p
        BY <3>2, <2>10
      <4> QED  BY <4>1, <4>2, <4>3, <4>4
    <3> QED  BY <3>1, <3>2
  <2> QED  BY <1>1, <1>2, <2>4, <2>6, <2>10, <2>11, <2>12, <2>13 DEF TeamTypeOK
<1> QED  BY <1>4, <1>5

-----------------------------------------------------------------------------
(* The members of a team are counted.                                      *)
LEMMA MembersFinite ==
  ASSUME TeamAssumption, NEW g
  PROVE  IsFiniteSet(Members(g)) /\ Cardinality(Members(g)) \in Nat
<1>1. IsFiniteSet(Members(g))
  BY FS_Subset DEF Members, TeamAssumption
<1> QED  BY <1>1, FS_CardinalityType

(* The count is one when the task is the last, of a team but main's.       *)
LEMMA LastOne ==
  ASSUME TeamAssumption, TeamInv, NEW t \in Tasks, state[t] = "alive"
  PROVE  LastOf(t) <=> Members(t_team[t]) = {t} /\ t_team[t] # Main
<1> DEFINE g == t_team[t]
           n == Cardinality(Members(g))
<1>1. g \in Tasks /\ Made(g)
  BY DEF TeamInv, TeamTypeOK, Homes, Born
<1>2. no_of_tasks[g] = n + (IF g = Main THEN 1 ELSE 0)
  BY <1>1 DEF TeamInv, Counted
<1>3. t \in Members(g)
  BY DEF Members
<1> HIDE DEF g
<1>4. IsFiniteSet(Members(g)) /\ n \in Nat
  BY MembersFinite
<1>5. n # 0
  BY <1>3, <1>4, FS_EmptySet
<1>6. n = 1 <=> \E x : Members(g) = {x}
  BY <1>4, FS_Singleton
<1>7. n = 1 <=> Members(g) = {t}
  BY <1>3, <1>6
<1> HIDE DEF n
<1>8. LastOf(t) <=> no_of_tasks[g] = 1
  BY DEF LastOf, g
<1>9. CASE g = Main
  BY <1>2, <1>4, <1>5, <1>8, <1>9 DEF g
<1>10. CASE g # Main
  BY <1>2, <1>4, <1>7, <1>8, <1>10 DEF g
<1> QED  BY <1>9, <1>10

(* A task that ends is taken from the count of its team.                   *)
LEMMA Ending ==
  ASSUME TeamAssumption, TeamInv, NEW t \in Tasks, Terminated(t)
  PROVE  /\ no_of_tasks' \in [Tasks -> Int]
         /\ \A g : Members(g)' = Members(g) \ {t}
         /\ Counted'
<1>1. /\ state[t] = "alive" /\ t_team' = t_team
      /\ \A u \in Tasks : state'[u] = IF u = t THEN "terminated" ELSE state[u]
      /\ no_of_tasks' = [no_of_tasks EXCEPT ![t_team[t]] = no_of_tasks[t_team[t]] - 1]
  BY DEF Terminated, TeamInv, TeamTypeOK
<1>2. \A g : Members(g)' = Members(g) \ {t}
  BY <1>1 DEF Members
<1>3. /\ no_of_tasks' \in [Tasks -> Int] /\ t_team[t] \in Tasks
      /\ \A g \in Tasks : no_of_tasks'[g] = IF g = t_team[t] THEN no_of_tasks[g] - 1 ELSE no_of_tasks[g]
  BY <1>1 DEF TeamInv, TeamTypeOK
<1>4. Counted'
  <2> SUFFICES ASSUME NEW g \in Tasks, Made(g)'
               PROVE  no_of_tasks'[g] = Cardinality(Members(g)') + (IF g = Main THEN 1 ELSE 0)
    BY DEF Counted
  <2>1. Made(g)
    BY <1>1 DEF Made, Born
  <2>2. no_of_tasks[g] = Cardinality(Members(g)) + (IF g = Main THEN 1 ELSE 0)
    BY <2>1 DEF TeamInv, Counted
  <2>3. Members(g)' = Members(g) \ {t}
    BY <1>2
  <2>4. IsFiniteSet(Members(g)) /\ Cardinality(Members(g)) \in Nat
    BY MembersFinite
  <2>5. t \in Members(g) <=> g = t_team[t]
    BY <1>1 DEF Members
  <2>6. Cardinality(Members(g) \ {t}) =
          IF t \in Members(g) THEN Cardinality(Members(g)) - 1 ELSE Cardinality(Members(g))
    BY <2>4, FS_RemoveElement
  <2> DEFINE n == Cardinality(Members(g))
  <2> HIDE DEF n
  <2> QED  BY <1>3, <2>2, <2>3, <2>4, <2>5, <2>6 DEF n
<1> QED  BY <1>2, <1>3, <1>4

(* The team that pends is there and has no tasks.                          *)
LEMMA Pending ==
  ASSUME TeamAssumption, TeamInv
  PROVE  /\ state[thistask] = "alive" => team_to_delete = NoTask
         /\ team_to_delete # NoTask => /\ team_to_delete \in Tasks \ {Main}
                                      /\ Made(team_to_delete)
                                      /\ Members(team_to_delete) = {}
         /\ team_to_delete \notin freed
<1>1. state[thistask] = "alive" => team_to_delete = NoTask
  BY DEF TeamInv, Pended
<1>2. ASSUME team_to_delete # NoTask
      PROVE  /\ team_to_delete \in Tasks \ {Main} /\ Made(team_to_delete)
             /\ Members(team_to_delete) = {}
  <2>1. team_to_delete \in Tasks \ {Main}
    BY <1>2 DEF TeamInv, TeamTypeOK
  <2>2. Made(team_to_delete)
    BY <2>1 DEF TeamInv, Unmade
  <2> QED  BY <2>1, <2>2 DEF TeamInv, StacksFreedInTime, Made
<1> QED  BY <1>1, <1>2 DEF TeamInv, Pended

-----------------------------------------------------------------------------
(* A call that gives up the processor keeps the invariant.                 *)
LEMMA Moving ==
  ASSUME TeamAssumption, TeamInv,
         NEW running \in {thistask, NoTask}, NEW to \in Tasks, NEW child \in BOOLEAN,
         NEW pending \in Tasks \cup {NoTask},
         Ready(running, to, child, pending),
         Restore(running, to, child, pending),
         Homes', Unborn', Counted', Born(Main)', pending # Main,
         \A h \in Tasks : ~ Made(h)' =>
           ~ Made(h) /\ no_of_tasks'[h] = no_of_tasks[h] /\ h # pending,
         \A h \in Tasks \ {Main} : Made(h)' =>
           (h \in freed \cup {pending} <=> Members(h)' = {})
  PROVE  TeamInv'
<1>1. TeamTypeOK' /\ Running' /\ Waiting' /\ Holders'
  BY Switching DEF TeamInv
<1>2. team_to_delete' = NoTask /\ freed' = freed \cup ({pending} \ {NoTask})
  BY DEF Restore, Ready
<1> DEFINE to_team == t_team'[to]
<1>3. /\ to_team \in Tasks /\ state'[to_team] # "unborn" /\ t_team'[to_team] = to_team
      /\ \A h \in Tasks : h # t_team'[to] =>
           got_stack'[h] = got_stack[h] /\ onstack'[h] = onstack[h]
  <2>1. t_team'[to] \in Tasks /\ state'[to] = "alive"
    BY DEF Ready
  <2>2. state'[to_team] # "unborn" /\ t_team'[to_team] = to_team
    BY <2>1 DEF Homes, Made, Born
  <2>3. \A h \in Tasks : h # t_team'[to] =>
           got_stack'[h] = got_stack[h] /\ onstack'[h] = onstack[h]
    BY DEF Restore, SharedSwap, Swap, TeamInv, TeamTypeOK
  <2> QED  BY <2>1, <2>2, <2>3
<1>4. Unmade'
  <2> SUFFICES ASSUME NEW h \in Tasks, ~ Made(h)'
               PROVE  /\ no_of_tasks'[h] = 1 /\ got_stack'[h] = h /\ onstack'[h] = h
                      /\ h \notin freed' /\ h # team_to_delete'
    BY DEF Unmade
  <2>1. ~ Made(h) /\ no_of_tasks'[h] = no_of_tasks[h] /\ h # pending /\ h # t_team'[to]
    BY <1>3 DEF Made, Born
  <2>2. no_of_tasks[h] = 1 /\ got_stack[h] = h /\ onstack[h] = h /\ h \notin freed
    BY <2>1 DEF TeamInv, Unmade
  <2>3. h # NoTask
    BY DEF TeamAssumption
  <2> QED  BY <1>2, <1>3, <2>1, <2>2, <2>3
<1>5. StacksFreedInTime'
  <2> SUFFICES ASSUME NEW h \in Tasks \ {Main}, Made(h)'
               PROVE  h \in freed' \cup {team_to_delete'} <=> Members(h)' = {}
    BY DEF StacksFreedInTime, Made
  <2>1. h # NoTask
    BY DEF TeamAssumption
  <2> QED  BY <1>2, <2>1
<1>6. Pended'
  BY <1>1, <1>2 DEF Pended, TeamInv, TeamTypeOK, TeamAssumption
<1>7. Main \notin freed' \cup {team_to_delete'}
  BY <1>2 DEF TeamInv, TeamAssumption
<1>8. Alone'
  BY DEF Ready
<1> QED  BY <1>1, <1>4, <1>5, <1>6, <1>7, <1>8 DEF TeamInv

(* What holds of a call that gives up the processor and makes no task.     *)
Leaves(running, to, pending) ==
  /\ Restore(running, to, FALSE, pending)
  /\ t_mode' = t_mode /\ t_team' = t_team
  /\ no_of_tasks' \in [Tasks -> Int] /\ Counted'
  /\ \A h \in Tasks : ~ Made(h) => no_of_tasks'[h] = no_of_tasks[h]
  /\ state' \in [Tasks -> {"unborn", "alive", "terminated", "deleted"}]
  /\ \A t \in Tasks : t # thistask => state'[t] = state[t]
  /\ state'[thistask] # "unborn"
  /\ state'[thistask] = "alive" => state[thistask] = "alive"
  /\ to # thistask /\ state[to] = "alive"
  /\ \/ running = thistask /\ state'[thistask] # "deleted" /\ ~ EndsFresh(thistask, to)
     \/ /\ running = NoTask /\ state'[thistask] # "alive"
        /\ \A t \in Tasks : state'[t] = "alive" => t_team[t] # t_team[thistask]
  /\ pending # Main /\ pending \notin freed /\ team_to_delete \in {NoTask, pending}
  /\ pending # NoTask => Made(pending)
  /\ \A h \in Tasks \ {Main} : Made(h) =>
       (h \in freed \cup {pending} <=> Members(h)' = {})

LEMMA Leaving ==
  ASSUME TeamAssumption, TeamInv,
         NEW running \in {thistask, NoTask}, NEW to \in Tasks,
         NEW pending \in Tasks \cup {NoTask},
         Leaves(running, to, pending)
  PROVE  TeamInv'
<1> USE DEF Leaves
<1>1. thistask \in Tasks /\ thistask # NoTask /\ state[thistask] # "unborn"
  BY DEF TeamInv, TeamTypeOK, Running, TeamAssumption
<1>2. \A t \in Tasks : (Born(t)' <=> Born(t)) /\ (state'[t] = "alive" => state[t] = "alive")
  BY <1>1 DEF Born
<1>3. \A h : Made(h)' <=> (state'[h] # "unborn" /\ t_team[h] = h)
  BY DEF Made, Born
<1>4. \A h \in Tasks : Made(h)' <=> Made(h)
  BY <1>2, <1>3 DEF Made, Born
<1>5. ASSUME NEW t \in Tasks, state'[t] = "alive"
      PROVE  t_team[t] \in Tasks /\ t_team[t] \notin freed \cup {pending}
  <2>1. t_team[t] \in Tasks /\ Made(t_team[t])
    BY <1>2, <1>5 DEF TeamInv, TeamTypeOK, Homes, Born
  <2>2. Main \notin freed \cup {pending}
    BY DEF TeamInv
  <2>3. t \in Members(t_team[t])'
    BY <1>5 DEF Members
  <2> QED  BY <2>1, <2>2, <2>3
<1>6. Alone' /\ Homes' /\ Unborn' /\ Born(Main)'
  <2>1. \A t \in Tasks : Born(t)' <=> Born(t)
    BY <1>2
  <2>2. Alone'
    BY <2>1 DEF TeamInv, Alone
  <2>3. Homes'
    <3>1. \A t \in Tasks : t_team[t] \in Tasks
      BY DEF TeamInv, TeamTypeOK
    <3> QED  BY <1>4, <2>1, <3>1 DEF TeamInv, Homes, Made, Born
  <2>4. Unborn'
    <3>1. \A t \in Tasks : ~ Born(t)' =>
            t # to /\ t # thistask /\ t_size[t] = "unset"
            /\ t_team'[t] = t /\ t_mode'[t] = "DEDICATED"
      BY <1>1, <2>1 DEF TeamInv, Unborn, Born
    <3>2. \A t \in Tasks : t # to /\ t # thistask => t_size'[t] = t_size[t]
      <4>1. CASE running = thistask
        BY <4>1, <1>1 DEF Restore, SharedSwap, Swap, Resumed, Sizes, SharedSizes, TeamInv, TeamTypeOK
      <4>2. CASE running = NoTask
        BY <4>2, <1>1 DEF Restore, SharedSwap, Swap, Resumed, Sizes, SharedSizes, Ended, TeamInv, TeamTypeOK
      <4> QED  BY <4>1, <4>2
    <3> QED  BY <3>1, <3>2 DEF Unborn
  <2>5. Born(Main)'
    BY <2>1 DEF TeamInv, TeamAssumption
  <2> QED  BY <2>2, <2>3, <2>4, <2>5
<1>7. Ready(running, to, FALSE, pending)
  <2>1. /\ state'[to] = "alive" /\ state'[thistask] # "unborn"
        /\ running = thistask => state'[thistask] \in {"alive", "terminated"}
    BY <1>1
  <2>2. state'[thistask] = "alive" =>
          running = thistask /\ t_team'[thistask] \notin freed \cup {pending}
    BY <1>1, <1>5
  <2>3. got_stack[t_team'[thistask]] = thistask /\ onstack[t_team'[thistask]] = thistask
    BY DEF TeamInv, Running, RunsOnItsFrames
  <2>4. \A t \in Tasks : state'[t] = "alive" /\ t # thistask =>
          t_team'[t] \notin freed \cup {pending} /\ FramesKept(t, t_mode'[t], t_team'[t])
    <3> SUFFICES ASSUME NEW t \in Tasks, state'[t] = "alive", t # thistask
                 PROVE  t_team'[t] \notin freed \cup {pending} /\ FramesKept(t, t_mode'[t], t_team'[t])
      OBVIOUS
    <3>1. FramesKept(t, t_mode[t], t_team[t])
      BY <1>2 DEF TeamInv, Waiting
    <3> QED  BY <1>5, <3>1
  <2>5. ASSUME NEW t \in Tasks, state'[t] = "alive", NEW p, p = got_stack[t_team[t]]
        PROVE  /\ t_team[p] = t_team[t] /\ p \in Tasks /\ state'[p] # "unborn"
               /\ p # t /\ p # thistask =>
                    state'[p] \in {"alive", "terminated"} /\ t_size[p] # "unset"
    <3>1. p \in Tasks
      BY <2>5 DEF TeamInv, TeamTypeOK
    <3>2. /\ t_team[p] = t_team[t] /\ Born(p)
          /\ p # t /\ p # thistask => Copyable(p)
      BY <1>2, <2>5 DEF TeamInv, Holders
    <3> QED  BY <1>2, <3>1, <3>2 DEF Copyable, Born
  <2>6. \A t \in Tasks : state'[t] = "alive" =>
          LET p == got_stack[t_team'[t]]
          IN  /\ t_team'[p] = t_team'[t] /\ state'[p] # "unborn"
              /\ p # t /\ p # thistask =>
                   state'[p] \in {"alive", "terminated"} /\ t_size[p] # "unset"
    BY <2>5
  <2>7. \A t \in Tasks : state'[t] = "alive" /\ t # thistask /\ t_team'[t] = t_team'[thistask] =>
          /\ running = thistask
          /\ \/ state'[thistask] = "alive" \/ t_size[thistask] # "unset"
             \/ t_team'[to] = t_team'[thistask]
    <3> SUFFICES ASSUME NEW t \in Tasks, state'[t] = "alive", t_team[t] = t_team[thistask]
                 PROVE  /\ running = thistask
                        /\ \/ state'[thistask] = "alive" \/ t_size[thistask] # "unset"
                           \/ t_team[to] = t_team[thistask]
      OBVIOUS
    <3>2. running = thistask /\ ~ EndsFresh(thistask, to)
      OBVIOUS
    <3>3. got_stack[t_team[thistask]] = thistask
      BY DEF TeamInv, Running
    <3> QED  BY <1>1, <3>2, <3>3 DEF EndsFresh
  <2>8. sound
    BY DEF TeamInv, Running, RunsOnItsFrames
  <2> QED  BY <1>6, <2>1, <2>2, <2>3, <2>4, <2>6, <2>7, <2>8 DEF Ready, TeamInv, TeamTypeOK
<1>8. /\ \A h \in Tasks : ~ Made(h)' =>
           ~ Made(h) /\ no_of_tasks'[h] = no_of_tasks[h] /\ h # pending
      /\ \A h \in Tasks \ {Main} : Made(h)' =>
           (h \in freed \cup {pending} <=> Members(h)' = {})
  BY <1>4 DEF TeamAssumption
<1> QED  BY <1>6, <1>7, <1>8, Moving

(* The end of a task leaves nobody in its team just when it was the last.  *)
LEMMA Emptied ==
  ASSUME TeamAssumption, TeamInv, NEW t \in Tasks, Terminated(t)
  PROVE  /\ t_team[t] \in Tasks /\ Made(t_team[t])
         /\ t_team[t] \notin freed /\ t_team[t] # team_to_delete
         /\ LastOf(t) => t_team[t] # Main
         /\ \A h \in Tasks \ {Main} : Made(h) =>
              (Members(h)' = {} <=>
                 h \in freed \cup {team_to_delete} \/ (LastOf(t) /\ h = t_team[t]))
<1> DEFINE g == t_team[t]
<1>1. state[t] = "alive" /\ t \in Members(g)
  BY DEF Terminated, Members
<1>2. g \in Tasks /\ Made(g)
  BY <1>1 DEF TeamInv, TeamTypeOK, Homes, Born
<1>3. g \notin freed
  BY <1>1 DEF TeamInv, Running, RunsOnItsFrames, Waiting
<1>4. g # team_to_delete
  BY <1>1, <1>2, Pending DEF TeamAssumption
<1>5. LastOf(t) <=> Members(g) = {t} /\ g # Main
  BY <1>1, LastOne
<1>6. ASSUME NEW h \in Tasks \ {Main}, Made(h)
      PROVE  Members(h)' = {} <=>
               h \in freed \cup {team_to_delete} \/ (LastOf(t) /\ h = g)
  <2>1. Members(h)' = Members(h) \ {t}
    BY Ending
  <2>2. h \in freed \cup {team_to_delete} <=> Members(h) = {}
    BY <1>6 DEF TeamInv, StacksFreedInTime, Made
  <2>3. CASE h = g
    BY <1>1, <1>3, <1>4, <1>5, <2>1, <2>3
  <2>4. CASE h # g
    <3>1. t \notin Members(h)
      BY <2>4 DEF Members
    <3> QED  BY <2>1, <2>2, <2>4, <3>1
  <2> QED  BY <2>3, <2>4
<1> QED  BY <1>2, <1>3, <1>4, <1>5, <1>6

-----------------------------------------------------------------------------
(* One lemma for each action.                                              *)
LEMMA GivingUp ==
  ASSUME TeamAssumption, Careless = {}, TeamInv, NEW to \in Tasks, GiveUp(to)
  PROVE  TeamInv'
<1>1. /\ state' = state /\ t_mode' = t_mode /\ t_team' = t_team /\ no_of_tasks' = no_of_tasks
      /\ to # thistask /\ state[to] = "alive" /\ ~ EndsFresh(thistask, to)
      /\ Restore(thistask, to, FALSE, team_to_delete)
  BY DEF GiveUp, MayResume
<1>2. \A h : Members(h)' = Members(h)
  BY <1>1 DEF Members
<1>3. Counted'
  BY <1>1, <1>2 DEF TeamInv, Counted, Made, Born
<1>4. /\ team_to_delete \in Tasks \cup {NoTask} /\ team_to_delete # Main
      /\ team_to_delete \notin freed
      /\ team_to_delete # NoTask => Made(team_to_delete)
  BY Pending DEF TeamInv, TeamTypeOK
<1>5. \A h \in Tasks \ {Main} : Made(h) =>
        (h \in freed \cup {team_to_delete} <=> Members(h)' = {})
  BY <1>2 DEF TeamInv, StacksFreedInTime, Made
<1>6. state \in [Tasks -> {"unborn", "alive", "terminated", "deleted"}]
      /\ no_of_tasks \in [Tasks -> Int] /\ state[thistask] \in {"alive", "terminated"}
  BY DEF TeamInv, TeamTypeOK, Running
<1>7. Leaves(thistask, to, team_to_delete)
  BY <1>1, <1>3, <1>4, <1>5, <1>6 DEF Leaves
<1> QED  BY <1>4, <1>7, Leaving

LEMMA Resulting ==
  ASSUME TeamAssumption, Careless = {}, TeamInv, NEW to \in Tasks, ResultIs(to)
  PROVE  TeamInv'
<1> DEFINE pending == Pends
<1>1. /\ Terminated(thistask) /\ thistask \in Tasks
      /\ to # thistask /\ state'[to] = "alive" /\ ~ EndsFresh(thistask, to)
      /\ Restore(thistask, to, FALSE, pending)
  BY DEF ResultIs, MayResume, TeamInv, TeamTypeOK
<1>2. /\ t_mode' = t_mode /\ t_team' = t_team
      /\ state[thistask] = "alive"
      /\ state' = [state EXCEPT ![thistask] = "terminated"]
      /\ no_of_tasks' = [no_of_tasks EXCEPT ![t_team[thistask]] = no_of_tasks[t_team[thistask]] - 1]
  BY <1>1 DEF Terminated
<1>3. /\ state' \in [Tasks -> {"unborn", "alive", "terminated", "deleted"}]
      /\ \A t \in Tasks : t # thistask => state'[t] = state[t]
      /\ state'[thistask] = "terminated"
  BY <1>1, <1>2 DEF TeamInv, TeamTypeOK
<1>4. no_of_tasks' \in [Tasks -> Int] /\ Counted'
  BY <1>1, Ending
<1>5. team_to_delete = NoTask
  BY <1>2, Pending
<1>6. /\ t_team[thistask] \in Tasks /\ Made(t_team[thistask])
      /\ t_team[thistask] \notin freed
      /\ LastOf(thistask) => t_team[thistask] # Main
      /\ \A h \in Tasks \ {Main} : Made(h) =>
           (Members(h)' = {} <=>
              h \in freed \cup {team_to_delete} \/ (LastOf(thistask) /\ h = t_team[thistask]))
  BY <1>1, Emptied
<1>7. /\ pending \in Tasks \cup {NoTask} /\ pending # Main /\ pending \notin freed
      /\ team_to_delete \in {NoTask, pending}
      /\ pending # NoTask => Made(pending)
  BY <1>5, <1>6 DEF Pends, TeamAssumption, TeamInv, TeamTypeOK
<1>8. \A h \in Tasks \ {Main} : Made(h) => (h \in freed \cup {pending} <=> Members(h)' = {})
  BY <1>5, <1>6 DEF Pends, TeamAssumption
<1>9. \A h \in Tasks : ~ Made(h) => no_of_tasks'[h] = no_of_tasks[h]
  BY <1>2, <1>6 DEF TeamInv, TeamTypeOK
<1> HIDE DEF pending
<1>10. Leaves(thistask, to, pending)
  BY <1>1, <1>2, <1>3, <1>4, <1>7, <1>8, <1>9 DEF Leaves
<1> QED  BY <1>7, <1>10, Leaving

LEMMA DeletingThis ==
  ASSUME TeamAssumption, Careless = {}, TeamInv, NEW to \in Tasks, DeleteThis(to)
  PROVE  TeamInv'
<1>1. /\ t_mode' = t_mode /\ t_team' = t_team /\ no_of_tasks' = no_of_tasks
      /\ state' = [state EXCEPT ![thistask] = "deleted"]
      /\ to # thistask /\ state'[to] = "alive"
      /\ Restore(NoTask, to, FALSE, team_to_delete)
      /\ state[thistask] = "terminated" /\ MayDelete(thistask)
  BY DEF DeleteThis, MayResume, MayDelete
<1>2. thistask \in Tasks /\ got_stack[t_team[thistask]] = thistask
  BY DEF TeamInv, TeamTypeOK, Running
<1>3. /\ state' \in [Tasks -> {"unborn", "alive", "terminated", "deleted"}]
      /\ \A t \in Tasks : t # thistask => state'[t] = state[t]
      /\ state'[thistask] = "deleted"
  BY <1>1, <1>2 DEF TeamInv, TeamTypeOK
<1>4. \A h : Members(h)' = Members(h)
  BY <1>1, <1>2, <1>3 DEF Members
<1>5. \A t \in Tasks : state'[t] = "alive" => t_team[t] # t_team[thistask]
  <2>1. Members(t_team[thistask]) = {}
    BY <1>1, <1>2 DEF MayDelete
  <2> QED  BY <1>1, <1>3, <2>1 DEF Members
<1>6. Counted'
  BY <1>1, <1>2, <1>3, <1>4 DEF TeamInv, Counted, Made, Born
<1>7. /\ team_to_delete \in Tasks \cup {NoTask} /\ team_to_delete # Main
      /\ team_to_delete \notin freed
      /\ team_to_delete # NoTask => Made(team_to_delete)
  BY Pending DEF TeamInv, TeamTypeOK
<1>8. \A h \in Tasks \ {Main} : Made(h) =>
        (h \in freed \cup {team_to_delete} <=> Members(h)' = {})
  BY <1>4 DEF TeamInv, StacksFreedInTime, Made
<1>9. no_of_tasks \in [Tasks -> Int]
  BY DEF TeamInv, TeamTypeOK
<1>10. Leaves(NoTask, to, team_to_delete)
  BY <1>1, <1>3, <1>5, <1>6, <1>7, <1>8, <1>9 DEF Leaves
<1> QED  BY <1>7, <1>10, Leaving

LEMMA CancellingThis ==
  ASSUME TeamAssumption, TeamInv, CancelThis
  PROVE  TeamInv'
<1>1. /\ Terminated(thistask) /\ thistask \in Tasks /\ state[thistask] = "alive"
      /\ t_mode' = t_mode /\ t_team' = t_team /\ thistask' = thistask
      /\ t_size' = t_size /\ saved' = saved /\ got_stack' = got_stack
      /\ onstack' = onstack /\ freed' = freed
      /\ team_to_delete' = Pends
      /\ sound' = (sound /\ (LastOf(thistask) => team_to_delete = NoTask))
      /\ state' = [state EXCEPT ![thistask] = "terminated"]
      /\ no_of_tasks' = [no_of_tasks EXCEPT ![t_team[thistask]] = no_of_tasks[t_team[thistask]] - 1]
  BY DEF CancelThis, Terminated, TeamInv, TeamTypeOK
<1>2. /\ state' \in [Tasks -> {"unborn", "alive", "terminated", "deleted"}]
      /\ \A t \in Tasks : t # thistask => state'[t] = state[t]
      /\ state'[thistask] = "terminated"
      /\ \A t \in Tasks : Born(t)' <=> Born(t)
  BY <1>1 DEF TeamInv, TeamTypeOK, Born
<1>3. no_of_tasks' \in [Tasks -> Int] /\ Counted'
  BY <1>1, Ending
<1>4. team_to_delete = NoTask
  BY <1>1, Pending
<1>5. /\ t_team[thistask] \in Tasks /\ Made(t_team[thistask])
      /\ t_team[thistask] \notin freed
      /\ LastOf(thistask) => t_team[thistask] # Main
      /\ \A h \in Tasks \ {Main} : Made(h) =>
           (Members(h)' = {} <=>
              h \in freed \cup {team_to_delete} \/ (LastOf(thistask) /\ h = t_team[thistask]))
  BY <1>1, Emptied
<1>6. \A h \in Tasks : Made(h)' <=> Made(h)
  BY <1>1, <1>2 DEF Made
<1>7. TeamTypeOK'
  <2>1. Pends \in Tasks \cup {NoTask}
    BY <1>4, <1>5 DEF Pends
  <2> QED  BY <1>1, <1>2, <1>3, <2>1 DEF TeamInv, TeamTypeOK
<1>8. Running'
  BY <1>1, <1>2, <1>4 DEF TeamInv, Running, RunsOnItsFrames
<1>9. Waiting'
  BY <1>1, <1>2 DEF TeamInv, Waiting, FramesKept
<1>10. Holders'
  <2> SUFFICES ASSUME NEW t \in Tasks, state'[t] = "alive", NEW p, p = got_stack[t_team[t]]
               PROVE  /\ t_team[p] = t_team[t] /\ state'[p] # "unborn"
                      /\ p # t /\ p # thistask => state'[p] \in {"alive", "terminated"} /\ t_size[p] # "unset"
    BY <1>1 DEF Holders, Copyable, Born
  <2>1. t_team[t] \in Tasks /\ p \in Tasks /\ state[t] = "alive"
    BY <1>1, <1>2 DEF TeamInv, TeamTypeOK
  <2>2. t_team[p] = t_team[t] /\ Born(p) /\ (p # t /\ p # thistask => Copyable(p))
    BY <2>1 DEF TeamInv, Holders
  <2> QED  BY <1>2, <2>1, <2>2 DEF Copyable, Born
<1>11. Alone' /\ Homes' /\ Unborn' /\ Born(Main)'
  <2>1. Alone'
    BY <1>1, <1>2 DEF TeamInv, Alone
  <2>2. Homes'
    <3>1. \A t \in Tasks : t_team[t] \in Tasks
      BY DEF TeamInv, TeamTypeOK
    <3> QED  BY <1>1, <1>2, <1>6, <3>1 DEF TeamInv, Homes, Made
  <2>3. Unborn' /\ Born(Main)'
    BY <1>1, <1>2 DEF TeamInv, Unborn, TeamAssumption
  <2> QED  BY <2>1, <2>2, <2>3
<1>12. /\ Main \notin freed' \cup {team_to_delete'}
       /\ team_to_delete' \notin freed
       /\ team_to_delete' # NoTask => LastOf(thistask) /\ team_to_delete' = t_team[thistask]
       /\ LastOf(thistask) => team_to_delete' = t_team[thistask]
  BY <1>1, <1>4, <1>5 DEF Pends, TeamInv, TeamTypeOK, TeamAssumption
<1>13. Unmade'
  <2> SUFFICES ASSUME NEW h \in Tasks, ~ Made(h)
               PROVE  /\ no_of_tasks'[h] = 1 /\ got_stack[h] = h /\ onstack[h] = h
                      /\ h \notin freed /\ h # team_to_delete'
    BY <1>1, <1>6 DEF Unmade
  <2>1. no_of_tasks[h] = 1 /\ got_stack[h] = h /\ onstack[h] = h /\ h \notin freed
    BY DEF TeamInv, Unmade
  <2>2. h # t_team[thistask] /\ h # NoTask
    BY <1>5 DEF TeamAssumption
  <2>3. no_of_tasks'[h] = no_of_tasks[h]
    BY <1>1, <2>2 DEF TeamInv, TeamTypeOK
  <2> QED  BY <2>1, <2>2, <2>3, <1>12
<1>14. StacksFreedInTime'
  <2> SUFFICES ASSUME NEW h \in Tasks \ {Main}, Made(h)'
               PROVE  h \in freed \cup {team_to_delete'} <=> Members(h)' = {}
    BY <1>1 DEF StacksFreedInTime, Made
  <2>1. h # NoTask /\ Made(h)
    BY <1>6 DEF TeamAssumption
  <2> QED  BY <1>4, <1>5, <1>12, <2>1
<1>15. Pended'
  BY <1>1, <1>2, <1>12 DEF Pended
<1> QED  BY <1>3, <1>7, <1>8, <1>9, <1>10, <1>11, <1>12, <1>13, <1>14, <1>15 DEF TeamInv

LEMMA CancellingOther ==
  ASSUME TeamAssumption, Careless = {}, TeamInv, NEW t \in Tasks, CancelOther(t)
  PROVE  TeamInv'
<1>1. /\ Terminated(t) /\ state[t] = "alive" /\ t # thistask
      /\ t_mode' = t_mode /\ t_team' = t_team /\ thistask' = thistask
      /\ t_size' = t_size /\ saved' = saved /\ got_stack' = got_stack
      /\ onstack' = onstack /\ team_to_delete' = team_to_delete
      /\ freed' = IF LastOf(t) THEN freed \cup {t_team[t]} ELSE freed
      /\ sound' = (sound /\ (LastOf(t) => t_team[t] \notin freed))
      /\ state' = [state EXCEPT ![t] = "terminated"]
      /\ no_of_tasks' = [no_of_tasks EXCEPT ![t_team[t]] = no_of_tasks[t_team[t]] - 1]
      /\ state[thistask] = "alive" \/ t_team[t] # t_team[thistask]
  BY DEF CancelOther, Terminated
<1>2. /\ state' \in [Tasks -> {"unborn", "alive", "terminated", "deleted"}]
      /\ \A u \in Tasks : u # t => state'[u] = state[u]
      /\ state'[t] = "terminated" /\ thistask \in Tasks
      /\ \A u \in Tasks : Born(u)' <=> Born(u)
  BY <1>1 DEF TeamInv, TeamTypeOK, Born
<1>3. no_of_tasks' \in [Tasks -> Int] /\ Counted'
  BY <1>1, Ending
<1>4. /\ t_team[t] \in Tasks /\ Made(t_team[t])
      /\ t_team[t] \notin freed /\ t_team[t] # team_to_delete
      /\ LastOf(t) => t_team[t] # Main
      /\ \A h \in Tasks \ {Main} : Made(h) =>
           (Members(h)' = {} <=>
              h \in freed \cup {team_to_delete} \/ (LastOf(t) /\ h = t_team[t]))
  BY <1>1, Emptied
<1>5. \A u \in Tasks : state[u] = "alive" /\ u # t /\ LastOf(t) => t_team[u] # t_team[t]
  <2>1. LastOf(t) => Members(t_team[t]) = {t}
    BY <1>1, LastOne
  <2> QED  BY <2>1 DEF Members
<1>6. \A h \in Tasks : Made(h)' <=> Made(h)
  BY <1>1, <1>2 DEF Made
<1>7. TeamTypeOK'
  BY <1>1, <1>2, <1>3, <1>4 DEF TeamInv, TeamTypeOK
<1>8. Running'
  <2>1. t_team[thistask] \notin freed'
    BY <1>1, <1>2, <1>5 DEF TeamInv, Running, RunsOnItsFrames
  <2> QED  BY <1>1, <1>2, <1>4, <2>1 DEF TeamInv, Running, RunsOnItsFrames
<1>9. Waiting'
  <2> SUFFICES ASSUME NEW u \in Tasks, state'[u] = "alive", u # thistask
               PROVE  t_team[u] \notin freed' /\ FramesKept(u, t_mode[u], t_team[u])
    BY <1>1 DEF Waiting, FramesKept
  <2>1. u # t /\ state[u] = "alive"
    BY <1>2
  <2>2. t_team[u] \notin freed /\ FramesKept(u, t_mode[u], t_team[u])
    BY <2>1 DEF TeamInv, Waiting
  <2> QED  BY <1>1, <1>5, <2>1, <2>2
<1>10. Holders'
  <2> SUFFICES ASSUME NEW u \in Tasks, state'[u] = "alive", NEW p, p = got_stack[t_team[u]]
               PROVE  /\ t_team[p] = t_team[u] /\ state'[p] # "unborn"
                      /\ p # u /\ p # thistask => state'[p] \in {"alive", "terminated"} /\ t_size[p] # "unset"
    BY <1>1 DEF Holders, Copyable, Born
  <2>1. t_team[u] \in Tasks /\ p \in Tasks /\ state[u] = "alive"
    BY <1>1, <1>2 DEF TeamInv, TeamTypeOK
  <2>2. t_team[p] = t_team[u] /\ Born(p) /\ (p # u /\ p # thistask => Copyable(p))
    BY <2>1 DEF TeamInv, Holders
  <2> QED  BY <1>2, <2>1, <2>2 DEF Copyable, Born
<1>11. Alone' /\ Homes' /\ Unborn' /\ Born(Main)'
  <2>1. Alone'
    BY <1>1, <1>2 DEF TeamInv, Alone
  <2>2. Homes'
    <3>1. \A u \in Tasks : t_team[u] \in Tasks
      BY DEF TeamInv, TeamTypeOK
    <3> QED  BY <1>1, <1>2, <1>6, <3>1 DEF TeamInv, Homes, Made
  <2>3. Unborn' /\ Born(Main)'
    BY <1>1, <1>2 DEF TeamInv, Unborn, TeamAssumption
  <2> QED  BY <2>1, <2>2, <2>3
<1>12. Main \notin freed' \cup {team_to_delete'}
  BY <1>1, <1>4 DEF TeamInv
<1>13. Unmade'
  <2> SUFFICES ASSUME NEW h \in Tasks, ~ Made(h)
               PROVE  /\ no_of_tasks'[h] = 1 /\ got_stack[h] = h /\ onstack[h] = h
                      /\ h \notin freed' /\ h # team_to_delete
    BY <1>1, <1>6 DEF Unmade
  <2>1. /\ no_of_tasks[h] = 1 /\ got_stack[h] = h /\ onstack[h] = h
        /\ h \notin freed /\ h # team_to_delete
    BY DEF TeamInv, Unmade
  <2>2. h # t_team[t]
    BY <1>4
  <2>3. no_of_tasks'[h] = no_of_tasks[h]
    BY <1>1, <2>2 DEF TeamInv, TeamTypeOK
  <2> QED  BY <1>1, <2>1, <2>2, <2>3
<1>14. StacksFreedInTime'
  <2> SUFFICES ASSUME NEW h \in Tasks \ {Main}, Made(h)'
               PROVE  h \in freed' \cup {team_to_delete} <=> Members(h)' = {}
    BY <1>1 DEF StacksFreedInTime, Made
  <2> QED  BY <1>1, <1>4, <1>6
<1>15. Pended'
  <2>1. team_to_delete \notin freed'
    BY <1>1, <1>4 DEF TeamInv, Pended
  <2> QED  BY <1>1, <1>2, <2>1 DEF TeamInv, Pended
<1> QED  BY <1>3, <1>7, <1>8, <1>9, <1>10, <1>11, <1>12, <1>13, <1>14, <1>15 DEF TeamInv

LEMMA DeletingOther ==
  ASSUME TeamAssumption, Careless = {}, TeamInv, NEW t \in Tasks, DeleteOther(t)
  PROVE  TeamInv'
<1>1. /\ state[t] = "terminated" /\ t # thistask
      /\ got_stack[t_team[t]] # t \/ Members(t_team[t]) = {}
      /\ t_mode' = t_mode /\ t_team' = t_team /\ thistask' = thistask
      /\ t_size' = t_size /\ saved' = saved /\ got_stack' = got_stack
      /\ onstack' = onstack /\ team_to_delete' = team_to_delete
      /\ freed' = freed /\ sound' = sound /\ no_of_tasks' = no_of_tasks
      /\ state' = [state EXCEPT ![t] = "deleted"]
  BY DEF DeleteOther, MayDelete
<1>2. /\ state' \in [Tasks -> {"unborn", "alive", "terminated", "deleted"}]
      /\ \A u \in Tasks : u # t => state'[u] = state[u]
      /\ state'[t] = "deleted" /\ thistask \in Tasks
      /\ \A u \in Tasks : Born(u)' <=> Born(u)
  BY <1>1 DEF TeamInv, TeamTypeOK, Born
<1>3. \A h : Members(h)' = Members(h)
  BY <1>1, <1>2 DEF Members
<1>4. \A h \in Tasks : Made(h)' <=> Made(h)
  BY <1>1, <1>2 DEF Made
<1>5. TeamTypeOK' /\ Running' /\ Pended' /\ Counted'
  <2>1. TeamTypeOK'
    BY <1>1, <1>2 DEF TeamInv, TeamTypeOK
  <2>2. Running'
    BY <1>1, <1>2 DEF TeamInv, Running, RunsOnItsFrames
  <2>3. Pended'
    BY <1>1, <1>2 DEF TeamInv, Pended
  <2>4. Counted'
    BY <1>1, <1>3, <1>4 DEF TeamInv, Counted
  <2> QED  BY <2>1, <2>2, <2>3, <2>4
<1>6. Waiting'
  BY <1>1, <1>2 DEF TeamInv, Waiting, FramesKept
<1>7. Holders'
  <2> SUFFICES ASSUME NEW u \in Tasks, state'[u] = "alive", NEW p, p = got_stack[t_team[u]]
               PROVE  /\ t_team[p] = t_team[u] /\ state'[p] # "unborn"
                      /\ p # u /\ p # thistask => state'[p] \in {"alive", "terminated"} /\ t_size[p] # "unset"
    BY <1>1 DEF Holders, Copyable, Born
  <2>1. t_team[u] \in Tasks /\ p \in Tasks /\ state[u] = "alive"
    BY <1>1, <1>2 DEF TeamInv, TeamTypeOK
  <2>2. t_team[p] = t_team[u] /\ Born(p) /\ (p # u /\ p # thistask => Copyable(p))
    BY <2>1 DEF TeamInv, Holders
  <2>3. u \in Members(t_team[u])
    BY <2>1 DEF Members
  <2>4. p # t
    BY <1>1, <2>2, <2>3
  <2> QED  BY <1>2, <2>1, <2>2, <2>4 DEF Copyable, Born
<1>8. Alone' /\ Homes' /\ Unborn' /\ Born(Main)'
  <2>1. Alone'
    BY <1>1, <1>2 DEF TeamInv, Alone
  <2>2. Homes'
    <3>1. \A u \in Tasks : t_team[u] \in Tasks
      BY DEF TeamInv, TeamTypeOK
    <3> QED  BY <1>1, <1>2, <1>4, <3>1 DEF TeamInv, Homes, Made
  <2>3. Unborn' /\ Born(Main)'
    BY <1>1, <1>2 DEF TeamInv, Unborn, TeamAssumption
  <2> QED  BY <2>1, <2>2, <2>3
<1>9. Unmade' /\ StacksFreedInTime' /\ Main \notin freed' \cup {team_to_delete'}
  <2>1. Unmade'
    BY <1>1, <1>4 DEF TeamInv, Unmade
  <2>2. StacksFreedInTime'
    BY <1>1, <1>2, <1>3 DEF TeamInv, StacksFreedInTime
  <2> QED  BY <1>1, <2>1, <2>2 DEF TeamInv
<1> QED  BY <1>5, <1>6, <1>7, <1>8, <1>9 DEF TeamInv

(* A new task, on the stack g of its own or of its parent.                 *)
LEMMA Making ==
  ASSUME TeamAssumption, TeamInv, NEW t \in Tasks, NEW g \in Tasks,
         state[thistask] = "alive", ~ Born(t),
         state' = [state EXCEPT ![t] = "alive"],
         t_team' = [t_team EXCEPT ![t] = g],
         \/ /\ g = t /\ no_of_tasks' = no_of_tasks
            /\ t_mode' = [t_mode EXCEPT ![t] = "DEDICATED"]
         \/ /\ g = t_team[thistask] /\ no_of_tasks' = [no_of_tasks EXCEPT ![g] = no_of_tasks[g] + 1]
            /\ t_mode' = [t_mode EXCEPT ![thistask] = "SHARED", ![t] = "SHARED"],
         Restore(thistask, t, TRUE, team_to_delete)
  PROVE  TeamInv'
<1>1. /\ thistask \in Tasks /\ t # thistask /\ NoTask \notin Tasks
      /\ team_to_delete = NoTask
  BY Pending DEF TeamInv, TeamTypeOK, Born, TeamAssumption
<1>2. /\ state' \in [Tasks -> {"unborn", "alive", "terminated", "deleted"}]
      /\ t_team' \in [Tasks -> Tasks]
      /\ \A u \in Tasks : u # t => state'[u] = state[u] /\ t_team'[u] = t_team[u]
      /\ state'[t] = "alive" /\ t_team'[t] = g
      /\ \A u \in Tasks : Born(u)' <=> Born(u) \/ u = t
  BY DEF TeamInv, TeamTypeOK, Born
<1>3. /\ t_mode' \in [Tasks -> {"DEDICATED", "SHARED"}]
      /\ no_of_tasks' \in [Tasks -> Int]
      /\ \A u \in Tasks : u # t /\ u # thistask => t_mode'[u] = t_mode[u]
      /\ \A h \in Tasks : h # g => no_of_tasks'[h] = no_of_tasks[h]
  BY <1>1 DEF TeamInv, TeamTypeOK
<1>4. g = t \/ (g = t_team[thistask] /\ t_mode'[t] = "SHARED" /\ t_mode'[thistask] = "SHARED")
  BY <1>1 DEF TeamInv, TeamTypeOK
<1>5. ASSUME NEW u \in Tasks, Born(u)
      PROVE  u # t /\ t_team[u] \in Tasks /\ Made(t_team[u]) /\ t_team[u] # t
  <2>1. t_team[u] \in Tasks /\ Made(t_team[u])
    BY <1>5 DEF TeamInv, TeamTypeOK, Homes
  <2> QED  BY <1>5, <2>1 DEF Made
<1>6. ~ Made(t) /\ t_team[t] = t
  BY DEF TeamInv, Unborn, Made
<1>7. /\ no_of_tasks[t] = 1 /\ got_stack[t] = t /\ onstack[t] = t /\ t \notin freed
  BY <1>6 DEF TeamInv, Unmade
<1>8. /\ Born(thistask) /\ t_team[thistask] \in Tasks /\ Made(t_team[thistask])
      /\ t_team[thistask] \notin freed /\ t_team[thistask] # t
      /\ got_stack[t_team[thistask]] = thistask /\ onstack[t_team[thistask]] = thistask
  BY <1>1, <1>5 DEF Born, TeamInv, Running, RunsOnItsFrames
<1>9. \A h \in Tasks : Made(h)' <=> Made(h) \/ h = g
  <2> SUFFICES ASSUME NEW h \in Tasks
               PROVE  Made(h)' <=> Made(h) \/ h = g
    OBVIOUS
  <2>1. CASE h = t
    BY <1>2, <1>4, <1>6, <1>8, <2>1 DEF Made
  <2>2. CASE h # t
    BY <1>2, <1>4, <1>8, <2>2 DEF Made
  <2> QED  BY <2>1, <2>2
<1>10. Alone'
  <2> SUFFICES ASSUME NEW u \in Tasks, NEW v \in Tasks, Born(u) \/ u = t, Born(v) \/ v = t,
                      t_mode'[u] = "DEDICATED", t_team'[v] = t_team'[u]
               PROVE  v = u
    BY <1>2 DEF Alone
  <2>1. CASE u = t
    <3>1. g = t
      BY <1>4, <2>1
    <3> QED  BY <1>2, <1>5, <2>1, <3>1
  <2>2. CASE u # t /\ v = t
    <3>1. t_team[u] = g /\ g # t
      BY <1>2, <1>5, <2>2
    <3>2. u # thistask
      BY <1>4, <3>1
    <3>3. t_mode[u] = "DEDICATED" /\ t_team[u] = t_team[thistask]
      BY <1>3, <1>4, <2>2, <3>1, <3>2
    <3> QED  BY <1>1, <1>8, <2>2, <3>2, <3>3 DEF TeamInv, Alone
  <2>3. CASE u # t /\ v # t
    <3>1. t_team[v] = t_team[u] /\ Born(u) /\ Born(v)
      BY <1>2, <2>3
    <3>2. CASE u = thistask
      <4>1. g = t
        BY <1>4, <3>2
      <4>2. t_mode[u] = "DEDICATED"
        BY <1>1, <1>8, <2>3, <3>2, <4>1 DEF TeamInv, TeamTypeOK
      <4> QED  BY <3>1, <4>2 DEF TeamInv, Alone
    <3>3. CASE u # thistask
      BY <1>3, <2>3, <3>1, <3>3 DEF TeamInv, Alone
    <3> QED  BY <3>2, <3>3
  <2> QED  BY <2>1, <2>2, <2>3
<1>11. Homes' /\ Born(Main)'
  <2>1. \A u \in Tasks : Born(u) \/ u = t => Made(t_team'[u]) \/ t_team'[u] = g
    BY <1>2, <1>5
  <2>2. \A u \in Tasks : t_team'[u] \in Tasks
    BY <1>2
  <2>3. \A u \in Tasks : Born(u)' => state'[t_team'[u]] # "unborn" /\ t_team'[t_team'[u]] = t_team'[u]
    BY <1>2, <1>9, <2>1, <2>2 DEF Made, Born
  <2>4. Homes'
    BY <2>3 DEF Homes, Made, Born
  <2>5. Born(Main)'
    BY <1>2 DEF TeamInv, TeamAssumption
  <2> QED  BY <2>4, <2>5
<1>12. Unborn'
  <2> SUFFICES ASSUME NEW u \in Tasks, ~ Born(u), u # t
               PROVE  t_team'[u] = u /\ t_mode'[u] = "DEDICATED" /\ t_size'[u] = "unset"
    BY <1>2 DEF Unborn
  <2>1. u # thistask /\ t_team[u] = u /\ t_mode[u] = "DEDICATED" /\ t_size[u] = "unset"
    BY <1>8 DEF TeamInv, Unborn
  <2>2. t_size'[u] = t_size[u]
    BY <1>1, <2>1 DEF Restore, SharedSwap, Swap, Resumed, Sizes, SharedSizes, TeamInv, TeamTypeOK
  <2> QED  BY <1>2, <1>3, <2>1, <2>2
<1>13. Counted' /\ \A h \in Tasks : Members(h)' = IF h = g THEN Members(g) \cup {t} ELSE Members(h)
  <2>1. \A h \in Tasks : Members(h)' = IF h = g THEN Members(g) \cup {t} ELSE Members(h)
    BY <1>2 DEF Members, Born
  <2>2. ASSUME NEW h \in Tasks, h # g, Made(h)'
        PROVE  no_of_tasks'[h] = Cardinality(Members(h)') + (IF h = Main THEN 1 ELSE 0)
    <3>1. Members(h)' = Members(h)
      BY <2>1, <2>2
    <3>2. Made(h) /\ no_of_tasks'[h] = no_of_tasks[h]
      BY <1>3, <1>9, <2>2
    <3> QED  BY <3>1, <3>2 DEF TeamInv, Counted
  <2>3. Members(g)' = Members(g) \cup {t} /\ t \notin Members(g)
    BY <2>1 DEF Members, Born
  <2>4. IsFiniteSet(Members(g)) /\ Cardinality(Members(g)) \in Nat
    BY MembersFinite
  <2>5. Cardinality(Members(g) \cup {t}) = Cardinality(Members(g)) + 1
    BY <2>3, <2>4, FS_AddElement
  <2>6. no_of_tasks'[g] = Cardinality(Members(g)) + 1 + (IF g = Main THEN 1 ELSE 0)
    <3>1. CASE g = t
      <4>1. no_of_tasks'[g] = 1 /\ g # Main
        BY <1>1, <1>7, <1>8, <3>1 DEF TeamInv
      <4>2. Members(g) = {}
        BY <1>5, <3>1 DEF Members, Born
      <4>3. Cardinality(Members(g)) = 0
        BY <4>2, FS_EmptySet
      <4> QED  BY <4>1, <4>3
    <3>2. CASE g # t
      <4>1. Made(g) /\ no_of_tasks'[g] = no_of_tasks[g] + 1
        BY <1>4, <1>8, <3>2 DEF TeamInv, TeamTypeOK
      <4>2. no_of_tasks[g] = Cardinality(Members(g)) + (IF g = Main THEN 1 ELSE 0)
        BY <4>1 DEF TeamInv, Counted
      <4> QED  BY <2>4, <4>1, <4>2
    <3> QED  BY <3>1, <3>2
  <2>7. no_of_tasks'[g] = Cardinality(Members(g)') + (IF g = Main THEN 1 ELSE 0)
    BY <2>3, <2>4, <2>5, <2>6
  <2> QED  BY <2>1, <2>2, <2>7 DEF Counted
<1>14. Ready(thistask, t, TRUE, team_to_delete)
  <2>1. t_team'[thistask] = t_team[thistask] /\ state'[thistask] = "alive" /\ state[t] = "unborn"
    BY <1>1, <1>2 DEF Born
  <2>2. ASSUME NEW u \in Tasks, state'[u] = "alive", u # thistask, u # t
        PROVE  t_team'[u] \notin freed \cup {team_to_delete} /\ FramesKept(u, t_mode'[u], t_team'[u])
    <3>1. state[u] = "alive" /\ t_team'[u] = t_team[u] /\ t_mode'[u] = t_mode[u]
      BY <1>2, <1>3, <2>2
    <3>2. t_team[u] \notin freed /\ FramesKept(u, t_mode[u], t_team[u])
      BY <2>2, <3>1 DEF TeamInv, Waiting
    <3>3. t_team[u] # NoTask
      BY <1>1, <1>5, <3>1 DEF Born
    <3> QED  BY <1>1, <3>1, <3>2, <3>3
  <2>3. /\ g \notin freed
        /\ \/ got_stack[g] = t /\ onstack[g] = t
           \/ t_mode'[t] = "SHARED" /\ g = t_team[thistask]
    BY <1>4, <1>7, <1>8
  <2>4. ASSUME NEW u \in Tasks, state'[u] = "alive", NEW p, p = got_stack[t_team'[u]]
        PROVE  /\ t_team'[p] = t_team'[u] /\ state'[p] # "unborn"
               /\ p # u /\ p # thistask =>
                    state'[p] \in {"alive", "terminated"} /\ t_size[p] # "unset"
    <3>1. CASE u = t
      <4>1. p = t \/ p = thistask
        BY <1>2, <1>4, <1>7, <1>8, <2>4, <3>1
      <4>2. p = thistask => t_team'[p] = t_team'[u]
        BY <1>2, <1>4, <1>7, <1>8, <2>1, <2>4, <3>1
      <4> QED  BY <2>1, <3>1, <4>1, <4>2, <1>2
    <3>2. CASE u # t
      <4>1. state[u] = "alive" /\ t_team'[u] = t_team[u] /\ t_team[u] \in Tasks
        BY <1>2, <1>5, <2>4, <3>2 DEF Born
      <4>2. t_team[p] = t_team[u] /\ Born(p) /\ (p # u /\ p # thistask => Copyable(p))
        BY <2>4, <4>1 DEF TeamInv, Holders
      <4>3. p \in Tasks
        BY <2>4, <4>1 DEF TeamInv, TeamTypeOK
      <4>4. p # t
        BY <4>2
      <4> QED  BY <1>2, <4>1, <4>2, <4>3, <4>4 DEF Copyable, Born
    <3> QED  BY <3>1, <3>2
  <2>5. \A u \in Tasks : state'[u] = "alive" =>
          LET p == got_stack[t_team'[u]]
          IN  /\ t_team'[p] = t_team'[u] /\ state'[p] # "unborn"
              /\ p # u /\ p # thistask =>
                   state'[p] \in {"alive", "terminated"} /\ t_size[p] # "unset"
    BY <2>4
  <2>6. sound /\ team_to_delete \notin freed
    BY Pending DEF TeamInv, Running, RunsOnItsFrames
  <2> QED  BY <1>1, <1>2, <1>3, <1>8, <1>10, <2>1, <2>2, <2>3, <2>5, <2>6 DEF Ready
<1>15. \A h \in Tasks : ~ Made(h)' =>
         ~ Made(h) /\ no_of_tasks'[h] = no_of_tasks[h] /\ h # team_to_delete
  BY <1>1, <1>3, <1>9
<1>16. \A h \in Tasks \ {Main} : Made(h)' =>
         (h \in freed \cup {team_to_delete} <=> Members(h)' = {})
  <2> SUFFICES ASSUME NEW h \in Tasks \ {Main}, Made(h)'
               PROVE  h \in freed \cup {team_to_delete} <=> Members(h)' = {}
    OBVIOUS
  <2>1. CASE h = g
    BY <1>1, <1>4, <1>7, <1>8, <1>13, <2>1
  <2>2. CASE h # g
    <3>1. Made(h) /\ Members(h)' = Members(h)
      BY <1>9, <1>13, <2>2
    <3> QED  BY <3>1 DEF TeamInv, StacksFreedInTime, Made
  <2> QED  BY <2>1, <2>2
<1>17. team_to_delete \in Tasks \cup {NoTask} /\ team_to_delete # Main
  BY <1>1 DEF TeamAssumption
<1> QED  BY <1>11, <1>12, <1>13, <1>14, <1>15, <1>16, <1>17, Moving

-----------------------------------------------------------------------------
(* The theorems.                                                           *)
LEMMA TeamInit_Inv ==
  ASSUME TeamAssumption, TeamInit
  PROVE  TeamInv
<1> USE DEF TeamInit, TeamAssumption
<1>1. Members(Main) = {Main} /\ \A g \in Tasks : Born(g) <=> g = Main
  BY DEF Members, Born
<1>2. Counted
  <2>1. Cardinality({Main}) = 1
    BY FS_Singleton
  <2> QED  BY <1>1, <2>1 DEF Counted, Made
<1>3. TeamTypeOK
  BY DEF TeamTypeOK
<1>4. Running /\ Waiting /\ Holders
  BY DEF Running, RunsOnItsFrames, Waiting, Holders, Born
<1>5. Alone /\ Homes /\ Unborn /\ Unmade /\ Pended /\ StacksFreedInTime
  BY <1>1 DEF Alone, Homes, Unborn, Unmade, Pended, StacksFreedInTime, Made
<1> QED  BY <1>1, <1>2, <1>3, <1>4, <1>5 DEF TeamInv

LEMMA TeamNext_Inv ==
  ASSUME TeamAssumption, Careless = {}, TeamInv, [TeamNext]_teamVars
  PROVE  TeamInv'
<1>1. CASE CancelThis
  BY <1>1, CancellingThis
<1>2. ASSUME NEW t \in Tasks, NewDedicated(t)
      PROVE  TeamInv'
  BY <1>2, Making DEF NewDedicated
<1>3. ASSUME NEW t \in Tasks, NewShared(t)
      PROVE  TeamInv'
  <2>1. t_team[thistask] \in Tasks
    BY DEF TeamInv, TeamTypeOK
  <2> QED  BY <1>3, <2>1, Making DEF NewShared, OneMore
<1>4. ASSUME NEW t \in Tasks, CancelOther(t)
      PROVE  TeamInv'
  BY <1>4, CancellingOther
<1>5. ASSUME NEW t \in Tasks, DeleteOther(t)
      PROVE  TeamInv'
  BY <1>5, DeletingOther
<1>6. ASSUME NEW t \in Tasks, ResultIs(t)
      PROVE  TeamInv'
  BY <1>6, Resulting
<1>7. ASSUME NEW t \in Tasks, GiveUp(t)
      PROVE  TeamInv'
  BY <1>7, GivingUp
<1>8. ASSUME NEW t \in Tasks, DeleteThis(t)
      PROVE  TeamInv'
  BY <1>8, DeletingThis
<1>9. CASE UNCHANGED teamVars
  BY <1>9 DEF teamVars, TeamInv, TeamTypeOK, Running, RunsOnItsFrames, Waiting, FramesKept,
              Holders, Copyable, Alone, Homes, Unborn, Unmade, Counted, Pended,
              StacksFreedInTime, Made, Members, Born
<1> QED  BY <1>1, <1>2, <1>3, <1>4, <1>5, <1>6, <1>7, <1>8, <1>9 DEF TeamNext

\* In a careful program whoever runs, runs on its own frames, on a stack that
\* is not deleted, and no switch uses a task or a size that is not there,
\* however many tasks there are and however they take turns.
THEOREM FramesAreKept == Careless = {} => (TeamSpec => []RunsOnItsFrames)
<1> SUFFICES ASSUME Careless = {} PROVE TeamSpec => []RunsOnItsFrames
  OBVIOUS
<1>1. TeamInit => TeamInv
  BY TeamInit_Inv, TeamAssumption
<1>2. TeamInv /\ [TeamNext]_teamVars => TeamInv'
  BY TeamNext_Inv, TeamAssumption
<1>3. TeamInv => RunsOnItsFrames
  BY DEF TeamInv, Running
<1> QED  BY <1>1, <1>2, <1>3, PTL DEF TeamSpec

\* ... and the stack of a team is deleted when the last of its tasks has ended,
\* by the next switch if it is in use, and not before.
THEOREM StacksAreFreed == Careless = {} => (TeamSpec => [](TeamTypeOK /\ StacksFreedInTime))
<1> SUFFICES ASSUME Careless = {} PROVE TeamSpec => [](TeamTypeOK /\ StacksFreedInTime)
  OBVIOUS
<1>1. TeamInit => TeamInv
  BY TeamInit_Inv, TeamAssumption
<1>2. TeamInv /\ [TeamNext]_teamVars => TeamInv'
  BY TeamNext_Inv, TeamAssumption
<1>3. TeamInv => TeamTypeOK /\ StacksFreedInTime
  BY DEF TeamInv
<1> QED  BY <1>1, <1>2, <1>3, PTL DEF TeamSpec
=============================================================================
