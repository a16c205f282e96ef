----------------------------- MODULE EventList -----------------------------
(***************************************************************************)
(* What the scheduler of the task library promises a simulation: entries   *)
(* are due at points of simulated time, the entry that runs next is one of *)
(* the earliest, and the clock moves to the time of that entry and never   *)
(* otherwise.  Nothing is said here about ties, about what the entries do, *)
(* or about how the list is kept.                                          *)
(***************************************************************************)
EXTENDS Integers

CONSTANTS Entries,  \* what can be due
          Off       \* the time of an entry that is not due; not an integer

VARIABLES now,  \* the simulated time
          due   \* when each entry is due

eventVars == <<now, due>>

Posted(s) == due[s] # Off

Earliest(s) ==
  /\ Posted(s)
  /\ \A u \in Entries : Posted(u) => due[s] <= due[u]

\* After a step at time t, every entry of changed is off or due from t on.
Rescheduled(changed, t) ==
  /\ due' \in [Entries -> Int \cup {Off}]
  /\ \A s \in Entries :
       IF s \in changed THEN due'[s] = Off \/ t <= due'[s]
                        ELSE due'[s] = due[s]

\* The running program posts and withdraws entries.
Arrange ==
  /\ now' = now
  /\ \E changed \in SUBSET Entries : Rescheduled(changed, now)

\* The earliest entry runs; what it does first may post others.
Run(s) ==
  /\ Earliest(s)
  /\ now' = due[s]
  /\ \E changed \in SUBSET Entries :
       s \in changed /\ Rescheduled(changed, now') /\ due'[s] = Off

\* The clock reaches the earliest entry, and somebody else is told first.
Tick(s) ==
  /\ Earliest(s)
  /\ now' = due[s]
  /\ UNCHANGED due

Init == now = 0 /\ due = [s \in Entries |-> Off]

Next == Arrange \/ \E s \in Entries : Run(s) \/ Tick(s)

Spec == Init /\ [][Next]_eventVars
============================================================================
