----------------------------- MODULE MCOQueue -----------------------------
(***************************************************************************)
(* Instances of OQueue for TLC: two queues, so that cut() and splice() have*)
(* something to work on.                                                   *)
(***************************************************************************)
EXTENDS OQueue, TLC

CONSTANTS q1, q2, h1, h2, t1, t2, x, y, z

TwoQueues == {q1, q2}
TwoHeads  == {h1, h2}
TwoTails  == {t1, t2}
ThreeItems == {x, y, z}
OneOrTwo  == {1, 2}


BuildCalls == {"qhead", "qtail", "tail", "head", "~qhead", "~qtail"}

AllCalls == BuildCalls \cup {"get", "put", "putback", "qhead::cut", "qtail::cut",
                             "splice", "setmax"}

\* Identities are interchangeable (those of the queues too, but to try twice as
\* many renamings takes TLC longer than it saves).
Renamings == Permutations(TwoHeads) \cup Permutations(TwoTails)
             \cup Permutations(ThreeItems)
============================================================================
