--------------------------- MODULE MCQueueTasks ---------------------------
(***************************************************************************)
(* Instances of QueueTasks for TLC.                                        *)
(***************************************************************************)
EXTENDS QueueTasks, TLC

CONSTANTS main, a, b, q1, h1, t1, x, y, z

ThreeTasks == {main, a, b}
NoTimer    == {}
OneQueue   == {q1}
OneHead    == {h1}
OneTail    == {t1}
OneEach    == {h1, t1}
ThreeItems == {x, y, z}
Now        == {0}
\* Both ends of the queue, or an end and the result of a task.
SomeLists  == {{h1, t1}, {h1, main}, {t1, a}, {t1, b}}
OneResult  == {0}
OneOrTwo   == {1, 2}
AnyMode    == {"WMODE", "EMODE", "ZMODE"}

\* Tasks that create each other, use the queue and wait for its ends.
QueueWaits == {"task", "queue", "waitvec", "wait"}

AllTransfer == {"get", "put", "putback", "setmode", "requeue"}

Alike == Permutations({a, b}) \cup Permutations({x, y, z})
============================================================================
