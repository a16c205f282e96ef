--------------------------- MODULE MCQueueFilter ---------------------------
(***************************************************************************)
(* Instances of QueueFilter for TLC: three objects pass through queues of  *)
(* one or two places.                                                      *)
(***************************************************************************)
EXTENDS QueueFilter, TLC

CONSTANTS main, a, b, q1, q2, h1, h2, t1, t2, x, y, z

ThreeTasks == {main, a, b}
NoTimer    == {}
TwoQueues  == {q1, q2}
TwoHeads   == {h1, h2}
TwoTails   == {t1, t2}
TwoEach    == {h1, h2, t1, t2}
ThreeItems == {x, y, z}
Now        == {0}
NoList     == {}
OneResult  == {0}
OneOrTwo   == {1, 2}
OnlyWait   == {"WMODE"}
HeadOrTail == {"head", "tail"}
AtHead     == {"head"}

ProgramCalls == {"task", "queue", "delay", "resultis"}
Careful == {"get", "put", "qhead::cut", "qtail::cut", "tail", "head", "splice"}
Busy    == Careful \cup {"busy"}
============================================================================
