---------------------------- MODULE QueueFilter ----------------------------
(***************************************************************************)
(* The program that cut() and splice() are for: a producer puts objects on *)
(* the tail of a queue, a consumer gets them from its head, and a third    *)
(* task inserts itself between them as a filter ("make room for a filter   *)
(* upstream from this qhead"), passes objects on, and may take itself out  *)
(* again.  The filter changes nothing, so that nobody should notice it.    *)
(*                                                                         *)
(* All steps are those of QueueTasks; sent and received are history.       *)
(***************************************************************************)
EXTENDS QueueTasks

CONSTANTS
  consumer, filter,  \* tasks; the producer is Main
  Where,             \* the end that the filter cuts: "head" or "tail"
  MaxYields          \* bound: how often tasks call delay(0)

ASSUME RolesAssumption ==
  /\ {consumer, filter} \subseteq Tasks /\ Cardinality({Main, consumer, filter}) = 3
  /\ Where \subseteq {"head", "tail"}
  /\ MaxYields \in Nat

VARIABLES
  point,     \* where the filter is in its program
  from, to,  \* the head it gets from and the tail it puts to
  hand,      \* what it has got and not yet put
  sent,      \* what the producer has put, in this order
  received,  \* what the consumer has got, in this order
  yields     \* calls of delay(0) made

progVars == <<point, from, to, hand, sent, received, yields>>
filterVars == <<vars, progVars>>

Complete == Born(consumer) /\ Born(filter)

Create ==
  /\ ~Complete
  /\ \E t \in {consumer, filter} : Sched(NewTask(t))
  /\ UNCHANGED progVars

YieldOnce ==
  /\ Complete /\ Free
  /\ yields < MaxYields
  /\ Sched(Delay(thistask, 0))
  /\ yields' = yields + 1
  /\ UNCHANGED <<point, from, to, hand, sent, received>>

Runs(t) == thistask = t /\ Complete

\* The object a put() that has just returned was called with.
Produce ==
  /\ Runs(Main)
  /\ \E p \in Items \ Elems(sent) :
       /\ IF Free THEN Put(tail, p)
          ELSE inside[Main].item = p /\ PutAgain
       /\ sent' = IF Free' THEN Append(sent, p) ELSE sent
  /\ UNCHANGED <<point, from, to, hand, received, yields>>

ProducerEnds ==
  /\ Runs(Main)
  /\ Elems(sent) = Items
  /\ Sched(ResultIs(Main, 0))
  /\ UNCHANGED progVars

\* The oqueue a get() of head h works on.
Loaded(h) == IF Free THEN qh_queue[h] ELSE inside[thistask].q

Consume ==
  /\ Runs(consumer)
  /\ IF Free THEN Get(head) ELSE GetAgain
  /\ received' = IF Free' THEN Append(received, Q!First(Loaded(head))) ELSE received
  /\ UNCHANGED <<point, from, to, hand, sent, yields>>

\* h = head->cut(), t = head->tail(); or t = tail->cut(), h = tail->head().
Insert ==
  /\ Runs(filter)
  /\ point = "outside"
  /\ \/ /\ "head" \in Where
        /\ \E n \in Heads, r \in Queues : CutHead(head, n, r) /\ from' = n
        /\ UNCHANGED to
     \/ /\ "tail" \in Where
        /\ \E n \in Tails, r \in Queues : CutTail(tail, n, r) /\ to' = n
        /\ UNCHANGED from
  /\ point' = "cut"
  /\ UNCHANGED <<hand, sent, received, yields>>

Connect ==
  /\ Runs(filter)
  /\ point = "cut"
  /\ \/ to = None /\ (\E t \in Tails : MakeTail(head, t) /\ to' = t) /\ UNCHANGED from
     \/ from = None /\ (\E h \in Heads : MakeHead(tail, h) /\ from' = h) /\ UNCHANGED to
  /\ point' = "inserted"
  /\ UNCHANGED <<hand, sent, received, yields>>

PassIn ==
  /\ Runs(filter)
  /\ point = "inserted" /\ hand = <<>>
  /\ IF Free THEN Get(from) ELSE GetAgain
  /\ hand' = IF Free' THEN <<Q!First(Loaded(from))>> ELSE hand
  /\ UNCHANGED <<point, from, to, sent, received, yields>>

PassOn ==
  /\ Runs(filter)
  /\ point = "inserted" /\ hand # <<>>
  /\ IF Free THEN Put(to, Head(hand)) ELSE PutAgain
  /\ hand' = IF Free' THEN <<>> ELSE hand
  /\ UNCHANGED <<point, from, to, sent, received, yields>>

\* from->splice(to)
TakeOut ==
  /\ Runs(filter)
  /\ point = "inserted" /\ hand = <<>> /\ Free
  /\ Splice(from, to)
  /\ point' = "removed" /\ from' = None /\ to' = None
  /\ UNCHANGED <<hand, sent, received, yields>>

FilterEnds ==
  /\ Runs(filter)
  /\ point \in {"outside", "removed"}
  /\ Sched(ResultIs(filter, 0))
  /\ UNCHANGED progVars

FilterInit ==
  /\ QInit
  /\ point = "outside" /\ from = None /\ to = None /\ hand = <<>>
  /\ sent = <<>> /\ received = <<>> /\ yields = 0

TasksGoOn == (Sched(Schedule) \/ Sched(Stopped)) /\ UNCHANGED progVars

FilterNext ==
  \/ Create \/ YieldOnce
  \/ Produce \/ ProducerEnds \/ Consume
  \/ Insert \/ Connect \/ PassIn \/ PassOn \/ TakeOut \/ FilterEnds
  \/ TasksGoOn

(* One process that goes on; every loop of it contains a get() or a put(). *)
FilterSpec == FilterInit /\ [][FilterNext]_filterVars /\ WF_filterVars(FilterNext)
----------------------------------------------------------------------------
\* What has been put and not yet received, in order from the consumer to the
\* producer.
InPipe ==
  LET down == qh_queue[head]  up == qt_queue[tail] IN
  IF down = up THEN Q!Ring(down) ELSE Q!Ring(down) \o hand \o Q!Ring(up)

\* Nobody notices the filter: what has been sent is what has been received and,
\* behind it, what is in the two queues and in the hand of the filter; nothing
\* is lost, doubled or overtaken when the queue is cut and joined.
NothingLostOrOvertaken == sent = received \o InPipe

\* Everything that is sent arrives: cut() and splice() leave nobody asleep who
\* is needed for it.
EverythingArrives == <>(Elems(received) = Items)
============================================================================
