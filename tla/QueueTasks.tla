----------------------------- MODULE QueueTasks -----------------------------
(***************************************************************************)
(* Tasks that communicate through queues: the blocking side of qhead.c and *)
(* qtail.c, composed of the scheduler (TaskSched) and the queues as data   *)
(* structures (OQueue).                                                    *)
(*                                                                         *)
(* A qhead and a qtail are objects with a remember chain.  A task that     *)
(* calls get() on an empty queue in WMODE sleeps on the qhead, one that    *)
(* calls put() on a full queue sleeps on the qtail, and the call that      *)
(* makes the queue non-empty or non-full alerts the other end.             *)
(*                                                                         *)
(* main() has constructed one queue with both ends when the model begins.  *)
(***************************************************************************)
EXTENDS TaskSched

CONSTANTS
  Queues, Heads, Tails, Items, Maxes, MaxCount,  \* as in OQueue
  queue, head, tail,  \* the queue that main() has constructed, and its ends
  Getters, Putters,   \* the tasks that call get(), and put() or putback()
  Modes,              \* the modes of queue ends: EMODE, WMODE or ZMODE
  QApi                \* names of the calls made on queues

ASSUME QueueEndsAssumption ==
  /\ Heads \cup Tails = Plain /\ Heads \cap Tails = {}
  /\ Queues \cap Plain = {} /\ None \notin Queues
  /\ Maxes \subseteq Nat \ {0} /\ MaxCount \in Nat
  /\ IsFiniteSet(Items) /\ None \notin Items
  /\ queue \in Queues /\ head \in Heads /\ tail \in Tails
  /\ Getters \subseteq Tasks /\ Putters \subseteq Tasks

VARIABLES q_max, q_count, q_ptr, q_head, q_tail, qh_queue, qt_queue, o_next, heap,
          mode,   \* qh_mode of every qhead, qt_mode of every qtail
          inside  \* the queue call each task is inside of, with its locals

Q == INSTANCE OQueue WITH Api <- QApi

oqueueVars == <<q_max, q_count, q_ptr, q_head, q_tail, qh_queue, qt_queue,
                o_next, heap>>

vars == <<schedVars, oqueueVars, mode, inside>>

Outside == [op |-> "none"]
Insides ==
  {Outside}
  \cup [op : {"get"}, end : Heads, q : Queues]
  \cup [op : {"put"}, end : Tails, item : Items]

Free == inside[thistask] = Outside

QCalling(name) == name \in QApi /\ Calling("queue") /\ Free

InCall(op) ==
  /\ phase = "user"
  /\ inside[thistask].op = op

Leave == inside' = [inside EXCEPT ![thistask] = Outside]

\* alert() on an end that may be missing.
AlertEnd(e) ==
  IF e = None THEN UNCHANGED <<runchain, s_state, s_time, o_link>>
  ELSE Alerted(e, s_state, s_time, runchain, clxck)

\* Bug: put() alerts nobody.
NoEnd(q) == None

\* Whom a put() or a get() on q alerts: those waiting for what it changes.
HeadToAlert(q) == IF q_count[q] = 0 THEN q_head[q] ELSE None
\* Bug: get() alerts when the queue becomes empty.
TailWhenEmpty(q) == IF q_count[q] = 1 THEN q_tail[q] ELSE None

TailToAlert(q) == IF q_count[q] = q_max[q] THEN q_tail[q] ELSE None

\* What no queue call touches, besides what it alerts.
CallDone ==
  /\ Leave
  /\ UNCHANGED <<mode, thistask, priority_sched, clxck, clock_task,
                 keep_waiting_count, call, phase, picked, error>>

QueueFails(e) ==
  /\ Fail(e)
  /\ UNCHANGED <<oqueueVars, mode, inside>>

\* this_task()->sleep(this) in the middle of a call, which goes on at its
\* label ll when the task is resumed.
SleepOn(e, locals) ==
  /\ o_link' = IF s_state[thistask] = "TERMINATED" THEN o_link
               ELSE [o_link EXCEPT ![e] = Remembering(@, thistask)]
  /\ RemovedIfRunning(thistask)
  /\ phase' = "schedule"
  /\ inside' = [inside EXCEPT ![thistask] = locals]
  /\ UNCHANGED <<thistask, priority_sched, clxck, clock_task,
                 keep_waiting_count, s_time, call, picked, error>>
  /\ UNCHANGED <<oqueueVars, mode>>

----------------------------------------------------------------------------
(* qhead::get().  The oqueue is loaded once, before the label: q is what   *)
(* the call works on after it has slept, too.                              *)
GetFrom(h, q) ==
  \/ /\ Q!Take(q)
     /\ AlertEnd(TailToAlert(q))
     /\ CallDone
  \/ /\ q_count[q] # 0 /\ Q!First(q) = None
     /\ QueueFails("FAULT")
  \/ /\ q_count[q] = 0 /\ mode[h] = "WMODE"
     /\ SleepOn(h, [op |-> "get", end |-> h, q |-> q])
  \/ /\ q_count[q] = 0 /\ mode[h] = "EMODE"
     /\ QueueFails("E_GETEMPTY")
  \/ /\ q_count[q] = 0 /\ mode[h] = "ZMODE"
     /\ CallDone
     /\ UNCHANGED <<runchain, s_state, s_time, o_link, oqueueVars>>

Get(h) ==
  /\ QCalling("get") /\ thistask \in Getters
  /\ Q!IsHead(h)
  /\ GetFrom(h, qh_queue[h])

GetAgain ==
  /\ InCall("get")
  /\ LET at == inside[thistask] IN
       IF Q!IsQueue(at.q) THEN GetFrom(at.end, at.q) ELSE QueueFails("FAULT")

(* qtail::put().  The oqueue is loaded behind the label, each time.        *)
PutTo(t, q, p) ==
  \/ /\ o_next[p] # None
     /\ QueueFails("E_PUTOBJ")
  \/ /\ Q!Add(q, p)
     /\ AlertEnd(HeadToAlert(q))
     /\ CallDone
  \/ /\ o_next[p] = None /\ ~Q!HasRoom(q) /\ mode[t] = "WMODE"
     /\ SleepOn(t, [op |-> "put", end |-> t, item |-> p])
  \/ /\ o_next[p] = None /\ ~Q!HasRoom(q) /\ mode[t] = "EMODE"
     /\ QueueFails("E_PUTFULL")
  \/ /\ o_next[p] = None /\ ~Q!HasRoom(q) /\ mode[t] = "ZMODE"
     /\ CallDone
     /\ UNCHANGED <<runchain, s_state, s_time, o_link, oqueueVars>>

\* An object is handed to one put() at a time.  To put one that is still queued
\* is an error (E_PUTOBJ), made by programs that "requeue".
MayBePut(p) ==
  /\ \A u \in Tasks : inside[u].op = "put" => inside[u].item # p
  /\ o_next[p] # None => "requeue" \in QApi

Put(t, p) ==
  /\ QCalling("put") /\ thistask \in Putters
  /\ Q!IsTail(t)
  /\ MayBePut(p)
  /\ PutTo(t, qt_queue[t], p)

PutAgain ==
  /\ InCall("put")
  /\ LET at == inside[thistask] IN PutTo(at.end, qt_queue[at.end], at.item)

InUse(e) == \E t \in Tasks :
              \/ inside[t] # Outside /\ inside[t].end = e
              \/ e \in call[t].on

\* putback() and cut() alert nobody.  A careful program calls them only while
\* no task is inside a call of that end; one that is "busy" does so any time.
Undisturbed(e) == InUse(e) => "busy" \in QApi

(* qhead::putback().  A full queue counts the refused object (OQueue).     *)
PutBackOn(h, p) ==
  /\ QCalling("putback") /\ thistask \in Putters
  /\ Q!IsHead(h)
  /\ MayBePut(p)
  /\ Undisturbed(h)
  /\ \/ /\ o_next[p] # None
        /\ QueueFails("E_BACKOBJ")
     \/ /\ Q!AddFirst(qh_queue[h], p)
        /\ CallDone
        /\ UNCHANGED <<runchain, s_state, s_time, o_link>>
     \/ /\ o_next[p] = None /\ ~Q!HasRoom(qh_queue[h]) /\ mode[h] # "ZMODE"
        /\ QueueFails("E_BACKFULL")
     \/ /\ o_next[p] = None /\ mode[h] = "ZMODE"
        /\ "putback_full" \in QApi
        /\ Q!CountOnly(qh_queue[h])
        /\ CallDone
        /\ UNCHANGED <<runchain, s_state, s_time, o_link>>

\* setmode()
SetMode(e, md) ==
  /\ QCalling("setmode")
  /\ e \in heap
  /\ mode' = [mode EXCEPT ![e] = md]
  /\ UNCHANGED <<schedVars, oqueueVars, inside>>

----------------------------------------------------------------------------
(* Surgery, which module QueueFilter uses.  cut(), tail() and head() alert  *)
(* nobody.                                                                 *)

\* The new end has the mode of the old one.
Quietly(change, old, new) ==
  /\ change
  /\ mode' = [mode EXCEPT ![new] = mode[old]]
  /\ UNCHANGED <<schedVars, inside>>

CutHead(h, n, r) ==
  /\ QCalling("qhead::cut")
  /\ Undisturbed(h)
  /\ Quietly(Q!CutHead(h, n, r), h, n)

CutTail(t, n, r) ==
  /\ QCalling("qtail::cut")
  /\ Undisturbed(t)
  /\ Quietly(Q!CutTail(t, n, r), t, n)

MakeTail(h, t) == QCalling("tail") /\ Quietly(Q!MakeTail(h, t), h, t)

MakeHead(t, h) == QCalling("head") /\ Quietly(Q!MakeHead(t, h), t, h)

\* splice() alerts the two ends that remain when the joined queue is no longer
\* empty or full.  The ends of the filter are deleted: nobody is inside their
\* calls.
Joined(h, t) == q_count[qh_queue[h]] + q_count[qt_queue[t]]

\* Bug: splice() alerts as if both queues were not empty.
HeadNeverAlerted(h, t) == FALSE

HeadAlert(h, t) == q_count[qt_queue[t]] = 0 /\ q_count[qh_queue[h]] # 0

TailAlert(h, t) ==
  /\ q_max[qh_queue[h]] <= q_count[qh_queue[h]]
  /\ Joined(h, t) < q_max[qt_queue[t]]

\* alert() of the head, then of the tail: a task that both know is woken by
\* the first.
SpliceAlerts(h, t) ==
  LET hd == q_head[qt_queue[t]]
      tl == q_tail[qh_queue[h]]
      W  == IF HeadAlert(h, t) THEN Idlers(hd, s_state) ELSE {}
      V  == IF TailAlert(h, t) THEN Idlers(tl, s_state) \ W ELSE {}
  IN
  /\ \E w \in WakeOrders(hd, W), v \in WakeOrders(tl, V) :
       runchain' = SpliceAt(runchain, WalkPast(runchain, s_time, clxck), w \o v)
  /\ s_state' = [s \in Scheds |-> IF s \in W \cup V THEN "RUNNING" ELSE s_state[s]]
  /\ s_time' = [s \in Scheds |-> IF s \in W \cup V THEN clxck ELSE s_time[s]]
  /\ o_link' = [o \in Objects |->
                  IF (o = hd /\ HeadAlert(h, t)) \/ (o = tl /\ TailAlert(h, t))
                  THEN <<>> ELSE o_link[o]]

Splice(h, t) ==
  /\ QCalling("splice")
  /\ ~InUse(h) /\ ~InUse(t)
  /\ Q!Splice(h, t)
  /\ SpliceAlerts(h, t)
  /\ UNCHANGED <<thistask, priority_sched, clxck, clock_task,
                 keep_waiting_count, call, phase, picked, error, mode, inside>>

----------------------------------------------------------------------------
(* The loops of wait() and waitvec() with the pending() of the queue ends. *)

QPending(o) ==
  CASE o \in Heads -> Q!HeadPending(o)
    [] o \in Tails -> Q!TailPending(o)
    [] OTHER       -> Pending(o)

QWaitReturns ==
  /\ InLoop("wait") /\ Free
  /\ \A o \in On : ~QPending(o)
  /\ Return
  /\ UNCHANGED <<o_link, oqueueVars, mode, inside>>

QWaitVecReturns ==
  /\ InLoop("waitvec") /\ Free
  /\ \E o \in On : ~QPending(o)
  /\ o_link' = [o \in Objects |-> IF o \in On THEN Without(o_link[o], thistask)
                                 ELSE o_link[o]]
  /\ Return
  /\ UNCHANGED <<oqueueVars, mode, inside>>

QLoopSleeps ==
  /\ \A o \in On : QPending(o)
  /\ Free
  /\ LoopSleeps
  /\ UNCHANGED <<oqueueVars, mode, inside>>

Sched(step) == step /\ UNCHANGED <<oqueueVars, mode, inside>>

----------------------------------------------------------------------------
QInit ==
  /\ Init
  /\ q_max \in [Queues -> Maxes]
  /\ q_count = [q \in Queues |-> 0]
  /\ q_ptr = [q \in Queues |-> None]
  /\ q_head = [q \in Queues |-> IF q = queue THEN head ELSE None]
  /\ q_tail = [q \in Queues |-> IF q = queue THEN tail ELSE None]
  /\ qh_queue = [h \in Heads |-> IF h = head THEN queue ELSE None]
  /\ qt_queue = [t \in Tails |-> IF t = tail THEN queue ELSE None]
  /\ mode \in {[e \in Heads \cup Tails |-> md] : md \in Modes}
  /\ o_next = [p \in Items |-> None]
  /\ heap = {queue, head, tail}
  /\ inside = [t \in Tasks |-> Outside]

Transfers ==
  \/ \E h \in Heads : Get(h) \/ \E p \in Items : PutBackOn(h, p)
  \/ \E t \in Tails, p \in Items : Put(t, p)
  \/ \E e \in Heads \cup Tails, md \in Modes : SetMode(e, md)

Resumed == GetAgain \/ PutAgain

QNext ==
  \/ Transfers \/ Resumed
  \/ Free /\ Sched(UserCall)
  \/ QWaitReturns \/ QWaitVecReturns \/ QLoopSleeps
  \/ Sched(Schedule)
  \/ Sched(Stopped)

QSpec == QInit /\ [][QNext]_vars

(* One process executes all of this; user code keeps getting and putting.  *)
QFairSpec ==
  /\ QSpec
  /\ WF_vars(Sched(Schedule))
  /\ WF_vars(Resumed)
  /\ WF_vars(QWaitReturns \/ QWaitVecReturns \/ QLoopSleeps)
  /\ WF_vars(Transfers)
----------------------------------------------------------------------------
QTypeOK ==
  /\ TypeOK
  /\ Q!TypeOK
  /\ mode \in [Heads \cup Tails -> Modes]
  /\ inside \in [Tasks -> Insides]

\* A task that sleeps in get() has nothing to get, one that sleeps in put()
\* has no room, and the queue end that will tell it otherwise knows of it.
\* (The clock task runs while it is IDLE.)
Asleep(t) ==
  /\ s_state[t] = "IDLE" /\ phase \in {"user", "schedule", "picked"}
  /\ phase = "user" => t # thistask

NobodySleepsBesideWork ==
  \A t \in Tasks : Asleep(t) /\ inside[t] # Outside =>
    /\ t \in Elems(o_link[inside[t].end])
    /\ inside[t].op = "get" => Q!HeadPending(inside[t].end)
    /\ inside[t].op = "put" => ~Q!HasRoom(qt_queue[inside[t].end])

\* The same of a task in wait() or waitvec() on the ends of queues.
NobodyWaitsForReadyEnds ==
  \A t \in Tasks : Asleep(t) /\ call[t].loop # "none" =>
    \A o \in call[t].on : t \in Elems(o_link[o]) /\ QPending(o)

\* With somebody at the other end who goes on, every get() and every put()
\* returns: no task is passed over for ever by those that come back, and the
\* program does not exit with tasks asleep, except before it is complete.
EveryCallReturns ==
  \A t \in Tasks : inside[t] # Outside ~>
    \/ inside[t] = Outside
    \/ phase = "exited" /\ \E u \in Tasks : ~Born(u)
============================================================================
