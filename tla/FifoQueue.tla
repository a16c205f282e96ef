----------------------------- MODULE FifoQueue -----------------------------
(***************************************************************************)
(* What the queues of the task library promise their users: each queue is  *)
(* a bounded first-in first-out line of objects with a head and a tail, an *)
(* object taken from the head may be put back there, and one line may be   *)
(* joined to the end of another.  Nothing is said here about how the       *)
(* objects are linked or which end objects are attached.                   *)
(***************************************************************************)
EXTENDS Integers, Sequences

CONSTANTS Queues, Items

VARIABLES content,  \* what each queue holds, the head first
          limit     \* how many objects each queue accepts

fifoVars == <<content, limit>>

Queued(p) == \E q \in Queues : \E i \in DOMAIN content[q] : content[q][i] = p

Room(q) == Len(content[q]) < limit[q]

\* Only the lines of the queues in S change.
Only(S) == content' = [q \in Queues |-> IF q \in S THEN content'[q] ELSE content[q]]

Put(q) ==
  /\ Only({q})
  /\ Room(q)
  /\ \E p \in Items : content'[q] = Append(content[q], p) /\ ~Queued(p)

Get(q) ==
  /\ Only({q})
  /\ content[q] # <<>>
  /\ content'[q] = Tail(content[q])

PutBack(q) ==
  /\ Only({q})
  /\ Room(q)
  /\ \E p \in Items : content'[q] = <<p>> \o content[q] /\ ~Queued(p)

\* The objects of queue q go behind those of queue r.
Join(q, r) ==
  /\ q # r
  /\ Only({q, r})
  /\ content'[q] = <<>>
  /\ content'[r] = content[r] \o content[q]

Move ==
  /\ UNCHANGED limit
  /\ \/ \E q \in Queues : Get(q) \/ Put(q) \/ PutBack(q)
     \/ \E q, r \in Queues : Join(q, r)

SetLimits == UNCHANGED content /\ limit' \in [Queues -> Nat \ {0}]

Init ==
  /\ content = [q \in Queues |-> <<>>]
  /\ limit \in [Queues -> Nat \ {0}]

Next == SetLimits \/ Move

Spec == Init /\ [][Next]_fifoVars
============================================================================
