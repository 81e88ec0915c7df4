----------------------------- MODULE ReadyQueue -----------------------------
(***************************************************************************)
(* What the per-core ready queue promises to the scheduler, without the    *)
(* ring: a line of tasks in claim order.  A submitter first claims the     *)
(* next position, later makes the task visible; the worker takes positions *)
(* in order, only once visible, and gives the room back after moving the   *)
(* task out.  A claim needs the room of the position Capacity before it.   *)
(*                                                                         *)
(* TaskQueue, the lock-free ring of src/k3_aiScheduler/src/scheduler.rs,   *)
(* implements this module; Scheduler is built on its operations.           *)
(***************************************************************************)
EXTENDS Integers, Sequences

CONSTANTS
  Capacity,    \* SCHEDULER_QUEUE_CAPACITY
  Tasks,       \* the AINodeUnits that may be pushed
  Consumers,   \* the threads that pop
  NoTask       \* an empty hand

VARIABLES
  order,       \* tasks in the order their positions were claimed; position i is order[i+1]
  published,   \* claimed positions whose task is visible to consumers
  head,        \* next position to be taken
  freed,       \* taken positions whose room was given back
  hand         \* the task each consumer has taken and not yet returned

lineVars == <<order, published, head, freed, hand>>

tail == Len(order)

HasRoom == tail < Capacity \/ (tail - Capacity) \in freed

Init ==
  /\ order = <<>>
  /\ published = {}
  /\ head = 0
  /\ freed = {}
  /\ hand = [c \in Consumers |-> NoTask]

Claim(t) ==
  /\ HasRoom
  /\ order' = Append(order, t)
  /\ UNCHANGED <<published, head, freed, hand>>

Publish(i) ==
  /\ i \in (0 .. tail - 1) \ published
  /\ published' = published \cup {i}
  /\ UNCHANGED <<order, head, freed, hand>>

Take(c) ==
  /\ hand[c] = NoTask
  /\ head \in published
  /\ head' = head + 1
  /\ hand' = [hand EXCEPT ![c] = order[head + 1]]
  /\ UNCHANGED <<order, published, freed>>

Free(c, i) ==
  /\ i \in (0 .. head - 1) \ freed
  /\ hand[c] = order[i + 1]
  /\ freed' = freed \cup {i}
  /\ hand' = [hand EXCEPT ![c] = NoTask]
  /\ UNCHANGED <<order, published, head>>

Next ==
  \/ \E t \in Tasks : Claim(t)
  \/ \E i \in 0 .. tail - 1 : Publish(i)
  \/ \E c \in Consumers : Take(c)
  \/ \E c \in Consumers, i \in 0 .. head - 1 : Free(c, i)

Spec == Init /\ [][Next]_lineVars
=============================================================================
