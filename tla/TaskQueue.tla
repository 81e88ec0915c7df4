----------------------------- MODULE TaskQueue ------------------------------
(***************************************************************************)
(* PerCoreTaskQueue (src/k3_aiScheduler/src/scheduler.rs:78-195): the      *)
(* bounded lock-free ring of one CPU core.  Every atomic load, store and   *)
(* compare-exchange of try_push and try_pop is one action, and so is each  *)
(* access to the UnsafeCell of a slot, so any interleaving of producers    *)
(* and consumers between two of them is a behaviour.                       *)
(*                                                                         *)
(* head, tail and the slot sequences are the usize counters of the code    *)
(* before wrapping.  TaskQueueProof shows that the code's wrapping_sub and *)
(* signed comparison, and its slot index, do not see the difference.       *)
(* Relaxed loads of head and tail may be stale: a stale value is one that  *)
(* was loaded earlier, which a thread stalled after its load also has.     *)
(***************************************************************************)
EXTENDS Integers, Sequences

CONSTANTS
  Capacity,    \* SCHEDULER_QUEUE_CAPACITY (64 in the code)
  Producers,   \* threads inside push_task_for_core
  Consumers,   \* threads inside take_task_for_core
  Tasks,       \* the AINodeUnits submitted
  NoTask       \* an uninitialised cell, or an empty hand

\* With a single slot the sequence of a published entry is the free sequence
\* of the next one: the protocol needs two.
ASSUME CapacityAssumption == Capacity \in Nat /\ Capacity >= 2

ASSUME NoTaskAssumption == NoTask \notin Tasks

VARIABLES
  tail,        \* next position producers compete for
  head,        \* next position consumers compete for
  seq,         \* QueueSlot::sequence of each slot
  cell,        \* QueueSlot::value of each slot
  ppc,         \* where each producer is in try_push
  ppos,        \* the local `tail` of each producer
  ptask,       \* the task each producer owns
  cpc,         \* where each consumer is in try_pop
  cpos,        \* the local `head` of each consumer
  ctask,       \* the task each consumer has moved out of its slot
  todo,        \* tasks nobody has submitted yet
  order,       \* history: tasks in the order their tail CAS succeeded
  returned     \* history: tasks try_pop has returned

producerVars == <<ppc, ppos, ptask, todo>>
consumerVars == <<cpc, cpos, ctask, returned>>
vars == <<tail, head, seq, cell, ppc, ppos, ptask, cpc, cpos, ctask, todo,
          order, returned>>

Slots == 0 .. Capacity - 1
Slot(position) == position % Capacity

\* sequence.wrapping_sub(position) as isize
Delta(sequence, position) == sequence - position

Writing(p) == ppc[p] \in {"write", "publish"}
Reading(c) == cpc[c] \in {"read", "release"}

-----------------------------------------------------------------------------

Init ==
  /\ tail = 0
  /\ head = 0
  /\ seq = [i \in Slots |-> i]
  /\ cell = [i \in Slots |-> NoTask]
  /\ ppc = [p \in Producers |-> "idle"]
  /\ ppos = [p \in Producers |-> 0]
  /\ ptask = [p \in Producers |-> NoTask]
  /\ cpc = [c \in Consumers |-> "load"]
  /\ cpos = [c \in Consumers |-> 0]
  /\ ctask = [c \in Consumers |-> NoTask]
  /\ todo = Tasks
  /\ order = <<>>
  /\ returned = {}

-----------------------------------------------------------------------------
(* Producers: push_task_for_core keeps calling try_push until it succeeds. *)

StartPush(p) ==
  /\ ppc[p] = "idle"
  /\ \E t \in todo :
       /\ ptask' = [ptask EXCEPT ![p] = t]
       /\ todo' = todo \ {t}
  /\ ppc' = [ppc EXCEPT ![p] = "load"]
  /\ UNCHANGED <<tail, head, seq, cell, ppos, order, consumerVars>>

LoadTail(p) ==
  /\ ppc[p] = "load"
  /\ ppos' = [ppos EXCEPT ![p] = tail]
  /\ ppc' = [ppc EXCEPT ![p] = "sequence"]
  /\ UNCHANGED <<tail, head, seq, cell, ptask, todo, order, consumerVars>>

\* The slot is free for this position: go on to the compare-exchange.
SeeFreeSlot(p) ==
  /\ ppc[p] = "sequence"
  /\ Delta(seq[Slot(ppos[p])], ppos[p]) = 0
  /\ ppc' = [ppc EXCEPT ![p] = "claim"]
  /\ UNCHANGED <<tail, head, seq, cell, ppos, ptask, todo, order, consumerVars>>

\* Mutant: the task is moved out of the Option before the slot is known to be free.
SeeFullTaskMoved(p) ==
  /\ ppc[p] = "sequence"
  /\ Delta(seq[Slot(ppos[p])], ppos[p]) < 0
  /\ ptask' = [ptask EXCEPT ![p] = NoTask]
  /\ ppc' = [ppc EXCEPT ![p] = "load"]
  /\ UNCHANGED <<tail, head, seq, cell, ppos, todo, order, consumerVars>>

\* Mutant: Full makes the submitter give up with its task.
SeeFullGiveUp(p) ==
  /\ ppc[p] = "sequence"
  /\ Delta(seq[Slot(ppos[p])], ppos[p]) < 0
  /\ ptask' = [ptask EXCEPT ![p] = NoTask]
  /\ ppc' = [ppc EXCEPT ![p] = "idle"]
  /\ UNCHANGED <<tail, head, seq, cell, ppos, todo, order, consumerVars>>

\* Mutant: any sequence but the expected one is taken for a full queue.
SeeFullOnMismatch(p) ==
  /\ ppc[p] = "sequence"
  /\ Delta(seq[Slot(ppos[p])], ppos[p]) # 0
  /\ ppc' = [ppc EXCEPT ![p] = "load"]
  /\ UNCHANGED <<tail, head, seq, cell, ppos, ptask, todo, order, consumerVars>>

\* try_push answers Full; push_task_for_core spins and calls it again.
SeeFull(p) ==
  /\ ppc[p] = "sequence"
  /\ Delta(seq[Slot(ppos[p])], ppos[p]) < 0
  /\ ppc' = [ppc EXCEPT ![p] = "load"]
  /\ UNCHANGED <<tail, head, seq, cell, ppos, ptask, todo, order, consumerVars>>

\* Another producer is ahead: reload the tail.
SeeClaimedSlot(p) ==
  /\ ppc[p] = "sequence"
  /\ Delta(seq[Slot(ppos[p])], ppos[p]) > 0
  /\ ppc' = [ppc EXCEPT ![p] = "load"]
  /\ UNCHANGED <<tail, head, seq, cell, ppos, ptask, todo, order, consumerVars>>

\* Mutant: the tail is stored, not compared and exchanged.
ClaimTailByStore(p) ==
  /\ ppc[p] = "claim"
  /\ tail' = ppos[p] + 1
  /\ order' = Append(order, ptask[p])
  /\ ppc' = [ppc EXCEPT ![p] = "write"]
  /\ UNCHANGED <<head, seq, cell, ppos, ptask, todo, consumerVars>>

ClaimTail(p) ==
  /\ ppc[p] = "claim"
  /\ tail = ppos[p]
  /\ tail' = tail + 1
  /\ order' = Append(order, ptask[p])
  /\ ppc' = [ppc EXCEPT ![p] = "write"]
  /\ UNCHANGED <<head, seq, cell, ppos, ptask, todo, consumerVars>>

\* compare_exchange_weak fails: the tail has moved, or spuriously.
LoseTail(p) ==
  /\ ppc[p] = "claim"
  /\ ppc' = [ppc EXCEPT ![p] = "load"]
  /\ UNCHANGED <<tail, head, seq, cell, ppos, ptask, todo, order, consumerVars>>

WriteSlot(p) ==
  /\ ppc[p] = "write"
  /\ cell' = [cell EXCEPT ![Slot(ppos[p])] = ptask[p]]
  /\ ppc' = [ppc EXCEPT ![p] = "publish"]
  /\ UNCHANGED <<tail, head, seq, ppos, ptask, todo, order, consumerVars>>

PublishSlot(p) ==
  /\ ppc[p] = "publish"
  /\ seq' = [seq EXCEPT ![Slot(ppos[p])] = ppos[p] + 1]
  /\ ptask' = [ptask EXCEPT ![p] = NoTask]
  /\ ppc' = [ppc EXCEPT ![p] = "idle"]
  /\ UNCHANGED <<tail, head, cell, ppos, todo, order, consumerVars>>

-----------------------------------------------------------------------------
(* Consumers: the worker calls try_pop again and again.                    *)

LoadHead(c) ==
  /\ cpc[c] = "load"
  /\ cpos' = [cpos EXCEPT ![c] = head]
  /\ cpc' = [cpc EXCEPT ![c] = "sequence"]
  /\ UNCHANGED <<tail, head, seq, cell, ctask, returned, order, producerVars>>

\* Mutant: a claimed slot is taken for a published one.
SeeClaimedAsPublished(c) ==
  /\ cpc[c] = "sequence"
  /\ cpos[c] < tail
  /\ Delta(seq[Slot(cpos[c])], cpos[c]) \in {0, 1}
  /\ cpc' = [cpc EXCEPT ![c] = "claim"]
  /\ UNCHANGED <<tail, head, seq, cell, cpos, ctask, returned, order, producerVars>>

SeePublishedSlot(c) ==
  /\ cpc[c] = "sequence"
  /\ Delta(seq[Slot(cpos[c])], cpos[c] + 1) = 0
  /\ cpc' = [cpc EXCEPT ![c] = "claim"]
  /\ UNCHANGED <<tail, head, seq, cell, cpos, ctask, returned, order, producerVars>>

\* try_pop answers Ok(None).
SeeEmpty(c) ==
  /\ cpc[c] = "sequence"
  /\ Delta(seq[Slot(cpos[c])], cpos[c] + 1) < 0
  /\ cpc' = [cpc EXCEPT ![c] = "load"]
  /\ UNCHANGED <<tail, head, seq, cell, cpos, ctask, returned, order, producerVars>>

SeeTakenSlot(c) ==
  /\ cpc[c] = "sequence"
  /\ Delta(seq[Slot(cpos[c])], cpos[c] + 1) > 0
  /\ cpc' = [cpc EXCEPT ![c] = "load"]
  /\ UNCHANGED <<tail, head, seq, cell, cpos, ctask, returned, order, producerVars>>

\* Mutant: the head is stored, not compared and exchanged.
ClaimHeadByStore(c) ==
  /\ cpc[c] = "claim"
  /\ head' = cpos[c] + 1
  /\ cpc' = [cpc EXCEPT ![c] = "read"]
  /\ UNCHANGED <<tail, seq, cell, cpos, ctask, returned, order, producerVars>>

ClaimHead(c) ==
  /\ cpc[c] = "claim"
  /\ head = cpos[c]
  /\ head' = head + 1
  /\ cpc' = [cpc EXCEPT ![c] = "read"]
  /\ UNCHANGED <<tail, seq, cell, cpos, ctask, returned, order, producerVars>>

LoseHead(c) ==
  /\ cpc[c] = "claim"
  /\ cpc' = [cpc EXCEPT ![c] = "load"]
  /\ UNCHANGED <<tail, head, seq, cell, cpos, ctask, returned, order, producerVars>>

\* assume_init_read: the bits stay in the cell, ownership moves out.
ReadSlot(c) ==
  /\ cpc[c] = "read"
  /\ ctask' = [ctask EXCEPT ![c] = cell[Slot(cpos[c])]]
  /\ cpc' = [cpc EXCEPT ![c] = "release"]
  /\ UNCHANGED <<tail, head, seq, cell, cpos, returned, order, producerVars>>

\* Mutant: the slot is released for the position before the one it serves next.
ReleaseSlotEarlyLap(c) ==
  /\ cpc[c] = "release"
  /\ seq' = [seq EXCEPT ![Slot(cpos[c])] = cpos[c] + Capacity - 1]
  /\ returned' = returned \cup {ctask[c]}
  /\ ctask' = [ctask EXCEPT ![c] = NoTask]
  /\ cpc' = [cpc EXCEPT ![c] = "load"]
  /\ UNCHANGED <<tail, head, cell, cpos, order, producerVars>>

ReleaseSlot(c) ==
  /\ cpc[c] = "release"
  /\ seq' = [seq EXCEPT ![Slot(cpos[c])] = cpos[c] + Capacity]
  /\ returned' = returned \cup {ctask[c]}
  /\ ctask' = [ctask EXCEPT ![c] = NoTask]
  /\ cpc' = [cpc EXCEPT ![c] = "load"]
  /\ UNCHANGED <<tail, head, cell, cpos, order, producerVars>>

-----------------------------------------------------------------------------

ProducerStep(p) ==
  \/ LoadTail(p)
  \/ SeeFreeSlot(p)
  \/ SeeFull(p)
  \/ SeeClaimedSlot(p)
  \/ ClaimTail(p)
  \/ LoseTail(p)
  \/ WriteSlot(p)
  \/ PublishSlot(p)

ConsumerStep(c) ==
  \/ LoadHead(c)
  \/ SeePublishedSlot(c)
  \/ SeeEmpty(c)
  \/ SeeTakenSlot(c)
  \/ ClaimHead(c)
  \/ LoseHead(c)
  \/ ReadSlot(c)
  \/ ReleaseSlot(c)

Next ==
  \/ \E p \in Producers : StartPush(p) \/ ProducerStep(p)
  \/ \E c \in Consumers : ConsumerStep(c)

Spec == Init /\ [][Next]_vars

\* Threads inside try_push and try_pop keep running (they are spinning, not
\* blocked), and a compare-exchange that keeps finding its expected value is
\* not refused for ever.  Nobody has to submit anything.
Fairness ==
  /\ \A p \in Producers : WF_vars(ProducerStep(p)) /\ SF_vars(ClaimTail(p))
  /\ \A c \in Consumers : WF_vars(ConsumerStep(c)) /\ SF_vars(ClaimHead(c))

FairSpec == Spec /\ Fairness

-----------------------------------------------------------------------------
(* Properties.                                                             *)

\* The state of the ring and of the threads inside it; a thread past its
\* compare-exchange is on a position that was really claimed, and only a
\* thread that owns a task is inside try_push.
TypeOK ==
  /\ tail \in Nat
  /\ head \in Nat
  /\ seq \in [Slots -> Nat]
  /\ cell \in [Slots -> Tasks \cup {NoTask}]
  /\ ppc \in [Producers -> {"idle", "load", "sequence", "claim", "write", "publish"}]
  /\ ppos \in [Producers -> Nat]
  /\ ptask \in [Producers -> Tasks \cup {NoTask}]
  /\ \A p \in Producers : ppc[p] # "idle" => ptask[p] # NoTask
  /\ cpc \in [Consumers -> {"load", "sequence", "claim", "read", "release"}]
  /\ cpos \in [Consumers -> Nat]
  /\ ctask \in [Consumers -> Tasks \cup {NoTask}]
  /\ todo \subseteq Tasks
  /\ order \in Seq(Tasks)
  /\ Len(order) = tail
  /\ returned \subseteq Tasks \cup {NoTask}

\* "only one writer or reader of a slot in one generation" (the SAFETY note
\* of QueueSlot, scheduler.rs:75): two threads past their compare-exchange
\* never have the same slot, so the UnsafeCell accesses do not race.
SlotExclusive ==
  /\ \A p, q \in Producers :
       p # q /\ Writing(p) /\ Writing(q) => Slot(ppos[p]) # Slot(ppos[q])
  /\ \A c, d \in Consumers :
       c # d /\ Reading(c) /\ Reading(d) => Slot(cpos[c]) # Slot(cpos[d])
  /\ \A p \in Producers, c \in Consumers :
       Writing(p) /\ Reading(c) => Slot(ppos[p]) # Slot(cpos[c])

\* A consumer moves out exactly the task whose producer claimed the
\* consumer's position: never an uninitialised cell, never the task of
\* another lap, whatever the stalls between load, claim, write and publish.
ReadsWhatWasPushed ==
  \A c \in Consumers :
    /\ cpc[c] = "read" => cell[Slot(cpos[c])] = order[cpos[c] + 1]
    /\ cpc[c] = "release" => ctask[c] = order[cpos[c] + 1]

\* Where a task can be.  A claimed task is its producer's until the slot is
\* written, and the queue's until a consumer has read it.
InHand(t) == \E p \in Producers : ptask[p] = t /\ ~Writing(p)
InLine(t) == \E i \in head .. tail - 1 : order[i + 1] = t
BeingRead(t) == \E c \in Consumers : Reading(c) /\ order[cpos[c] + 1] = t

\* Every submitted task is in exactly one place: with its submitter, in
\* line, with the consumer that took it, or returned by try_pop.  None is
\* lost, none is returned twice.
ExactlyOnePlace ==
  \A t \in Tasks :
    LET place == <<t \in todo, InHand(t), InLine(t), BeingRead(t), t \in returned>>
    IN  \E k \in 1 .. 5 : place[k] /\ \A j \in 1 .. 5 \ {k} : ~place[j]

\* Full and None are answers about the queue, not about a lost race.  Full:
\* the entry Capacity positions before the tail still occupies its slot.
\* None: the entry at the head is not claimed, or claimed and not published.
RoomAt(i) == i < Capacity \/ (i - Capacity < head /\ \A c \in Consumers : ~(Reading(c) /\ cpos[c] = i - Capacity))
PublishedAt(i) == i < tail /\ \A p \in Producers : ~(Writing(p) /\ ppos[p] = i)

AnswersAreTrue ==
  [][ /\ \A p \in Producers : SeeFull(p) => ~RoomAt(tail)
      /\ \A c \in Consumers : SeeEmpty(c) => ~PublishedAt(head) ]_vars

\* The ring implements ReadyQueue: what a consumer will read is already in
\* its hand when its compare-exchange succeeds.
LinePublished == {i \in 0 .. tail - 1 : \A p \in Producers : ~(Writing(p) /\ ppos[p] = i)}
LineFreed == {i \in 0 .. head - 1 : \A c \in Consumers : ~(Reading(c) /\ cpos[c] = i)}
LineHand == [c \in Consumers |-> IF cpc[c] = "read" THEN cell[Slot(cpos[c])] ELSE ctask[c]]

Line == INSTANCE ReadyQueue WITH
          published <- LinePublished, freed <- LineFreed, hand <- LineHand

ImplementsReadyQueue == Line!Spec

\* Every task somebody starts to push is returned by try_pop, although
\* producers stall, retry on Full and lose compare-exchanges.
EveryPushReturned == \A t \in Tasks : t \notin todo ~> t \in returned
=============================================================================
