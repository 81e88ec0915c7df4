--------------------------- MODULE TaskQueueProof ---------------------------
(***************************************************************************)
(* The ring of TaskQueue is correct for every capacity of at least two,    *)
(* every set of producers and consumers and every number of pushes: the    *)
(* types, SlotExclusive, ReadsWhatWasPushed and ExactlyOnePlace hold in    *)
(* every reachable state, the answers of try_push and try_pop are true,    *)
(* and every step is a step of ReadyQueue or leaves it unchanged.          *)
(* The argument is RingInvariant, which says what the sequence of the slot *)
(* of every position in tail-Capacity .. head+Capacity-1 is.               *)
(***************************************************************************)
EXTENDS TaskQueue, TLAPS

\* Counters and sequences: a claimed position not yet taken holds its task
\* unless its producer is still writing; a position not yet claimed is free
\* unless the consumer of the previous lap is still reading.
ClaimedSlots ==
  \A i \in head .. tail - 1 :
    \/ seq[Slot(i)] = i + 1 /\ cell[Slot(i)] = order[i + 1]
    \/ \E p \in Producers : Writing(p) /\ ppos[p] = i

FreeSlots ==
  \A i \in tail .. head + Capacity - 1 :
    \/ seq[Slot(i)] = i
    \/ \E c \in Consumers : Reading(c) /\ cpos[c] + Capacity = i

\* A producer past its compare-exchange owns a position nobody else has.
Writers ==
  \A p \in Producers : Writing(p) =>
    /\ ppos[p] \in head .. tail - 1
    /\ seq[Slot(ppos[p])] = ppos[p]
    /\ order[ppos[p] + 1] = ptask[p]
    /\ ppc[p] = "publish" => cell[Slot(ppos[p])] = ptask[p]
    /\ \A q \in Producers : Writing(q) /\ ppos[q] = ppos[p] => q = p

\* So does a consumer, and the lap after it has not been claimed.
Readers ==
  \A c \in Consumers : Reading(c) =>
    /\ cpos[c] < head
    /\ tail <= cpos[c] + Capacity
    /\ seq[Slot(cpos[c])] = cpos[c] + 1
    /\ cpc[c] = "read" => cell[Slot(cpos[c])] = order[cpos[c] + 1]
    /\ cpc[c] = "release" => ctask[c] = order[cpos[c] + 1]
    /\ \A d \in Consumers : Reading(d) /\ cpos[d] = cpos[c] => d = c

\* What a thread has loaded before its compare-exchange is old or still true.
Loaded ==
  /\ \A p \in Producers :
       /\ ppc[p] \in {"sequence", "claim"} => ppos[p] <= tail
       /\ ppc[p] = "claim" /\ ppos[p] = tail => seq[Slot(tail)] = tail
  /\ \A c \in Consumers :
       /\ cpc[c] \in {"sequence", "claim"} => cpos[c] <= head
       /\ cpc[c] = "claim" /\ cpos[c] = head => seq[Slot(head)] = head + 1

RingInvariant ==
  /\ TypeOK
  /\ head <= tail
  /\ tail <= head + Capacity
  /\ ClaimedSlots
  /\ FreeSlots
  /\ Writers
  /\ Readers
  /\ Loaded

-----------------------------------------------------------------------------
(* Slots and positions.                                                    *)

\* Positions less than a lap apart have different slots.
LEMMA SlotsDiffer ==
  ASSUME NEW i \in Nat, NEW j \in Nat, i < j, j < i + Capacity
  PROVE  Slot(i) # Slot(j)
<1> USE CapacityAssumption
<1> DEFINE qi == i \div Capacity
           qj == j \div Capacity
<1>1. /\ qi \in Int /\ qj \in Int
      /\ i = Capacity * qi + (i % Capacity)
      /\ j = Capacity * qj + (j % Capacity)
  OBVIOUS
<1>2. SUFFICES ASSUME i % Capacity = j % Capacity PROVE FALSE
  BY DEF Slot
<1> HIDE DEF qi, qj
<1>3. j - i = Capacity * qj - Capacity * qi
  BY <1>1, <1>2
<1>4. Capacity * qj - Capacity * qi = Capacity * (qj - qi)
  BY <1>1
<1>5. CASE qj - qi <= 0
  BY <1>1, <1>3, <1>4, <1>5
<1>6. CASE qj - qi >= 1
  <2>1. Capacity * (qj - qi) >= Capacity
    BY <1>1, <1>6
  <2> QED BY <2>1, <1>3, <1>4
<1> QED BY <1>1, <1>5, <1>6

\* A quotient that grows by one lap grows by one.
LEMMA OneLap ==
  ASSUME NEW k \in Int, NEW r \in 0 .. Capacity - 1, NEW s \in 0 .. Capacity - 1,
         Capacity * k = Capacity + r - s
  PROVE  r = s
<1> USE CapacityAssumption
<1>1. CASE k <= 0
  <2>1. Capacity * k <= 0
    BY <1>1
  <2> QED BY <2>1
<1>2. CASE k >= 2
  <2>1. Capacity * k >= 2 * Capacity
    BY <1>2
  <2> QED BY <2>1
<1>3. CASE k = 1
  BY <1>3
<1> QED BY <1>1, <1>2, <1>3

\* A lap later a position has the same slot again.
LEMMA SlotOfNextLap ==
  ASSUME NEW i \in Nat
  PROVE  Slot(i + Capacity) = Slot(i)
<1> USE CapacityAssumption
<1>1. PICK q \in Int, r \in 0 .. Capacity - 1 :
        i = Capacity * q + r /\ r = i % Capacity
  <2>1. /\ i \div Capacity \in Int
        /\ i % Capacity \in 0 .. Capacity - 1
        /\ i = Capacity * (i \div Capacity) + (i % Capacity)
    OBVIOUS
  <2> QED BY <2>1
<1>2. PICK p \in Int, s \in 0 .. Capacity - 1 :
        i + Capacity = Capacity * p + s /\ s = (i + Capacity) % Capacity
  <2> DEFINE j == i + Capacity
  <2>1. j \in Nat
    OBVIOUS
  <2> HIDE DEF j
  <2>2. /\ j \div Capacity \in Int
        /\ j % Capacity \in 0 .. Capacity - 1
        /\ j = Capacity * (j \div Capacity) + (j % Capacity)
    BY <2>1
  <2> QED BY <2>2 DEF j
<1>3. Capacity * (p - q) = Capacity * p - Capacity * q
  BY <1>1, <1>2
<1>4. PICK x \in Int : x = Capacity * q
  BY <1>1
<1>5. PICK y \in Int : y = Capacity * p
  BY <1>2
<1>6. Capacity * (p - q) = Capacity + r - s
  BY <1>1, <1>2, <1>3, <1>4, <1>5
<1>7. p - q \in Int
  BY <1>1, <1>2
<1>8. r = s
  BY <1>6, <1>7, OneLap
<1> QED BY <1>1, <1>2, <1>8 DEF Slot

LEMMA SlotInRange ==
  ASSUME NEW i \in Nat
  PROVE  Slot(i) \in Slots
BY CapacityAssumption DEF Slot, Slots

\* The same, whichever of the two comes first.
LEMMA SlotsDifferEither ==
  ASSUME NEW i \in Nat, NEW j \in Nat, i # j, j < i + Capacity, i < j + Capacity
  PROVE  Slot(i) # Slot(j)
<1>1. CASE i < j
  BY <1>1, SlotsDiffer
<1>2. CASE j < i
  BY <1>2, SlotsDiffer
<1> QED BY <1>1, <1>2

-----------------------------------------------------------------------------
(* Types.                                                                  *)

LEMMA StoreSequence ==
  ASSUME NEW f \in [Slots -> Nat], NEW x, NEW v \in Nat
  PROVE  [f EXCEPT ![x] = v] \in [Slots -> Nat]
OBVIOUS

LEMMA TypeInit == Init => TypeOK
BY CapacityAssumption DEF Init, TypeOK, Slots

LEMMA TypeNext == TypeOK /\ [Next]_vars => TypeOK'
<1> SUFFICES ASSUME TypeOK, [Next]_vars PROVE TypeOK'
  OBVIOUS
<1> USE CapacityAssumption, NoTaskAssumption DEF TypeOK, producerVars, consumerVars
<1>1. ASSUME NEW p \in Producers, StartPush(p) PROVE TypeOK'
  BY <1>1 DEF StartPush
<1>2. ASSUME NEW p \in Producers, LoadTail(p) PROVE TypeOK'
  BY <1>2 DEF LoadTail
<1>3. ASSUME NEW p \in Producers, SeeFreeSlot(p) \/ SeeFull(p) \/ SeeClaimedSlot(p) \/ LoseTail(p)
      PROVE  TypeOK'
  BY <1>3 DEF SeeFreeSlot, SeeFull, SeeClaimedSlot, LoseTail
<1>4. ASSUME NEW p \in Producers, ClaimTail(p) PROVE TypeOK'
  BY <1>4 DEF ClaimTail
<1>5. ASSUME NEW p \in Producers, WriteSlot(p) PROVE TypeOK'
  BY <1>5, SlotInRange DEF WriteSlot
<1>6. ASSUME NEW p \in Producers, PublishSlot(p) PROVE TypeOK'
  <2>1. seq' \in [Slots -> Nat]
    <3>1. ppos[p] + 1 \in Nat
      OBVIOUS
    <3> QED BY <1>6, <3>1, StoreSequence DEF PublishSlot
  <2>2. /\ ptask' \in [Producers -> Tasks \cup {NoTask}]
        /\ ppc' \in [Producers -> {"idle", "load", "sequence", "claim", "write", "publish"}]
        /\ \A q \in Producers : ppc'[q] # "idle" => ptask'[q] # NoTask
    BY <1>6 DEF PublishSlot
  <2> QED BY <1>6, <2>1, <2>2 DEF PublishSlot
<1>7. ASSUME NEW c \in Consumers, LoadHead(c) PROVE TypeOK'
  BY <1>7 DEF LoadHead
<1>8. ASSUME NEW c \in Consumers, SeePublishedSlot(c) \/ SeeEmpty(c) \/ SeeTakenSlot(c) \/ LoseHead(c)
      PROVE  TypeOK'
  BY <1>8 DEF SeePublishedSlot, SeeEmpty, SeeTakenSlot, LoseHead
<1>9. ASSUME NEW c \in Consumers, ClaimHead(c) PROVE TypeOK'
  BY <1>9 DEF ClaimHead
<1>10. ASSUME NEW c \in Consumers, ReadSlot(c) PROVE TypeOK'
  BY <1>10, SlotInRange DEF ReadSlot
<1>11. ASSUME NEW c \in Consumers, ReleaseSlot(c) PROVE TypeOK'
  <2>1. seq' \in [Slots -> Nat]
    <3>1. cpos[c] + Capacity \in Nat
      OBVIOUS
    <3> QED BY <1>11, <3>1, StoreSequence DEF ReleaseSlot
  <2>2. /\ ctask' \in [Consumers -> Tasks \cup {NoTask}]
        /\ cpc' \in [Consumers -> {"load", "sequence", "claim", "read", "release"}]
        /\ returned' \subseteq Tasks \cup {NoTask}
    BY <1>11 DEF ReleaseSlot
  <2> QED BY <1>11, <2>1, <2>2 DEF ReleaseSlot
<1>12. CASE UNCHANGED vars
  BY <1>12 DEF vars
<1> QED
  BY <1>1, <1>2, <1>3, <1>4, <1>5, <1>6, <1>7, <1>8, <1>9, <1>10, <1>11, <1>12
  DEF Next, ProducerStep, ConsumerStep

\* The ring's state has the types of TypeOK, for every capacity and every
\* set of threads and tasks.
THEOREM TypeCorrect == Spec => []TypeOK
<1>1. TypeOK /\ [Next]_vars => TypeOK'
  BY TypeNext
<1> QED BY TypeInit, <1>1, PTL DEF Spec

-----------------------------------------------------------------------------
(* RingInvariant, one lemma per kind of step.                              *)

LEMMA RingInit == Init => RingInvariant
<1> SUFFICES ASSUME Init PROVE RingInvariant
  OBVIOUS
<1>1. TypeOK
  BY TypeInit
<1>2. head <= tail /\ tail <= head + Capacity
  BY CapacityAssumption DEF Init
<1>3. ClaimedSlots
  BY DEF Init, ClaimedSlots
<1>4. FreeSlots
  <2> SUFFICES ASSUME NEW i \in tail .. head + Capacity - 1 PROVE seq[Slot(i)] = i
    BY DEF FreeSlots
  <2>1. i \in 0 .. Capacity - 1
    BY CapacityAssumption DEF Init
  <2>2. Slot(i) = i
    BY <2>1, CapacityAssumption DEF Slot
  <2> QED BY <2>1, <2>2 DEF Init, Slots
<1>5. Writers /\ Readers /\ Loaded
  BY DEF Init, Writers, Readers, Loaded, Writing, Reading
<1> QED BY <1>1, <1>2, <1>3, <1>4, <1>5 DEF RingInvariant

\* Steps that only move a producer that has claimed nothing.
LEMMA QuietProducerKeeps ==
  ASSUME RingInvariant, TypeOK', NEW p \in Producers,
         \/ StartPush(p) \/ LoadTail(p) \/ SeeFreeSlot(p) \/ SeeFull(p)
         \/ SeeClaimedSlot(p) \/ LoseTail(p)
  PROVE  RingInvariant'
<1> USE DEF RingInvariant, TypeOK, Writing, Reading
<1>1. /\ UNCHANGED <<tail, head, seq, cell, order, cpc, cpos, ctask>>
      /\ ~Writing(p) /\ ~Writing(p)'
      /\ \A q \in Producers : q # p =>
           ppc'[q] = ppc[q] /\ ppos'[q] = ppos[q] /\ ptask'[q] = ptask[q]
  BY DEF StartPush, LoadTail, SeeFreeSlot, SeeFull, SeeClaimedSlot, LoseTail, consumerVars
<1>2. /\ ppc'[p] \in {"sequence", "claim"} => ppos'[p] <= tail
      /\ ppc'[p] = "claim" /\ ppos'[p] = tail => seq[Slot(tail)] = tail
  <2>1. CASE StartPush(p) \/ SeeFull(p) \/ SeeClaimedSlot(p) \/ LoseTail(p)
    BY <2>1 DEF StartPush, SeeFull, SeeClaimedSlot, LoseTail
  <2>2. CASE LoadTail(p)
    BY <2>2 DEF LoadTail
  <2>3. CASE SeeFreeSlot(p)
    <3>1. ppos'[p] = ppos[p] /\ seq[Slot(ppos[p])] - ppos[p] = 0 /\ ppos[p] <= tail
      BY <2>3 DEF SeeFreeSlot, Loaded, Delta
    <3>2. CASE ppos[p] = tail
      <4>1. seq[Slot(tail)] \in Nat
        BY SlotInRange
      <4> QED BY <3>1, <3>2, <4>1
    <3> QED BY <3>1, <3>2
  <2> QED BY <2>1, <2>2, <2>3
<1>3. FreeSlots'
  BY <1>1 DEF FreeSlots
<1>4. \A q \in Producers :
        /\ Writing(q)' <=> Writing(q)
        /\ Writing(q) => ppos'[q] = ppos[q] /\ ptask'[q] = ptask[q] /\ ppc'[q] = ppc[q]
  BY <1>1
<1> HIDE DEF Writing
<1>5. ClaimedSlots'
  BY <1>1, <1>4 DEF ClaimedSlots
<1>6. Writers'
  BY <1>1, <1>4 DEF Writers
<1>7. Readers'
  BY <1>1 DEF Readers
<1>8. Loaded'
  BY <1>1, <1>2 DEF Loaded
<1> QED BY <1>1, <1>3, <1>5, <1>6, <1>7, <1>8

\* Steps that only move a consumer that has claimed nothing.
LEMMA QuietConsumerKeeps ==
  ASSUME RingInvariant, TypeOK', NEW c \in Consumers,
         \/ LoadHead(c) \/ SeePublishedSlot(c) \/ SeeEmpty(c)
         \/ SeeTakenSlot(c) \/ LoseHead(c)
  PROVE  RingInvariant'
<1> USE DEF RingInvariant, TypeOK, Writing, Reading
<1>1. /\ UNCHANGED <<tail, head, seq, cell, order, ppc, ppos, ptask>>
      /\ ~Reading(c) /\ ~Reading(c)'
      /\ \A d \in Consumers : d # c =>
           cpc'[d] = cpc[d] /\ cpos'[d] = cpos[d] /\ ctask'[d] = ctask[d]
  BY DEF LoadHead, SeePublishedSlot, SeeEmpty, SeeTakenSlot, LoseHead, producerVars
<1>2. /\ cpc'[c] \in {"sequence", "claim"} => cpos'[c] <= head
      /\ cpc'[c] = "claim" /\ cpos'[c] = head => seq[Slot(head)] = head + 1
  <2>1. CASE SeeEmpty(c) \/ SeeTakenSlot(c) \/ LoseHead(c)
    BY <2>1 DEF SeeEmpty, SeeTakenSlot, LoseHead
  <2>2. CASE LoadHead(c)
    BY <2>2 DEF LoadHead
  <2>3. CASE SeePublishedSlot(c)
    <3>1. cpos'[c] = cpos[c] /\ seq[Slot(cpos[c])] - (cpos[c] + 1) = 0 /\ cpos[c] <= head
      BY <2>3 DEF SeePublishedSlot, Loaded, Delta
    <3>2. CASE cpos[c] = head
      <4>1. seq[Slot(head)] \in Nat
        BY SlotInRange
      <4> QED BY <3>1, <3>2, <4>1
    <3> QED BY <3>1, <3>2
  <2> QED BY <2>1, <2>2, <2>3
<1>3. ClaimedSlots'
  BY <1>1 DEF ClaimedSlots
<1>4. \A d \in Consumers :
        /\ Reading(d)' <=> Reading(d)
        /\ Reading(d) => cpos'[d] = cpos[d] /\ ctask'[d] = ctask[d] /\ cpc'[d] = cpc[d]
  BY <1>1
<1> HIDE DEF Reading
<1>5. FreeSlots'
  BY <1>1, <1>4 DEF FreeSlots
<1>6. Writers'
  BY <1>1 DEF Writers
<1>7. Readers'
  BY <1>1, <1>4 DEF Readers
<1>8. Loaded'
  BY <1>1, <1>2 DEF Loaded
<1> QED BY <1>1, <1>3, <1>5, <1>6, <1>7, <1>8

\* A producer whose compare-exchange succeeds found its slot free: the ring
\* has room, and the consumer of the lap before has released the slot.
LEMMA ClaimedTailIsFree ==
  ASSUME RingInvariant, seq[Slot(tail)] = tail
  PROVE  /\ tail < head + Capacity
         /\ \A c \in Consumers : Reading(c) => tail # cpos[c] + Capacity
<1> USE CapacityAssumption DEF RingInvariant, TypeOK
<1>1. ASSUME tail = head + Capacity PROVE FALSE
  <2>1. Slot(tail) = Slot(head)
    BY <1>1, SlotOfNextLap
  <2>2. head \in head .. tail - 1
    BY <1>1
  <2>3. CASE seq[Slot(head)] = head + 1
    BY <1>1, <2>1, <2>3
  <2>4. CASE \E p \in Producers : Writing(p) /\ ppos[p] = head
    <3>1. seq[Slot(head)] = head
      BY <2>4 DEF Writers
    <3> QED BY <1>1, <2>1, <3>1
  <2> QED BY <2>2, <2>3, <2>4 DEF ClaimedSlots
<1>2. ASSUME NEW c \in Consumers, Reading(c), tail = cpos[c] + Capacity PROVE FALSE
  <2>1. Slot(tail) = Slot(cpos[c])
    BY <1>2, SlotOfNextLap
  <2>2. seq[Slot(cpos[c])] = cpos[c] + 1
    BY <1>2 DEF Readers
  <2> QED BY <1>2, <2>1, <2>2
<1> QED BY <1>1, <1>2

LEMMA ClaimTailKeeps ==
  ASSUME RingInvariant, TypeOK', NEW p \in Producers, ClaimTail(p)
  PROVE  RingInvariant'
<1> USE DEF RingInvariant, TypeOK
<1>1. /\ ppos[p] = tail /\ ppc[p] = "claim" /\ ppc'[p] = "write"
      /\ tail' = tail + 1
      /\ UNCHANGED <<head, seq, cell, ppos, ptask, cpc, cpos, ctask>>
      /\ order' = Append(order, ptask[p])
      /\ \A q \in Producers : q # p => ppc'[q] = ppc[q]
  BY DEF ClaimTail, consumerVars
<1>2. seq[Slot(tail)] = tail
  BY <1>1 DEF Loaded
<1>3. /\ tail < head + Capacity
      /\ \A c \in Consumers : Reading(c) => tail # cpos[c] + Capacity
  BY <1>2, ClaimedTailIsFree
<1>4. /\ \A i \in 0 .. tail - 1 : order'[i + 1] = order[i + 1]
      /\ order'[tail + 1] = ptask[p]
  <2>1. ptask[p] \in Tasks
    BY <1>1
  <2> QED BY <1>1, <2>1
<1>5. /\ ~Writing(p) /\ Writing(p)'
      /\ \A q \in Producers : q # p => (Writing(q)' <=> Writing(q))
      /\ \A c \in Consumers : Reading(c)' <=> Reading(c)
  BY <1>1 DEF Writing, Reading
<1>6. ClaimedSlots'
  <2> SUFFICES ASSUME NEW i \in head .. tail
               PROVE  \/ seq[Slot(i)] = i + 1 /\ cell[Slot(i)] = order'[i + 1]
                      \/ \E q \in Producers : Writing(q)' /\ ppos[q] = i
    BY <1>1 DEF ClaimedSlots
  <2>1. CASE i = tail
    BY <2>1, <1>1, <1>5
  <2>2. CASE i < tail
    <3>1. i \in head .. tail - 1 /\ i \in 0 .. tail - 1
      BY <2>2
    <3>2. CASE seq[Slot(i)] = i + 1 /\ cell[Slot(i)] = order[i + 1]
      BY <3>1, <3>2, <1>4
    <3>3. CASE \E q \in Producers : Writing(q) /\ ppos[q] = i
      BY <3>3, <1>5
    <3> QED BY <3>1, <3>2, <3>3 DEF ClaimedSlots
  <2> QED BY <2>1, <2>2
<1>7. FreeSlots'
  BY <1>1, <1>5 DEF FreeSlots
<1>8. Writers'
  <2> SUFFICES ASSUME NEW q \in Producers, Writing(q)'
               PROVE  /\ ppos[q] \in head .. tail
                      /\ seq[Slot(ppos[q])] = ppos[q]
                      /\ order'[ppos[q] + 1] = ptask[q]
                      /\ ppc'[q] = "publish" => cell[Slot(ppos[q])] = ptask[q]
                      /\ \A r \in Producers : Writing(r)' /\ ppos[r] = ppos[q] => r = q
    BY <1>1 DEF Writers
  <2>1. \A r \in Producers : Writing(r) => ppos[r] \in head .. tail - 1
    BY DEF Writers
  <2>2. CASE q = p
    BY <2>1, <2>2, <1>1, <1>2, <1>4, <1>5
  <2>3. CASE q # p
    BY <2>1, <2>3, <1>1, <1>4, <1>5 DEF Writers
  <2> QED BY <2>2, <2>3
<1>9. Readers'
  <2> SUFFICES ASSUME NEW c \in Consumers, Reading(c)
               PROVE  /\ cpos[c] < head
                      /\ tail + 1 <= cpos[c] + Capacity
                      /\ seq[Slot(cpos[c])] = cpos[c] + 1
                      /\ cpc[c] = "read" => cell[Slot(cpos[c])] = order'[cpos[c] + 1]
                      /\ cpc[c] = "release" => ctask[c] = order'[cpos[c] + 1]
                      /\ \A d \in Consumers : Reading(d) /\ cpos[d] = cpos[c] => d = c
    BY <1>1, <1>5 DEF Readers
  <2>1. cpos[c] \in 0 .. tail - 1
    BY DEF Readers
  <2>2. tail + 1 <= cpos[c] + Capacity
    <3>1. tail <= cpos[c] + Capacity
      BY DEF Readers
    <3>2. tail # cpos[c] + Capacity
      BY <1>3
    <3>3. tail \in Int /\ cpos[c] + Capacity \in Int
      BY CapacityAssumption
    <3>4. \A x, y \in Int : x <= y /\ x # y => x + 1 <= y
      OBVIOUS
    <3> QED BY ONLY <3>1, <3>2, <3>3, <3>4
  <2> QED BY <2>1, <2>2, <1>4 DEF Readers
<1>10. Loaded'
  <2>1. ASSUME NEW q \in Producers, ppc'[q] \in {"sequence", "claim"}
        PROVE  ppos[q] <= tail
    BY <2>1, <1>1 DEF Loaded
  <2>2. \A q \in Producers : ppos[q] \in Nat
    OBVIOUS
  <2> QED BY <2>1, <2>2, <1>1 DEF Loaded
<1>11. head <= tail' /\ tail' <= head + Capacity
  BY <1>1, <1>3, CapacityAssumption
<1> QED BY <1>1, <1>6, <1>7, <1>8, <1>9, <1>10, <1>11

LEMMA WriteSlotKeeps ==
  ASSUME RingInvariant, TypeOK', NEW p \in Producers, WriteSlot(p)
  PROVE  RingInvariant'
<1> USE CapacityAssumption DEF RingInvariant, TypeOK
<1> DEFINE w == ppos[p]
<1>1. /\ ppc[p] = "write" /\ ppc'[p] = "publish"
      /\ UNCHANGED <<tail, head, seq, ppos, ptask, order, cpc, cpos, ctask>>
      /\ \A q \in Producers : q # p => ppc'[q] = ppc[q]
  BY DEF WriteSlot, consumerVars
<1>2. /\ w \in head .. tail - 1 /\ w \in Nat
      /\ seq[Slot(w)] = w
      /\ order[w + 1] = ptask[p]
  BY <1>1 DEF Writers, Writing
<1>3. /\ cell'[Slot(w)] = ptask[p]
      /\ \A i \in Nat : Slot(i) # Slot(w) => cell'[Slot(i)] = cell[Slot(i)]
  BY <1>2, SlotInRange DEF WriteSlot
<1>4. /\ \A q \in Producers : Writing(q)' <=> Writing(q)
      /\ \A c \in Consumers : Reading(c)' <=> Reading(c)
  BY <1>1 DEF Writing, Reading
<1> HIDE DEF w
<1>5. ClaimedSlots'
  <2> SUFFICES ASSUME NEW i \in head .. tail - 1, ~\E q \in Producers : Writing(q) /\ ppos[q] = i
               PROVE  seq[Slot(i)] = i + 1 /\ cell'[Slot(i)] = order[i + 1]
    BY <1>1, <1>4 DEF ClaimedSlots
  <2>1. seq[Slot(i)] = i + 1 /\ cell[Slot(i)] = order[i + 1]
    BY DEF ClaimedSlots
  <2>2. Slot(i) # Slot(w)
    <3>1. i # w
      BY <1>2, <2>1
    <3> QED BY <3>1, <1>2, SlotsDifferEither
  <2> QED BY <2>1, <2>2, <1>3
<1>6. FreeSlots'
  BY <1>1, <1>4 DEF FreeSlots
<1>7. Writers'
  <2> SUFFICES ASSUME NEW q \in Producers, Writing(q)
               PROVE  /\ ppos[q] \in head .. tail - 1
                      /\ seq[Slot(ppos[q])] = ppos[q]
                      /\ order[ppos[q] + 1] = ptask[q]
                      /\ ppc'[q] = "publish" => cell'[Slot(ppos[q])] = ptask[q]
                      /\ \A r \in Producers : Writing(r) /\ ppos[r] = ppos[q] => r = q
    BY <1>1, <1>4 DEF Writers
  <2>1. CASE q = p
    BY <2>1, <1>3 DEF Writers, w
  <2>2. CASE q # p
    <3>1. ppos[q] # w
      BY <2>2, <1>1 DEF Writers, Writing, w
    <3>2. ppos[q] \in head .. tail - 1
      BY DEF Writers
    <3>3. Slot(ppos[q]) # Slot(w)
      BY <3>1, <3>2, <1>2, SlotsDifferEither
    <3>4. cell'[Slot(ppos[q])] = cell[Slot(ppos[q])]
      BY <3>3, <1>3
    <3> QED BY <3>4, <2>2, <1>1 DEF Writers
  <2> QED BY <2>1, <2>2
<1>8. Readers'
  <2> SUFFICES ASSUME NEW c \in Consumers, Reading(c)
               PROVE  cell'[Slot(cpos[c])] = cell[Slot(cpos[c])]
    BY <1>1, <1>4 DEF Readers
  <2>1. cpos[c] < w /\ w < cpos[c] + Capacity
    BY <1>2 DEF Readers
  <2> QED BY <2>1, <1>2, <1>3, SlotsDiffer
<1>9. Loaded'
  BY <1>1 DEF Loaded
<1> QED BY <1>1, <1>5, <1>6, <1>7, <1>8, <1>9

LEMMA PublishSlotKeeps ==
  ASSUME RingInvariant, TypeOK', NEW p \in Producers, PublishSlot(p)
  PROVE  RingInvariant'
<1> USE CapacityAssumption DEF RingInvariant, TypeOK
<1> DEFINE w == ppos[p]
<1>1. /\ ppc[p] = "publish" /\ ppc'[p] = "idle"
      /\ UNCHANGED <<tail, head, cell, ppos, order, cpc, cpos, ctask>>
      /\ \A q \in Producers : q # p => ppc'[q] = ppc[q] /\ ptask'[q] = ptask[q]
  BY DEF PublishSlot, consumerVars
<1>2. /\ w \in head .. tail - 1 /\ w \in Nat
      /\ seq[Slot(w)] = w
      /\ cell[Slot(w)] = order[w + 1]
  BY <1>1 DEF Writers, Writing
<1>3. /\ seq'[Slot(w)] = w + 1
      /\ \A i \in Nat : Slot(i) # Slot(w) => seq'[Slot(i)] = seq[Slot(i)]
  BY <1>2, SlotInRange DEF PublishSlot
<1>4. /\ \A q \in Producers : Writing(q)' <=> (Writing(q) /\ q # p)
      /\ \A c \in Consumers : Reading(c)' <=> Reading(c)
  BY <1>1 DEF Writing, Reading
<1>5. ClaimedSlots'
  <2> SUFFICES ASSUME NEW i \in head .. tail - 1,
                      ~\E q \in Producers : Writing(q) /\ q # p /\ ppos[q] = i
               PROVE  seq'[Slot(i)] = i + 1 /\ cell[Slot(i)] = order[i + 1]
    BY <1>1, <1>4 DEF ClaimedSlots
  <2>1. CASE i = w
    BY <2>1, <1>2, <1>3
  <2>2. CASE i # w
    <3>1. seq[Slot(i)] = i + 1 /\ cell[Slot(i)] = order[i + 1]
      BY <2>2 DEF ClaimedSlots
    <3> HIDE DEF w
    <3>2. Slot(i) # Slot(w)
      BY <2>2, <1>2, SlotsDifferEither
    <3> QED BY <3>1, <3>2, <1>3
  <2> QED BY <2>1, <2>2
<1>6. Writers'
  <2> SUFFICES ASSUME NEW q \in Producers, Writing(q), q # p
               PROVE  seq'[Slot(ppos[q])] = seq[Slot(ppos[q])]
    BY <1>1, <1>4 DEF Writers
  <2>1. ppos[q] # w
    BY <1>1 DEF Writers, Writing
  <2>2. ppos[q] \in head .. tail - 1
    BY DEF Writers
  <2> HIDE DEF w
  <2> QED BY <2>1, <2>2, <1>2, <1>3, SlotsDifferEither
<1> HIDE DEF w
<1>7. FreeSlots'
  <2> SUFFICES ASSUME NEW i \in tail .. head + Capacity - 1
               PROVE  seq'[Slot(i)] = seq[Slot(i)]
    BY <1>1, <1>4 DEF FreeSlots
  <2> QED BY <1>2, <1>3, SlotsDiffer
<1>8. Readers'
  <2> SUFFICES ASSUME NEW c \in Consumers, Reading(c)
               PROVE  seq'[Slot(cpos[c])] = seq[Slot(cpos[c])]
    BY <1>1, <1>4 DEF Readers
  <2>1. cpos[c] < w /\ w < cpos[c] + Capacity
    BY <1>2 DEF Readers
  <2> QED BY <2>1, <1>2, <1>3, SlotsDiffer
<1>9. Loaded'
  <2>1. seq[Slot(tail)] = tail => seq'[Slot(tail)] = tail
    BY <1>2, <1>3
  <2>2. seq[Slot(head)] = head + 1 => seq'[Slot(head)] = head + 1
    <3>1. CASE w = head
      BY <3>1, <1>2
    <3>2. CASE w # head
      BY <3>2, <1>2, <1>3, SlotsDiffer
    <3> QED BY <3>1, <3>2
  <2>3. \A q \in Producers :
          ppc'[q] \in {"sequence", "claim"} => q # p /\ ppc'[q] = ppc[q]
    BY <1>1
  <2> QED BY <2>1, <2>2, <2>3, <1>1 DEF Loaded
<1> QED BY <1>1, <1>5, <1>6, <1>7, <1>8, <1>9

\* A consumer whose compare-exchange succeeds found a published slot: there is
\* a claimed entry at the head, and its producer is done with it.
LEMMA TakenHeadIsPublished ==
  ASSUME RingInvariant, seq[Slot(head)] = head + 1
  PROVE  /\ head < tail
         /\ cell[Slot(head)] = order[head + 1]
         /\ \A p \in Producers : Writing(p) => ppos[p] # head
<1> USE CapacityAssumption DEF RingInvariant, TypeOK
<1>1. ASSUME head = tail PROVE FALSE
  <2>1. head \in tail .. head + Capacity - 1
    BY <1>1
  <2>2. CASE \E c \in Consumers : Reading(c) /\ cpos[c] + Capacity = head
    <3>1. PICK c \in Consumers : Reading(c) /\ cpos[c] + Capacity = head
      BY <2>2
    <3>2. Slot(head) = Slot(cpos[c])
      BY <3>1, SlotOfNextLap
    <3>3. seq[Slot(cpos[c])] = cpos[c] + 1
      BY <3>1 DEF Readers
    <3> QED BY <3>1, <3>2, <3>3
  <2>3. CASE seq[Slot(head)] = head
    BY <2>3
  <2> QED BY <2>1, <2>2, <2>3 DEF FreeSlots
<1>2. ASSUME NEW p \in Producers, Writing(p), ppos[p] = head PROVE FALSE
  BY <1>2 DEF Writers
<1>3. head < tail /\ head \in head .. tail - 1
  BY <1>1
<1>4. cell[Slot(head)] = order[head + 1]
  BY <1>2, <1>3 DEF ClaimedSlots
<1> QED BY <1>2, <1>3, <1>4

LEMMA ClaimHeadKeeps ==
  ASSUME RingInvariant, TypeOK', NEW c \in Consumers, ClaimHead(c)
  PROVE  RingInvariant'
<1> USE CapacityAssumption DEF RingInvariant, TypeOK
<1>1. /\ cpos[c] = head /\ cpc[c] = "claim" /\ cpc'[c] = "read"
      /\ head' = head + 1
      /\ UNCHANGED <<tail, seq, cell, order, cpos, ctask, ppc, ppos, ptask>>
      /\ \A d \in Consumers : d # c => cpc'[d] = cpc[d]
  BY DEF ClaimHead, producerVars
<1>2. seq[Slot(head)] = head + 1
  BY <1>1 DEF Loaded
<1>3. /\ head < tail
      /\ cell[Slot(head)] = order[head + 1]
      /\ \A p \in Producers : Writing(p) => ppos[p] # head
  BY <1>2, TakenHeadIsPublished
<1>4. /\ \A p \in Producers : Writing(p)' <=> Writing(p)
      /\ ~Reading(c) /\ Reading(c)'
      /\ \A d \in Consumers : d # c => (Reading(d)' <=> Reading(d))
  BY <1>1 DEF Writing, Reading
<1>5. ClaimedSlots'
  BY <1>1, <1>4 DEF ClaimedSlots
<1>6. FreeSlots'
  <2> SUFFICES ASSUME NEW i \in tail .. head + Capacity, seq[Slot(i)] # i
               PROVE  \E d \in Consumers : Reading(d)' /\ cpos[d] + Capacity = i
    BY <1>1 DEF FreeSlots
  <2>1. CASE i = head + Capacity
    BY <2>1, <1>1, <1>4
  <2>2. CASE i < head + Capacity
    <3>1. i \in tail .. head + Capacity - 1
      BY <2>2
    <3>2. PICK d \in Consumers : Reading(d) /\ cpos[d] + Capacity = i
      BY <3>1 DEF FreeSlots
    <3> QED BY <3>2, <1>4
  <2> QED BY <2>1, <2>2
<1>7. Writers'
  <2> SUFFICES ASSUME NEW p \in Producers, Writing(p)
               PROVE  ppos[p] \in head + 1 .. tail - 1
    BY <1>1, <1>4 DEF Writers
  <2>1. ppos[p] \in head .. tail - 1 /\ ppos[p] # head
    BY <1>3 DEF Writers
  <2> QED BY <2>1
<1>8. Readers'
  <2>1. \A d \in Consumers : Reading(d) => cpos[d] < head
    BY DEF Readers
  <2> SUFFICES ASSUME NEW d \in Consumers, Reading(d)'
               PROVE  /\ cpos[d] < head + 1
                      /\ tail <= cpos[d] + Capacity
                      /\ seq[Slot(cpos[d])] = cpos[d] + 1
                      /\ cpc'[d] = "read" => cell[Slot(cpos[d])] = order[cpos[d] + 1]
                      /\ cpc'[d] = "release" => ctask[d] = order[cpos[d] + 1]
                      /\ \A e \in Consumers : Reading(e)' /\ cpos[e] = cpos[d] => e = d
    BY <1>1 DEF Readers
  <2>2. CASE d = c
    BY <2>1, <2>2, <1>1, <1>2, <1>3, <1>4
  <2>3. CASE d # c
    <3>1. Reading(d) /\ cpos[d] < head
      BY <2>1, <2>3, <1>4
    <3>2. \A e \in Consumers : Reading(e)' /\ cpos[e] = cpos[d] => e = d
      BY <3>1, <1>1, <1>4 DEF Readers
    <3> QED BY <3>1, <3>2, <2>3, <1>1 DEF Readers
  <2> QED BY <2>2, <2>3
<1>9. Loaded'
  <2>1. ASSUME NEW d \in Consumers, cpc'[d] \in {"sequence", "claim"}
        PROVE  cpos[d] <= head
    BY <2>1, <1>1 DEF Loaded
  <2>2. \A d \in Consumers : cpos[d] \in Nat
    OBVIOUS
  <2> QED BY <2>1, <2>2, <1>1 DEF Loaded
<1> QED BY <1>1, <1>3, <1>5, <1>6, <1>7, <1>8, <1>9

LEMMA ReadSlotKeeps ==
  ASSUME RingInvariant, TypeOK', NEW c \in Consumers, ReadSlot(c)
  PROVE  RingInvariant'
<1> USE DEF RingInvariant, TypeOK
<1>1. /\ cpc[c] = "read" /\ cpc'[c] = "release"
      /\ ctask'[c] = cell[Slot(cpos[c])]
      /\ UNCHANGED <<tail, head, seq, cell, order, cpos, ppc, ppos, ptask>>
      /\ \A d \in Consumers : d # c => cpc'[d] = cpc[d] /\ ctask'[d] = ctask[d]
  BY DEF ReadSlot, producerVars
<1>2. /\ \A p \in Producers : Writing(p)' <=> Writing(p)
      /\ \A d \in Consumers : Reading(d)' <=> Reading(d)
  BY <1>1 DEF Writing, Reading
<1>3. ClaimedSlots' /\ FreeSlots' /\ Writers'
  BY <1>1, <1>2 DEF ClaimedSlots, FreeSlots, Writers
<1>4. Readers'
  <2> SUFFICES ASSUME NEW d \in Consumers, Reading(d)
               PROVE  /\ cpc'[d] = "read" => cell[Slot(cpos[d])] = order[cpos[d] + 1]
                      /\ cpc'[d] = "release" => ctask'[d] = order[cpos[d] + 1]
    BY <1>1, <1>2 DEF Readers
  <2>1. CASE d = c
    BY <2>1, <1>1 DEF Readers
  <2>2. CASE d # c
    BY <2>2, <1>1 DEF Readers
  <2> QED BY <2>1, <2>2
<1>5. Loaded'
  BY <1>1 DEF Loaded
<1> QED BY <1>1, <1>3, <1>4, <1>5

LEMMA ReleaseSlotKeeps ==
  ASSUME RingInvariant, TypeOK', NEW c \in Consumers, ReleaseSlot(c)
  PROVE  RingInvariant'
<1> USE CapacityAssumption DEF RingInvariant, TypeOK
<1> DEFINE r == cpos[c]
<1>1. /\ cpc[c] = "release" /\ cpc'[c] = "load"
      /\ UNCHANGED <<tail, head, cell, order, cpos, ppc, ppos, ptask>>
      /\ \A d \in Consumers : d # c => cpc'[d] = cpc[d] /\ ctask'[d] = ctask[d]
  BY DEF ReleaseSlot, producerVars
<1>2. /\ r \in Nat /\ r < head /\ tail <= r + Capacity
      /\ seq[Slot(r)] = r + 1
  BY <1>1 DEF Readers, Reading
<1>3. /\ seq'[Slot(r)] = r + Capacity
      /\ \A i \in Nat : Slot(i) # Slot(r) => seq'[Slot(i)] = seq[Slot(i)]
  BY <1>2, SlotInRange DEF ReleaseSlot
<1>4. /\ \A p \in Producers : Writing(p)' <=> Writing(p)
      /\ \A d \in Consumers : Reading(d)' <=> (Reading(d) /\ d # c)
  BY <1>1 DEF Writing, Reading
<1>5. Readers'
  <2> SUFFICES ASSUME NEW d \in Consumers, Reading(d), d # c
               PROVE  seq'[Slot(cpos[d])] = seq[Slot(cpos[d])]
    BY <1>1, <1>4 DEF Readers
  <2>1. cpos[d] # r
    BY <1>1 DEF Readers, Reading
  <2>2. cpos[d] \in Nat /\ cpos[d] < head /\ tail <= cpos[d] + Capacity
    BY DEF Readers
  <2>3. tail \in Nat /\ head \in Nat /\ head <= tail /\ Capacity \in Nat
    OBVIOUS
  <2> HIDE DEF r
  <2>4. Slot(cpos[d]) # Slot(r)
    <3>1. cpos[d] < r + Capacity /\ r < cpos[d] + Capacity
      BY ONLY <1>2, <2>2, <2>3
    <3> QED BY ONLY <1>2, <2>1, <2>2, <3>1, SlotsDifferEither
  <2> QED BY ONLY <1>3, <2>2, <2>4
<1>6. FreeSlots'
  <2> SUFFICES ASSUME NEW i \in tail .. head + Capacity - 1,
                      ~\E d \in Consumers : Reading(d) /\ d # c /\ cpos[d] + Capacity = i
               PROVE  seq'[Slot(i)] = i
    BY <1>1, <1>4 DEF FreeSlots
  <2>1. Slot(r + Capacity) = Slot(r)
    BY <1>2, SlotOfNextLap
  <2>2. CASE i = r + Capacity
    BY <2>1, <2>2, <1>3
  <2>3. CASE i # r + Capacity
    <3>1. seq[Slot(i)] = i
      BY <2>3 DEF FreeSlots
    <3> HIDE DEF r
    <3>2. Slot(i) # Slot(r + Capacity)
      <4>1. r + Capacity \in Nat /\ i \in Nat
        BY <1>2
      <4>2. r + Capacity < i + Capacity /\ i < r + Capacity + Capacity
        BY <1>2
      <4> QED BY <4>1, <4>2, <2>3, SlotsDifferEither
    <3> QED BY <3>1, <3>2, <2>1, <1>3
  <2> QED BY <2>2, <2>3
<1> HIDE DEF r
<1>7. ClaimedSlots'
  <2> SUFFICES ASSUME NEW i \in head .. tail - 1
               PROVE  seq'[Slot(i)] = seq[Slot(i)]
    BY <1>1, <1>4 DEF ClaimedSlots
  <2> QED BY <1>2, <1>3, SlotsDiffer
<1>8. Writers'
  <2> SUFFICES ASSUME NEW p \in Producers, Writing(p)
               PROVE  seq'[Slot(ppos[p])] = seq[Slot(ppos[p])]
    BY <1>1, <1>4 DEF Writers
  <2>1. ppos[p] \in head .. tail - 1
    BY DEF Writers
  <2> QED BY <2>1, <1>2, <1>3, SlotsDiffer
<1>9. Loaded'
  <2>1. seq[Slot(tail)] = tail => seq'[Slot(tail)] = tail
    <3>1. CASE tail = r + Capacity
      <4>1. Slot(tail) = Slot(r)
        BY <3>1, <1>2, SlotOfNextLap
      <4> QED BY <4>1, <3>1, <1>2
    <3>2. CASE tail < r + Capacity
      BY <3>2, <1>2, <1>3, SlotsDiffer
    <3> QED BY <3>1, <3>2, <1>2
  <2>2. seq[Slot(head)] = head + 1 => seq'[Slot(head)] = head + 1
    <3>1. CASE head = r + Capacity
      <4>1. Slot(head) = Slot(r)
        BY <3>1, <1>2, SlotOfNextLap
      <4> QED BY <4>1, <3>1, <1>2
    <3>2. CASE head < r + Capacity
      BY <3>2, <1>2, <1>3, SlotsDiffer
    <3> QED BY <3>1, <3>2, <1>2
  <2>3. \A d \in Consumers :
          cpc'[d] \in {"sequence", "claim"} => d # c /\ cpc'[d] = cpc[d]
    BY <1>1
  <2> QED BY <2>1, <2>2, <2>3, <1>1 DEF Loaded
<1> QED BY <1>1, <1>5, <1>6, <1>7, <1>8, <1>9

LEMMA RingNext == RingInvariant /\ [Next]_vars => RingInvariant'
<1> SUFFICES ASSUME RingInvariant, [Next]_vars PROVE RingInvariant'
  OBVIOUS
<1>1. TypeOK'
  BY TypeNext DEF RingInvariant
<1>2. CASE \E p \in Producers : StartPush(p) \/ ProducerStep(p)
  BY <1>1, <1>2, QuietProducerKeeps, ClaimTailKeeps, WriteSlotKeeps, PublishSlotKeeps
  DEF ProducerStep
<1>3. CASE \E c \in Consumers : ConsumerStep(c)
  BY <1>1, <1>3, QuietConsumerKeeps, ClaimHeadKeeps, ReadSlotKeeps, ReleaseSlotKeeps
  DEF ConsumerStep
<1>4. CASE UNCHANGED vars
  BY <1>4 DEF vars, RingInvariant, TypeOK, ClaimedSlots, FreeSlots, Writers, Readers,
              Loaded, Writing, Reading
<1> QED BY <1>2, <1>3, <1>4 DEF Next

\* The slots' sequences always say who may touch which slot.
THEOREM RingCorrect == Spec => []RingInvariant
<1>1. RingInvariant /\ [Next]_vars => RingInvariant'
  BY RingNext
<1> QED BY RingInit, <1>1, PTL DEF Spec

\* No two threads are past their compare-exchange on one slot: the accesses to
\* the UnsafeCell never race.
THEOREM SlotsExclusive == Spec => []SlotExclusive
<1>1. RingInvariant => SlotExclusive
  <2> SUFFICES ASSUME RingInvariant PROVE SlotExclusive
    OBVIOUS
  <2> USE CapacityAssumption DEF RingInvariant, TypeOK
  <2>1. ASSUME NEW p \in Producers, NEW q \in Producers, p # q, Writing(p), Writing(q)
        PROVE  Slot(ppos[p]) # Slot(ppos[q])
    <3>1. /\ ppos[p] \in head .. tail - 1 /\ ppos[q] \in head .. tail - 1
          /\ ppos[p] # ppos[q]
      BY <2>1 DEF Writers
    <3> QED BY <3>1, SlotsDifferEither
  <2>2. ASSUME NEW c \in Consumers, NEW d \in Consumers, c # d, Reading(c), Reading(d)
        PROVE  Slot(cpos[c]) # Slot(cpos[d])
    <3>1. /\ cpos[c] < head /\ tail <= cpos[c] + Capacity
          /\ cpos[d] < head /\ tail <= cpos[d] + Capacity
          /\ cpos[c] # cpos[d]
      BY <2>2 DEF Readers
    <3> QED BY <3>1, SlotsDifferEither
  <2>3. ASSUME NEW p \in Producers, NEW c \in Consumers, Writing(p), Reading(c)
        PROVE  Slot(ppos[p]) # Slot(cpos[c])
    <3>1. /\ cpos[c] < head /\ tail <= cpos[c] + Capacity
          /\ ppos[p] \in head .. tail - 1
      BY <2>3 DEF Readers, Writers
    <3> QED BY <3>1, SlotsDiffer
  <2> QED BY <2>1, <2>2, <2>3 DEF SlotExclusive
<1> QED BY <1>1, RingCorrect, PTL

\* What try_pop moves out of a slot is what was pushed at that position.
THEOREM ReadsCorrect == Spec => []ReadsWhatWasPushed
<1>1. RingInvariant => ReadsWhatWasPushed
  BY DEF RingInvariant, Readers, ReadsWhatWasPushed, Reading
<1> QED BY <1>1, RingCorrect, PTL

-----------------------------------------------------------------------------
(* The ring implements ReadyQueue.                                         *)

\* A consumer holds a task only between moving it out and returning it.
EmptyHands == \A c \in Consumers : cpc[c] # "release" => ctask[c] = NoTask

LEMMA HandsCorrect == Spec => []EmptyHands
<1>1. Init => EmptyHands
  BY DEF Init, EmptyHands
<1>2. TypeOK /\ EmptyHands /\ [Next]_vars => EmptyHands'
  <2> SUFFICES ASSUME TypeOK, EmptyHands, [Next]_vars PROVE EmptyHands'
    OBVIOUS
  <2> USE DEF TypeOK, EmptyHands, producerVars, consumerVars
  <2>1. CASE \E p \in Producers : StartPush(p) \/ ProducerStep(p)
    BY <2>1 DEF ProducerStep, StartPush, LoadTail, SeeFreeSlot, SeeFull, SeeClaimedSlot,
                ClaimTail, LoseTail, WriteSlot, PublishSlot
  <2>2. CASE \E c \in Consumers : ConsumerStep(c)
    BY <2>2 DEF ConsumerStep, LoadHead, SeePublishedSlot, SeeEmpty, SeeTakenSlot,
                ClaimHead, LoseHead, ReadSlot, ReleaseSlot
  <2>3. CASE UNCHANGED vars
    BY <2>3 DEF vars
  <2> QED BY <2>1, <2>2, <2>3 DEF Next
<1> QED BY <1>1, <1>2, TypeCorrect, PTL DEF Spec

LEMMA LineInit == Init => Line!Init
<1> SUFFICES ASSUME Init PROVE Line!Init
  OBVIOUS
<1>1. LinePublished = {} /\ LineFreed = {}
  BY DEF Init, LinePublished, LineFreed
<1>2. LineHand = [c \in Consumers |-> NoTask]
  BY DEF Init, LineHand
<1> QED BY <1>1, <1>2 DEF Init, Line!Init

\* Steps that claim, publish, take and release nothing are not seen.
LEMMA QuietStepStutters ==
  ASSUME RingInvariant, UNCHANGED <<tail, head, cell, order>>,
         \A p \in Producers : /\ Writing(p)' <=> Writing(p)
                              /\ Writing(p) => ppos'[p] = ppos[p],
         \A c \in Consumers : /\ Reading(c)' <=> Reading(c)
                              /\ Reading(c) => cpos'[c] = cpos[c]
                              /\ (cpc'[c] = "read") <=> (cpc[c] = "read")
                              /\ ctask'[c] = ctask[c]
  PROVE  UNCHANGED Line!lineVars
<1>1. LinePublished' = LinePublished
  BY DEF LinePublished
<1>2. LineFreed' = LineFreed
  BY DEF LineFreed
<1>3. LineHand' = LineHand
  <2> SUFFICES ASSUME NEW c \in Consumers, cpc[c] = "read"
               PROVE  cell'[Slot(cpos'[c])] = cell[Slot(cpos[c])]
    BY DEF LineHand
  <2> QED BY DEF Reading
<1> QED BY <1>1, <1>2, <1>3 DEF Line!lineVars

LEMMA ClaimTailClaims ==
  ASSUME RingInvariant, NEW p \in Producers, ClaimTail(p)
  PROVE  Line!Claim(ptask[p]) /\ ptask[p] \in Tasks
<1> USE CapacityAssumption DEF RingInvariant, TypeOK
<1>1. /\ ppos[p] = tail /\ ppc[p] = "claim" /\ ppc'[p] = "write"
      /\ tail' = tail + 1
      /\ UNCHANGED <<head, seq, cell, ppos, ptask, cpc, cpos, ctask>>
      /\ order' = Append(order, ptask[p])
      /\ \A q \in Producers : q # p => ppc'[q] = ppc[q]
  BY DEF ClaimTail, consumerVars
<1>2. seq[Slot(tail)] = tail
  BY <1>1 DEF Loaded
<1>3. /\ tail < head + Capacity
      /\ \A c \in Consumers : Reading(c) => tail # cpos[c] + Capacity
  BY <1>2, ClaimedTailIsFree
<1>4. /\ ~Writing(p) /\ Writing(p)'
      /\ \A q \in Producers : q # p => (Writing(q)' <=> Writing(q))
      /\ \A c \in Consumers : Reading(c)' <=> Reading(c)
  BY <1>1 DEF Writing, Reading
<1>5. Line!HasRoom
  <2> SUFFICES ASSUME tail >= Capacity PROVE tail - Capacity \in LineFreed
    BY DEF Line!HasRoom, Line!tail
  <2>1. tail - Capacity \in 0 .. head - 1
    BY <1>3
  <2>2. \A c \in Consumers : Reading(c) => cpos[c] # tail - Capacity
    BY <1>3
  <2> QED BY <2>1, <2>2 DEF LineFreed
<1>6. LinePublished' = LinePublished
  <2>1. \A i \in 0 .. tail - 1 :
          (\A q \in Producers : ~(Writing(q)' /\ ppos'[q] = i))
            <=> (\A q \in Producers : ~(Writing(q) /\ ppos[q] = i))
    BY <1>1, <1>4
  <2>2. ~\A q \in Producers : ~(Writing(q)' /\ ppos'[q] = tail)
    BY <1>1, <1>4
  <2>3. 0 .. tail' - 1 = (0 .. tail - 1) \cup {tail} /\ tail \notin 0 .. tail - 1
    BY <1>1
  <2>4. ASSUME NEW i
        PROVE  i \in LinePublished' <=> i \in LinePublished
    <3>1. i \in LinePublished' <=>
            i \in 0 .. tail' - 1 /\ \A q \in Producers : ~(Writing(q)' /\ ppos'[q] = i)
      BY DEF LinePublished
    <3>2. i \in LinePublished <=>
            i \in 0 .. tail - 1 /\ \A q \in Producers : ~(Writing(q) /\ ppos[q] = i)
      BY DEF LinePublished
    <3> QED BY ONLY <3>1, <3>2, <2>1, <2>2, <2>3
  <2> QED BY <2>4 DEF LinePublished
<1>7. LineFreed' = LineFreed
  BY <1>1, <1>4 DEF LineFreed
<1>8. LineHand' = LineHand
  BY <1>1 DEF LineHand
<1>9. ptask[p] \in Tasks
  BY <1>1
<1> QED BY <1>1, <1>5, <1>6, <1>7, <1>8, <1>9 DEF Line!Claim

LEMMA WriteSlotStutters ==
  ASSUME RingInvariant, NEW p \in Producers, WriteSlot(p)
  PROVE  UNCHANGED Line!lineVars
<1> USE CapacityAssumption DEF RingInvariant, TypeOK
<1> DEFINE w == ppos[p]
<1>1. /\ ppc[p] = "write" /\ ppc'[p] = "publish"
      /\ UNCHANGED <<tail, head, seq, ppos, ptask, order, cpc, cpos, ctask>>
      /\ \A q \in Producers : q # p => ppc'[q] = ppc[q]
  BY DEF WriteSlot, consumerVars
<1>2. w \in head .. tail - 1 /\ w \in Nat
  BY <1>1 DEF Writers, Writing
<1>3. \A i \in Nat : Slot(i) # Slot(w) => cell'[Slot(i)] = cell[Slot(i)]
  BY <1>2, SlotInRange DEF WriteSlot
<1>4. /\ \A q \in Producers : Writing(q)' <=> Writing(q)
      /\ \A c \in Consumers : Reading(c)' <=> Reading(c)
  BY <1>1 DEF Writing, Reading
<1> HIDE DEF w
<1>5. \A c \in Consumers : cpc[c] = "read" => cell'[Slot(cpos[c])] = cell[Slot(cpos[c])]
  <2> SUFFICES ASSUME NEW c \in Consumers, cpc[c] = "read"
               PROVE  cell'[Slot(cpos[c])] = cell[Slot(cpos[c])]
    OBVIOUS
  <2>1. cpos[c] < w /\ w < cpos[c] + Capacity
    BY <1>2 DEF Readers, Reading
  <2> QED BY <2>1, <1>2, <1>3, SlotsDiffer
<1>6. LineHand' = LineHand
  BY <1>1, <1>5 DEF LineHand
<1>7. LinePublished' = LinePublished
  BY <1>1, <1>4 DEF LinePublished
<1>8. LineFreed' = LineFreed
  BY <1>1, <1>4 DEF LineFreed
<1> QED BY <1>1, <1>6, <1>7, <1>8 DEF Line!lineVars

LEMMA PublishSlotPublishes ==
  ASSUME RingInvariant, NEW p \in Producers, PublishSlot(p)
  PROVE  Line!Publish(ppos[p]) /\ ppos[p] \in 0 .. tail - 1
<1> USE DEF RingInvariant, TypeOK
<1>1. /\ ppc[p] = "publish" /\ ppc'[p] = "idle"
      /\ UNCHANGED <<tail, head, cell, ppos, order, cpc, cpos, ctask>>
      /\ \A q \in Producers : q # p => ppc'[q] = ppc[q]
  BY DEF PublishSlot, consumerVars
<1>2. /\ ppos[p] \in 0 .. tail - 1
      /\ \A q \in Producers : Writing(q) /\ ppos[q] = ppos[p] => q = p
  BY <1>1 DEF Writers, Writing
<1>3. /\ \A q \in Producers : Writing(q)' <=> (Writing(q) /\ q # p)
      /\ \A c \in Consumers : Reading(c)' <=> Reading(c)
      /\ Writing(p)
  BY <1>1 DEF Writing, Reading
<1>4. LinePublished' = LinePublished \cup {ppos[p]} /\ ppos[p] \notin LinePublished
  BY <1>1, <1>2, <1>3 DEF LinePublished
<1>5. LineFreed' = LineFreed
  BY <1>1, <1>3 DEF LineFreed
<1>6. LineHand' = LineHand
  BY <1>1 DEF LineHand
<1> QED BY <1>1, <1>2, <1>4, <1>5, <1>6 DEF Line!Publish, Line!tail

LEMMA ClaimHeadTakes ==
  ASSUME RingInvariant, EmptyHands, NEW c \in Consumers, ClaimHead(c)
  PROVE  Line!Take(c)
<1> USE DEF RingInvariant, TypeOK
<1>1. /\ cpos[c] = head /\ cpc[c] = "claim" /\ cpc'[c] = "read"
      /\ head' = head + 1
      /\ UNCHANGED <<tail, seq, cell, order, cpos, ctask, ppc, ppos, ptask>>
      /\ \A d \in Consumers : d # c => cpc'[d] = cpc[d]
  BY DEF ClaimHead, producerVars
<1>2. seq[Slot(head)] = head + 1
  BY <1>1 DEF Loaded
<1>3. /\ head < tail
      /\ cell[Slot(head)] = order[head + 1]
      /\ \A p \in Producers : Writing(p) => ppos[p] # head
  BY <1>2, TakenHeadIsPublished
<1>4. /\ \A p \in Producers : Writing(p)' <=> Writing(p)
      /\ \A d \in Consumers : d # c => (Reading(d)' <=> Reading(d))
      /\ Reading(c)' /\ ~Reading(c)
  BY <1>1 DEF Writing, Reading
<1>5. head \in LinePublished /\ LinePublished' = LinePublished
  BY <1>1, <1>3, <1>4 DEF LinePublished
<1>6. LineFreed' = LineFreed
  <2>1. \A i \in 0 .. head - 1 :
          (\A d \in Consumers : ~(Reading(d)' /\ cpos'[d] = i))
            <=> (\A d \in Consumers : ~(Reading(d) /\ cpos[d] = i))
    BY <1>1, <1>4
  <2>2. ~\A d \in Consumers : ~(Reading(d)' /\ cpos'[d] = head)
    BY <1>1, <1>4
  <2>3. 0 .. head' - 1 = (0 .. head - 1) \cup {head}
    BY <1>1
  <2>4. head \notin 0 .. head - 1
    BY <1>1
  <2> QED BY ONLY <2>1, <2>2, <2>3, <2>4 DEF LineFreed
<1>7. LineHand[c] = NoTask
  BY <1>1 DEF LineHand, EmptyHands
<1>8. LineHand' = [LineHand EXCEPT ![c] = order[head + 1]]
  BY <1>1, <1>3 DEF LineHand
<1> QED BY <1>1, <1>5, <1>6, <1>7, <1>8 DEF Line!Take

LEMMA ReadSlotStutters ==
  ASSUME RingInvariant, NEW c \in Consumers, ReadSlot(c)
  PROVE  UNCHANGED Line!lineVars
<1> USE DEF RingInvariant, TypeOK
<1>1. /\ cpc[c] = "read" /\ cpc'[c] = "release"
      /\ ctask'[c] = cell[Slot(cpos[c])]
      /\ UNCHANGED <<tail, head, seq, cell, order, cpos, ppc, ppos, ptask>>
      /\ \A d \in Consumers : d # c => cpc'[d] = cpc[d] /\ ctask'[d] = ctask[d]
  BY DEF ReadSlot, producerVars
<1>2. /\ \A p \in Producers : Writing(p)' <=> Writing(p)
      /\ \A d \in Consumers : Reading(d)' <=> Reading(d)
  BY <1>1 DEF Writing, Reading
<1>3. LinePublished' = LinePublished /\ LineFreed' = LineFreed
  BY <1>1, <1>2 DEF LinePublished, LineFreed
<1>4. LineHand' = LineHand
  BY <1>1 DEF LineHand
<1> QED BY <1>1, <1>3, <1>4 DEF Line!lineVars

LEMMA ReleaseSlotFrees ==
  ASSUME RingInvariant, NEW c \in Consumers, ReleaseSlot(c)
  PROVE  Line!Free(c, cpos[c]) /\ cpos[c] \in 0 .. head - 1
<1> USE DEF RingInvariant, TypeOK
<1>1. /\ cpc[c] = "release" /\ cpc'[c] = "load" /\ ctask'[c] = NoTask
      /\ UNCHANGED <<tail, head, cell, order, cpos, ppc, ppos, ptask>>
      /\ \A d \in Consumers : d # c => cpc'[d] = cpc[d] /\ ctask'[d] = ctask[d]
  BY DEF ReleaseSlot, producerVars
<1>2. /\ cpos[c] \in 0 .. head - 1
      /\ ctask[c] = order[cpos[c] + 1]
      /\ \A d \in Consumers : Reading(d) /\ cpos[d] = cpos[c] => d = c
  BY <1>1 DEF Readers, Reading
<1>3. /\ \A p \in Producers : Writing(p)' <=> Writing(p)
      /\ \A d \in Consumers : Reading(d)' <=> (Reading(d) /\ d # c)
      /\ Reading(c)
  BY <1>1 DEF Writing, Reading
<1>4. LineFreed' = LineFreed \cup {cpos[c]} /\ cpos[c] \notin LineFreed
  BY <1>1, <1>2, <1>3 DEF LineFreed
<1>5. LinePublished' = LinePublished
  BY <1>1, <1>3 DEF LinePublished
<1>6. LineHand[c] = order[cpos[c] + 1]
  BY <1>1, <1>2 DEF LineHand
<1>7. LineHand' = [LineHand EXCEPT ![c] = NoTask]
  BY <1>1 DEF LineHand
<1> QED BY <1>1, <1>2, <1>4, <1>5, <1>6, <1>7 DEF Line!Free

LEMMA LineNext ==
  RingInvariant /\ EmptyHands /\ [Next]_vars => [Line!Next]_(Line!lineVars)
<1> SUFFICES ASSUME RingInvariant, EmptyHands, [Next]_vars
             PROVE  Line!Next \/ UNCHANGED Line!lineVars
  OBVIOUS
<1>1. ASSUME NEW p \in Producers,
             \/ StartPush(p) \/ LoadTail(p) \/ SeeFreeSlot(p) \/ SeeFull(p)
             \/ SeeClaimedSlot(p) \/ LoseTail(p)
      PROVE  UNCHANGED Line!lineVars
  <2>1. /\ UNCHANGED <<tail, head, cell, order, cpc, cpos, ctask>>
        /\ ~Writing(p) /\ ~Writing(p)'
        /\ \A q \in Producers : q # p => ppc'[q] = ppc[q] /\ ppos'[q] = ppos[q]
    BY <1>1 DEF StartPush, LoadTail, SeeFreeSlot, SeeFull, SeeClaimedSlot, LoseTail,
                consumerVars, RingInvariant, TypeOK, Writing
  <2>2. /\ \A q \in Producers : (Writing(q)' <=> Writing(q)) /\ (Writing(q) => ppos'[q] = ppos[q])
        /\ \A c \in Consumers : Reading(c)' <=> Reading(c)
    BY <2>1 DEF Writing, Reading
  <2> QED BY <2>1, <2>2, QuietStepStutters
<1>2. ASSUME NEW c \in Consumers,
             \/ LoadHead(c) \/ SeePublishedSlot(c) \/ SeeEmpty(c)
             \/ SeeTakenSlot(c) \/ LoseHead(c)
      PROVE  UNCHANGED Line!lineVars
  <2>1. /\ UNCHANGED <<tail, head, cell, order, ctask, ppc, ppos>>
        /\ cpc[c] \notin {"read", "release"} /\ cpc'[c] \notin {"read", "release"}
        /\ \A d \in Consumers : d # c => cpc'[d] = cpc[d] /\ cpos'[d] = cpos[d]
    BY <1>2 DEF LoadHead, SeePublishedSlot, SeeEmpty, SeeTakenSlot, LoseHead,
                producerVars, RingInvariant, TypeOK
  <2>2. /\ \A d \in Consumers : /\ Reading(d)' <=> Reading(d)
                                /\ Reading(d) => cpos'[d] = cpos[d]
                                /\ (cpc'[d] = "read") <=> (cpc[d] = "read")
        /\ \A p \in Producers : Writing(p)' <=> Writing(p)
    BY <2>1 DEF Writing, Reading
  <2> QED BY <2>1, <2>2, QuietStepStutters
<1>3. ASSUME NEW p \in Producers, ClaimTail(p) PROVE Line!Next
  BY <1>3, ClaimTailClaims DEF Line!Next
<1>4. ASSUME NEW p \in Producers, WriteSlot(p) PROVE UNCHANGED Line!lineVars
  BY <1>4, WriteSlotStutters
<1>5. ASSUME NEW p \in Producers, PublishSlot(p) PROVE Line!Next
  <2>1. Line!tail = tail
    BY DEF Line!tail, RingInvariant, TypeOK
  <2> QED BY <1>5, <2>1, PublishSlotPublishes DEF Line!Next
<1>6. ASSUME NEW c \in Consumers, ClaimHead(c) PROVE Line!Next
  BY <1>6, ClaimHeadTakes DEF Line!Next
<1>7. ASSUME NEW c \in Consumers, ReadSlot(c) PROVE UNCHANGED Line!lineVars
  BY <1>7, ReadSlotStutters
<1>8. ASSUME NEW c \in Consumers, ReleaseSlot(c) PROVE Line!Next
  BY <1>8, ReleaseSlotFrees DEF Line!Next
<1>9. CASE UNCHANGED vars
  BY <1>9, QuietStepStutters DEF vars, Writing, Reading
<1> QED
  BY <1>1, <1>2, <1>3, <1>4, <1>5, <1>6, <1>7, <1>8, <1>9
  DEF Next, ProducerStep, ConsumerStep

\* The lock-free ring is a ReadyQueue: first come, first served in the order of
\* the tail compare-exchanges, nothing taken before it is published, no claim
\* without room.
THEOREM RingImplementsReadyQueue == Spec => ImplementsReadyQueue
<1>1. RingInvariant /\ EmptyHands /\ [Next]_vars => [Line!Next]_(Line!lineVars)
  BY LineNext
<1> QED BY LineInit, <1>1, RingCorrect, HandsCorrect, PTL
    DEF Spec, ImplementsReadyQueue, Line!Spec

-----------------------------------------------------------------------------
(* What try_push and try_pop answer.                                       *)

\* The sequence of a slot has reached every position claimed in it and passed
\* every position taken from it, however many laps ago that was.
Passed ==
  \A i \in Nat : /\ i < tail => seq[Slot(i)] >= i
                 /\ i < head => seq[Slot(i)] > i

LEMMA SequencesGrow ==
  ASSUME RingInvariant, [Next]_vars
  PROVE  \A s \in Slots : seq[s] \in Nat /\ seq'[s] \in Nat /\ seq'[s] >= seq[s]
<1> USE CapacityAssumption DEF RingInvariant
<1>0. TypeOK /\ TypeOK'
  BY TypeNext
<1>1. seq \in [Slots -> Nat] /\ seq' \in [Slots -> Nat]
  BY <1>0 DEF TypeOK
<1>2. ASSUME NEW p \in Producers, PublishSlot(p) PROVE \A s \in Slots : seq'[s] >= seq[s]
  <2>1. seq[Slot(ppos[p])] = ppos[p] /\ ppos[p] \in Nat
    BY <1>0, <1>2 DEF PublishSlot, Writers, Writing, TypeOK
  <2>2. \A s \in Slots : seq'[s] = IF s = Slot(ppos[p]) THEN ppos[p] + 1 ELSE seq[s]
    BY <1>1, <1>2 DEF PublishSlot
  <2> QED BY <1>1, <2>1, <2>2
<1>3. ASSUME NEW c \in Consumers, ReleaseSlot(c) PROVE \A s \in Slots : seq'[s] >= seq[s]
  <2>1. seq[Slot(cpos[c])] = cpos[c] + 1 /\ cpos[c] \in Nat
    BY <1>0, <1>3 DEF ReleaseSlot, Readers, Reading, TypeOK
  <2>2. \A s \in Slots : seq'[s] = IF s = Slot(cpos[c]) THEN cpos[c] + Capacity ELSE seq[s]
    BY <1>1, <1>3 DEF ReleaseSlot
  <2> QED BY <1>1, <2>1, <2>2
<1>4. ASSUME UNCHANGED seq PROVE \A s \in Slots : seq'[s] >= seq[s]
  BY <1>1, <1>4
<1> QED BY <1>1, <1>2, <1>3, <1>4
    DEF Next, ProducerStep, ConsumerStep, StartPush, LoadTail, SeeFreeSlot, SeeFull,
        SeeClaimedSlot, ClaimTail, LoseTail, WriteSlot, LoadHead, SeePublishedSlot, SeeEmpty,
        SeeTakenSlot, ClaimHead, LoseHead, ReadSlot, vars

LEMMA PassedNext ==
  ASSUME RingInvariant, Passed, [Next]_vars
  PROVE  Passed'
<1> USE CapacityAssumption DEF RingInvariant
<1>0. TypeOK
  OBVIOUS
<1>1. \A i \in Nat : /\ Slot(i) \in Slots
                     /\ seq[Slot(i)] \in Nat /\ seq'[Slot(i)] \in Nat
                     /\ seq'[Slot(i)] >= seq[Slot(i)]
  <2>1. \A i \in Nat : Slot(i) \in Slots
    BY SlotInRange
  <2>2. \A s \in Slots : seq[s] \in Nat /\ seq'[s] \in Nat /\ seq'[s] >= seq[s]
    BY ONLY RingInvariant, [Next]_vars, SequencesGrow
  <2> QED BY ONLY <2>1, <2>2
<1>2. ASSUME tail' = tail, head' = head PROVE Passed'
  <2>1. tail \in Nat /\ head \in Nat
    BY <1>0 DEF TypeOK
  <2> QED BY ONLY <1>1, <1>2, <2>1, Passed DEF Passed
<1>3. ASSUME NEW p \in Producers, ClaimTail(p) PROVE Passed'
  <2>1. tail' = tail + 1 /\ head' = head /\ seq[Slot(tail)] = tail
    BY <1>3 DEF ClaimTail, Loaded
  <2>2. \A i \in Nat : i < tail' <=> i < tail \/ i = tail
    BY <1>0, <2>1 DEF TypeOK
  <2>3. ASSUME NEW i \in Nat
        PROVE  /\ i < tail' => seq'[Slot(i)] >= i
               /\ i < head' => seq'[Slot(i)] > i
    <3>1. /\ i < tail => seq[Slot(i)] >= i
          /\ i < head => seq[Slot(i)] > i
      BY DEF Passed
    <3>2. i < tail' => seq[Slot(i)] >= i
      BY <2>1, <2>2, <3>1
    <3> QED BY ONLY <1>1, <2>1, <3>1, <3>2, i \in Nat
  <2> QED BY <2>3 DEF Passed
<1>4. ASSUME NEW c \in Consumers, ClaimHead(c) PROVE Passed'
  <2>1. head' = head + 1 /\ tail' = tail /\ seq[Slot(head)] = head + 1
    BY <1>4 DEF ClaimHead, Loaded
  <2>2. \A i \in Nat : i < head' <=> i < head \/ i = head
    BY <1>0, <2>1 DEF TypeOK
  <2>3. ASSUME NEW i \in Nat
        PROVE  /\ i < tail' => seq'[Slot(i)] >= i
               /\ i < head' => seq'[Slot(i)] > i
    <3>1. /\ i < tail => seq[Slot(i)] >= i
          /\ i < head => seq[Slot(i)] > i
      BY DEF Passed
    <3>2. i < head' => seq[Slot(i)] > i
      BY <2>1, <2>2, <3>1
    <3> QED BY ONLY <1>1, <2>1, <3>1, <3>2, i \in Nat
  <2> QED BY <2>3 DEF Passed
<1> QED BY <1>2, <1>3, <1>4
    DEF Next, ProducerStep, ConsumerStep, StartPush, LoadTail, SeeFreeSlot, SeeFull,
        SeeClaimedSlot, LoseTail, WriteSlot, PublishSlot, LoadHead, SeePublishedSlot, SeeEmpty,
        SeeTakenSlot, LoseHead, ReadSlot, ReleaseSlot, vars

LEMMA FullIsTrue ==
  ASSUME RingInvariant, Passed, NEW p \in Producers, SeeFull(p)
  PROVE  ~RoomAt(tail)
<1> USE CapacityAssumption DEF RingInvariant
<1>1. /\ tail \in Nat /\ head \in Nat /\ ppos[p] \in Nat /\ ppos[p] <= tail
      /\ \A c \in Consumers : cpos[c] \in Nat
  BY DEF TypeOK, SeeFull, Loaded
<1>2. seq[Slot(ppos[p])] \in Nat /\ seq[Slot(ppos[p])] < ppos[p]
  <2>1. seq[Slot(ppos[p])] \in Nat /\ seq[Slot(ppos[p])] - ppos[p] < 0
    BY <1>1, SlotInRange DEF TypeOK, SeeFull, Delta
  <2> QED BY <1>1, <2>1
<1>3. ppos[p] = tail
  BY <1>1, <1>2 DEF Passed
<1>4. ASSUME RoomAt(tail) PROVE FALSE
  <2>1. tail \in tail .. head + Capacity - 1
    BY <1>1, <1>4 DEF RoomAt
  <2>2. PICK c \in Consumers : Reading(c) /\ cpos[c] + Capacity = tail
    BY <1>2, <1>3, <2>1 DEF FreeSlots
  <2>3. cpos[c] = tail - Capacity /\ tail >= Capacity
    BY <1>1, <2>2
  <2> QED BY <1>1, <1>4, <2>2, <2>3 DEF RoomAt
<1> QED BY <1>4

LEMMA EmptyIsTrue ==
  ASSUME RingInvariant, Passed, NEW c \in Consumers, SeeEmpty(c)
  PROVE  ~PublishedAt(head)
<1> USE DEF RingInvariant
<1>1. tail \in Nat /\ head \in Nat /\ cpos[c] \in Nat /\ cpos[c] <= head
  BY DEF TypeOK, SeeEmpty, Loaded
<1>2. seq[Slot(cpos[c])] \in Nat /\ seq[Slot(cpos[c])] <= cpos[c]
  <2>1. seq[Slot(cpos[c])] \in Nat /\ seq[Slot(cpos[c])] - (cpos[c] + 1) < 0
    BY <1>1, SlotInRange DEF TypeOK, SeeEmpty, Delta
  <2> QED BY <1>1, <2>1
<1>3. cpos[c] = head
  BY <1>1, <1>2 DEF Passed
<1>4. ASSUME PublishedAt(head) PROVE FALSE
  <2>1. head \in head .. tail - 1
    BY <1>1, <1>4 DEF PublishedAt
  <2>2. seq[Slot(head)] = head + 1
    BY <1>4, <2>1 DEF ClaimedSlots, PublishedAt
  <2> QED BY <1>1, <1>2, <1>3, <2>2
<1> QED BY <1>4

\* Full and None are true of the queue at the moment they are answered, however
\* old the position is that the thread compared.
THEOREM AnswersCorrect == Spec => AnswersAreTrue
<1>1. Init => Passed
  BY CapacityAssumption DEF Init, Passed
<1>2. RingInvariant /\ Passed /\ [Next]_vars => Passed'
  BY PassedNext
<1>3. RingInvariant /\ Passed =>
        /\ \A p \in Producers : SeeFull(p) => ~RoomAt(tail)
        /\ \A c \in Consumers : SeeEmpty(c) => ~PublishedAt(head)
  BY FullIsTrue, EmptyIsTrue
<1> QED BY <1>1, <1>2, <1>3, RingCorrect, PTL DEF Spec, AnswersAreTrue

-----------------------------------------------------------------------------
(* Where a task is.                                                        *)

\* The queue has a task once it is claimed, for ever in order.
Claimed(t) == \E i \in 0 .. tail - 1 : order[i + 1] = t

\* Position i has been taken and its task handed out by try_pop.
Popped(i) == i < head /\ \A c \in Consumers : ~(Reading(c) /\ cpos[c] = i)

\* A task is not submitted, in the hand of one producer, or claimed once; and
\* those popped are those returned.
Places ==
  /\ \A p \in Producers : ppc[p] = "idle" => ptask[p] = NoTask
  /\ \A t \in Tasks : t \in todo \/ InHand(t) \/ Claimed(t)
  /\ \A t \in todo : ~Claimed(t) /\ \A p \in Producers : ptask[p] # t
  /\ \A p \in Producers : ~Writing(p) => ~Claimed(ptask[p])
  /\ \A p, q \in Producers :
       ~Writing(p) /\ ~Writing(q) /\ ptask[p] = ptask[q] /\ ptask[p] # NoTask => p = q
  /\ \A i, j \in 0 .. tail - 1 : order[i + 1] = order[j + 1] => i = j
  /\ \A t \in Tasks : t \in returned <=> \E i \in 0 .. tail - 1 : order[i + 1] = t /\ Popped(i)

LEMMA PlacesInit == Init => Places
<1> SUFFICES ASSUME Init PROVE Places
  OBVIOUS
<1> QED BY NoTaskAssumption DEF Init, Places, Claimed, Popped, InHand, Writing, Reading

\* Steps that change neither what is claimed nor what is popped, nor the hands.
LEMMA PlacesKept ==
  ASSUME Places, UNCHANGED <<tail, order, ptask, todo, returned>>,
         \A p \in Producers : (Writing(p)' <=> Writing(p)) /\ (ppc'[p] = "idle" <=> ppc[p] = "idle"),
         \A i \in 0 .. tail - 1 : Popped(i)' <=> Popped(i)
  PROVE  Places'
<1>1. \A t : (Claimed(t)' <=> Claimed(t)) /\ (InHand(t)' <=> InHand(t))
  BY DEF Claimed, InHand
<1> QED BY <1>1 DEF Places

LEMMA ClaimTailPlaces ==
  ASSUME RingInvariant, Places, NEW p \in Producers, ClaimTail(p)
  PROVE  Places'
<1> DEFINE t0 == ptask[p]
<1>1. /\ tail \in Nat /\ head \in Nat /\ head <= tail /\ Len(order) = tail /\ order \in Seq(Tasks)
      /\ t0 \in Tasks /\ t0 # NoTask /\ ppc[p] = "claim"
  BY NoTaskAssumption DEF RingInvariant, TypeOK, ClaimTail
<1>2. /\ tail' = tail + 1 /\ order' = Append(order, t0) /\ order' \in Seq(Tasks)
      /\ UNCHANGED <<head, ptask, todo, cpc, cpos, returned>>
      /\ Writing(p)' /\ ~Writing(p) /\ ppc'[p] # "idle"
      /\ \A q \in Producers : q # p => ppc'[q] = ppc[q] /\ (Writing(q)' <=> Writing(q))
  BY <1>1 DEF ClaimTail, consumerVars, Writing, RingInvariant, TypeOK
<1>3. /\ 0 .. tail' - 1 = (0 .. tail - 1) \cup {tail}
      /\ order'[tail + 1] = t0
      /\ \A i \in 0 .. tail - 1 : order'[i + 1] = order[i + 1]
  BY <1>1, <1>2
<1>4. \A t : Claimed(t)' <=> Claimed(t) \/ t = t0
  BY <1>3 DEF Claimed
<1>5. ~Claimed(t0) /\ t0 \notin todo
  BY <1>1, <1>2 DEF Places
<1>6. \A t : InHand(t) => InHand(t)' \/ t = t0
  BY <1>2 DEF InHand
<1>7. \A i \in 0 .. tail : Popped(i)' <=> Popped(i)
  BY <1>2 DEF Popped, Reading
<1>8. ~Popped(tail)
  BY <1>1 DEF Popped
<1>9. \A i, j \in 0 .. tail' - 1 : order'[i + 1] = order'[j + 1] => i = j
  BY <1>3, <1>5 DEF Places, Claimed
<1>10. \A t \in Tasks : t \in returned' <=> \E i \in 0 .. tail' - 1 : order'[i + 1] = t /\ Popped(i)'
  BY <1>1, <1>2, <1>3, <1>7, <1>8 DEF Places
<1>11. \A q \in Producers : ~Writing(q)' => q # p /\ ~Writing(q) /\ ~Claimed(ptask[q]) /\ ptask[q] # t0
  BY <1>1, <1>2 DEF Places
<1>12. /\ \A t \in Tasks : t \in todo \/ InHand(t)' \/ Claimed(t)'
       /\ \A t \in todo : ~Claimed(t)' /\ \A q \in Producers : ptask[q] # t
  BY <1>4, <1>5, <1>6 DEF Places
<1>13. \A q \in Producers : ppc'[q] = "idle" => ptask[q] = NoTask
  BY <1>2 DEF Places
<1>14. \A q, r \in Producers :
         ~Writing(q)' /\ ~Writing(r)' /\ ptask[q] = ptask[r] /\ ptask[q] # NoTask => q = r
  BY <1>11 DEF Places
<1> QED BY <1>2, <1>4, <1>9, <1>10, <1>11, <1>12, <1>13, <1>14 DEF Places

LEMMA HandPlaces ==
  ASSUME RingInvariant, Places, NEW p \in Producers, StartPush(p) \/ PublishSlot(p)
  PROVE  Places'
<1>1. TypeOK
  BY DEF RingInvariant
<1>2. UNCHANGED <<tail, head, order, returned, cpc, cpos>>
  BY DEF StartPush, PublishSlot, consumerVars
<1>3. \A i : Popped(i)' <=> Popped(i)
  BY <1>2 DEF Popped, Reading
<1>4. \A t : Claimed(t)' <=> Claimed(t)
  BY <1>2 DEF Claimed
<1>5. /\ \A i, j \in 0 .. tail' - 1 : order'[i + 1] = order'[j + 1] => i = j
      /\ \A t \in Tasks : t \in returned' <=> \E i \in 0 .. tail' - 1 : order'[i + 1] = t /\ Popped(i)'
  BY <1>2, <1>3 DEF Places
<1>6. CASE StartPush(p)
  <2>1. PICK t \in todo : ptask' = [ptask EXCEPT ![p] = t] /\ todo' = todo \ {t}
    BY <1>6 DEF StartPush
  <2>2. /\ ppc[p] = "idle" /\ ppc' = [ppc EXCEPT ![p] = "load"] /\ ptask[p] = NoTask
        /\ t \in Tasks /\ t # NoTask /\ ~Claimed(t) /\ \A q \in Producers : ptask[q] # t
    BY <1>1, <1>6, NoTaskAssumption DEF StartPush, Places, TypeOK
  <2>3. /\ \A q \in Producers : Writing(q)' <=> Writing(q)
        /\ ~Writing(p) /\ ppc'[p] # "idle" /\ ptask'[p] = t
        /\ \A q \in Producers : q # p => ppc'[q] = ppc[q] /\ ptask'[q] = ptask[q]
    BY <1>1, <2>1, <2>2 DEF Writing, TypeOK
  <2>4. \A u \in Tasks : InHand(u)' <=> InHand(u) \/ u = t
    BY <2>2, <2>3, NoTaskAssumption DEF InHand
  <2>5. /\ \A q \in Producers : ppc'[q] = "idle" => ptask'[q] = NoTask
        /\ \A u \in Tasks : u \in todo' \/ InHand(u)' \/ Claimed(u)'
    BY <1>4, <2>1, <2>3, <2>4 DEF Places
  <2>6. /\ \A u \in todo' : ~Claimed(u)' /\ \A q \in Producers : ptask'[q] # u
        /\ \A q \in Producers : ~Writing(q)' => ~Claimed(ptask[q])'
    <3>1. \A q \in Producers : ptask'[q] = (IF q = p THEN t ELSE ptask[q])
      BY <2>3
    <3> QED BY <1>2, <2>1, <2>2, <2>3, <3>1 DEF Places, Claimed
  <2>7. \A q, r \in Producers :
          ~Writing(q)' /\ ~Writing(r)' /\ ptask'[q] = ptask'[r] /\ ptask'[q] # NoTask => q = r
    <3>1. \A q \in Producers : q # p => ptask[q] # t
      BY <2>2
    <3> QED BY <2>2, <2>3, <3>1 DEF Places
  <2> QED BY <1>5, <2>5, <2>6, <2>7 DEF Places
<1>7. CASE PublishSlot(p)
  <2>1. /\ ppc[p] = "publish" /\ ppc'[p] = "idle" /\ ptask'[p] = NoTask /\ todo' = todo
        /\ \A q \in Producers : q # p => ppc'[q] = ppc[q] /\ ptask'[q] = ptask[q]
    BY <1>1, <1>7 DEF PublishSlot, TypeOK
  <2>2. /\ Writing(p) /\ ~Writing(p)' /\ \A q \in Producers : q # p => (Writing(q)' <=> Writing(q))
    BY <2>1 DEF Writing
  <2>3. \A u \in Tasks : InHand(u)' <=> InHand(u)
    BY <2>1, <2>2, NoTaskAssumption DEF InHand
  <2>4. ~Claimed(NoTask)
    BY <1>1, NoTaskAssumption DEF Claimed, TypeOK
  <2>5. /\ \A q \in Producers : ppc'[q] = "idle" => ptask'[q] = NoTask
        /\ \A u \in Tasks : u \in todo' \/ InHand(u)' \/ Claimed(u)'
    BY <1>4, <2>1, <2>3 DEF Places
  <2>6. /\ \A u \in todo' : ~Claimed(u)' /\ \A q \in Producers : ptask'[q] # u
        /\ \A q \in Producers : ~Writing(q)' => ~Claimed(ptask[q])'
    <3>1. \A q \in Producers : ptask'[q] = (IF q = p THEN NoTask ELSE ptask[q])
      BY <2>1
    <3>2. todo \subseteq Tasks
      BY <1>1 DEF TypeOK
    <3> QED BY <1>2, <2>1, <2>2, <2>4, <3>1, <3>2, NoTaskAssumption DEF Places, Claimed
  <2>7. \A q, r \in Producers :
          ~Writing(q)' /\ ~Writing(r)' /\ ptask'[q] = ptask'[r] /\ ptask'[q] # NoTask => q = r
    <3>1. \A q \in Producers : ptask'[q] # NoTask => q # p
      BY <2>1
    <3> QED BY <2>1, <2>2, <3>1 DEF Places
  <2> QED BY <1>5, <2>5, <2>6, <2>7 DEF Places
<1> QED BY <1>6, <1>7

LEMMA ReleaseSlotPlaces ==
  ASSUME RingInvariant, Places, NEW c \in Consumers, ReleaseSlot(c)
  PROVE  Places'
<1>1. /\ tail \in Nat /\ head \in Nat /\ head <= tail
      /\ Reading(c) /\ cpos[c] \in 0 .. tail - 1 /\ cpos[c] < head
      /\ ctask[c] = order[cpos[c] + 1]
      /\ \A d \in Consumers : Reading(d) /\ cpos[d] = cpos[c] => d = c
  BY DEF RingInvariant, TypeOK, Readers, ReleaseSlot, Reading
<1>2. /\ UNCHANGED <<tail, head, order, cpos, ppc, ptask, todo>>
      /\ returned' = returned \cup {ctask[c]}
      /\ ~Reading(c)' /\ \A d \in Consumers : d # c => (Reading(d)' <=> Reading(d))
  BY DEF ReleaseSlot, producerVars, Reading, RingInvariant, TypeOK
<1>3. \A i : Popped(i)' <=> Popped(i) \/ i = cpos[c]
  BY <1>1, <1>2 DEF Popped
<1>4. \A t : /\ Claimed(t)' <=> Claimed(t)
             /\ InHand(t)' <=> InHand(t)
  BY <1>2 DEF Claimed, InHand, Writing
<1>5. \A p \in Producers : Writing(p)' <=> Writing(p)
  BY <1>2 DEF Writing
<1>6. \A t \in Tasks : t \in returned' <=> \E i \in 0 .. tail - 1 : order[i + 1] = t /\ Popped(i)'
  BY <1>1, <1>2, <1>3 DEF Places
<1> QED BY <1>2, <1>4, <1>5, <1>6 DEF Places

LEMMA ClaimHeadPlaces ==
  ASSUME RingInvariant, Places, NEW c \in Consumers, ClaimHead(c)
  PROVE  Places'
<1>1. head \in Nat /\ cpos[c] = head /\ ~Reading(c)
  BY DEF RingInvariant, TypeOK, ClaimHead, Reading
<1>2. /\ UNCHANGED <<tail, order, cpos, ppc, ptask, todo, returned>> /\ head' = head + 1
      /\ Reading(c)' /\ \A d \in Consumers : d # c => (Reading(d)' <=> Reading(d))
  BY DEF ClaimHead, producerVars, Reading, RingInvariant, TypeOK
<1>3. ASSUME NEW i \in 0 .. tail - 1 PROVE Popped(i)' <=> Popped(i)
  BY <1>1, <1>2 DEF Popped
<1> QED BY <1>2, <1>3, PlacesKept DEF Writing

LEMMA PlacesNext ==
  ASSUME RingInvariant, Places, [Next]_vars
  PROVE  Places'
<1>1. ASSUME NEW p \in Producers,
             LoadTail(p) \/ SeeFreeSlot(p) \/ SeeFull(p) \/ SeeClaimedSlot(p) \/ LoseTail(p)
                \/ WriteSlot(p)
      PROVE  Places'
  <2>1. /\ UNCHANGED <<tail, head, order, ptask, todo, returned, cpc, cpos>>
        /\ \A q \in Producers : /\ Writing(q)' <=> Writing(q)
                                /\ ppc'[q] = "idle" <=> ppc[q] = "idle"
    BY <1>1 DEF LoadTail, SeeFreeSlot, SeeFull, SeeClaimedSlot, LoseTail, WriteSlot, consumerVars,
                Writing, RingInvariant, TypeOK
  <2>2. \A i : Popped(i)' <=> Popped(i)
    BY <2>1 DEF Popped, Reading
  <2> QED BY <2>1, <2>2, PlacesKept
<1>2. ASSUME NEW c \in Consumers,
             LoadHead(c) \/ SeePublishedSlot(c) \/ SeeEmpty(c) \/ SeeTakenSlot(c) \/ LoseHead(c)
                \/ ReadSlot(c)
      PROVE  Places'
  <2>1. /\ UNCHANGED <<tail, head, order, ppc, ptask, todo, returned>>
        /\ \A d \in Consumers : /\ Reading(d)' <=> Reading(d)
                                /\ Reading(d) => cpos'[d] = cpos[d]
    BY <1>2 DEF LoadHead, SeePublishedSlot, SeeEmpty, SeeTakenSlot, LoseHead, ReadSlot,
                producerVars, Reading, RingInvariant, TypeOK
  <2>2. \A i : Popped(i)' <=> Popped(i)
    BY <2>1 DEF Popped
  <2> QED BY <2>1, <2>2, PlacesKept DEF Writing
<1>3. CASE UNCHANGED vars
  BY <1>3, PlacesKept DEF vars, Writing, Reading, Popped
<1> QED BY <1>1, <1>2, <1>3, ClaimTailPlaces, HandPlaces, ReleaseSlotPlaces, ClaimHeadPlaces
    DEF Next, ProducerStep, ConsumerStep

LEMMA OnePlace == RingInvariant /\ Places => ExactlyOnePlace
<1> SUFFICES ASSUME RingInvariant, Places, NEW t \in Tasks
             PROVE  LET place == <<t \in todo, InHand(t), InLine(t), BeingRead(t), t \in returned>>
                    IN  \E k \in 1 .. 5 : place[k] /\ \A j \in 1 .. 5 \ {k} : ~place[j]
  BY DEF ExactlyOnePlace
<1> DEFINE place == <<t \in todo, InHand(t), InLine(t), BeingRead(t), t \in returned>>
<1>1. /\ tail \in Nat /\ head \in Nat /\ head <= tail
      /\ \A c \in Consumers : Reading(c) => cpos[c] \in 0 .. head - 1
  BY DEF RingInvariant, TypeOK, Readers
<1>2. /\ InLine(t) => Claimed(t)
      /\ BeingRead(t) => Claimed(t)
      /\ t \in returned => Claimed(t)
  BY <1>1 DEF InLine, BeingRead, Claimed, Places
<1>3. InHand(t) => ~Claimed(t)
  BY DEF InHand, Places
<1>4. t \in todo => ~Claimed(t) /\ ~InHand(t)
  BY DEF InHand, Places
<1>5. ASSUME Claimed(t)
      PROVE  \/ InLine(t) /\ ~BeingRead(t) /\ t \notin returned
             \/ ~InLine(t) /\ BeingRead(t) /\ t \notin returned
             \/ ~InLine(t) /\ ~BeingRead(t) /\ t \in returned
  <2>1. PICK i \in 0 .. tail - 1 : order[i + 1] = t
    BY <1>5 DEF Claimed
  <2>2. \A j \in 0 .. tail - 1 : order[j + 1] = t => j = i
    BY <2>1 DEF Places
  <2>3. InLine(t) <=> i >= head
    BY <1>1, <2>1, <2>2 DEF InLine
  <2>4. BeingRead(t) <=> \E c \in Consumers : Reading(c) /\ cpos[c] = i
    BY <1>1, <2>1, <2>2 DEF BeingRead
  <2>5. t \in returned <=> Popped(i)
    BY <2>1, <2>2 DEF Places
  <2> QED BY <1>1, <2>3, <2>4, <2>5 DEF Popped
<1>6. t \in todo \/ InHand(t) \/ Claimed(t)
  BY DEF Places
<1>7. /\ place[1] = (t \in todo) /\ place[2] = InHand(t) /\ place[3] = InLine(t)
      /\ place[4] = BeingRead(t) /\ place[5] = (t \in returned)
  OBVIOUS
<1> HIDE DEF place
<1>8. \A j \in 1 .. 5 : j = 1 \/ j = 2 \/ j = 3 \/ j = 4 \/ j = 5
  OBVIOUS
<1>9. \E k \in 1 .. 5 : place[k] /\ \A j \in 1 .. 5 \ {k} : ~place[j]
  <2>1. CASE t \in todo
    <3>1. place[1] /\ ~place[2] /\ ~place[3] /\ ~place[4] /\ ~place[5]
      BY <1>2, <1>4, <1>7, <2>1
    <3> QED BY <1>8, <3>1
  <2>2. CASE InHand(t)
    <3>1. place[2] /\ ~place[1] /\ ~place[3] /\ ~place[4] /\ ~place[5]
      BY <1>2, <1>3, <1>4, <1>7, <2>2
    <3> QED BY <1>8, <3>1
  <2>3. CASE Claimed(t)
    <3>1. ~place[1] /\ ~place[2]
      BY <1>3, <1>4, <1>7, <2>3
    <3>2. \/ place[3] /\ ~place[4] /\ ~place[5]
          \/ ~place[3] /\ place[4] /\ ~place[5]
          \/ ~place[3] /\ ~place[4] /\ place[5]
      BY <1>5, <1>7, <2>3
    <3> QED BY <1>8, <3>1, <3>2
  <2> QED BY <1>6, <2>1, <2>2, <2>3
<1> QED BY <1>9 DEF place

\* No task is lost and none is returned twice: at every moment each is with its
\* submitter, in line, with the consumer that took it, or returned.
THEOREM NothingLostOrDoubled == Spec => []ExactlyOnePlace
<1>1. RingInvariant /\ Places /\ [Next]_vars => Places'
  BY PlacesNext
<1> QED BY <1>1, PlacesInit, OnePlace, RingCorrect, PTL DEF Spec

-----------------------------------------------------------------------------
(***************************************************************************)
(* Why TaskQueue may keep head, tail and the slot sequences as unbounded   *)
(* numbers.  The code stores them in usize (W = 2^64 on the target), takes *)
(* `sequence.wrapping_sub(position) as isize` and indexes the slots with   *)
(* `position % SCHEDULER_QUEUE_CAPACITY` (scheduler.rs:115-118, 155-159).  *)
(***************************************************************************)

\* a.wrapping_sub(b) as isize, for words of W values.
SignedDelta(W, a, b) ==
  LET d == (a - b) % W IN IF d < W \div 2 THEN d ELSE d - W

\* Quotient and remainder, as the prover needs them.
LEMMA QuotientAndRemainder ==
  ASSUME NEW W \in Nat \ {0}, NEW x \in Int
  PROVE  \E q, y \in Int, s \in 0 .. W - 1 : y = W * q /\ x = y + s /\ s = x % W
<1>1. /\ x \div W \in Int /\ x % W \in 0 .. W - 1
      /\ x = W * (x \div W) + (x % W)
  OBVIOUS
<1>2. W * (x \div W) \in Int
  BY <1>1
<1> QED BY <1>1, <1>2

\* Products of less than a word and more than minus a word are zero.
LEMMA SmallMultiple ==
  ASSUME NEW W \in Nat \ {0}, NEW m \in Int, -W < W * m, W * m < W
  PROVE  m = 0
<1>1. CASE m <= -1
  <2>1. W * m <= -W
    BY <1>1
  <2> QED BY <2>1
<1>2. CASE m >= 1
  <2>1. W * m >= W
    BY <1>2
  <2> QED BY <2>1
<1> QED BY <1>1, <1>2

\* A factor distributes over a difference and a sum.
LEMMA Distribute ==
  ASSUME NEW W \in Int, NEW p \in Int, NEW q \in Int
  PROVE  /\ W * (p - q) = W * p - W * q
         /\ W * (p + q) = W * p + W * q
         /\ W * p \in Int
OBVIOUS

\* The remainder is the only one of its kind.
LEMMA RemainderUnique ==
  ASSUME NEW W \in Nat \ {0}, NEW x \in Int, NEW k \in Int, NEW r \in 0 .. W - 1,
         x = W * k + r
  PROVE  x % W = r
<1>1. PICK q, y \in Int, s \in 0 .. W - 1 : y = W * q /\ x = y + s /\ s = x % W
  BY QuotientAndRemainder
<1>2. PICK z \in Int : z = W * k /\ x = z + r
  BY Distribute
<1>3. W * (q - k) = y - z
  BY <1>1, <1>2, Distribute
<1>4. -W < y - z /\ y - z < W
  BY ONLY <1>1, <1>2, W \in Nat, r \in 0 .. W - 1
<1>5. q - k = 0
  <2>1. q - k \in Int
    BY <1>1
  <2> QED BY <2>1, <1>3, <1>4, SmallMultiple
<1>6. q = k
  BY <1>1, <1>5
<1>7. y = z
  BY <1>1, <1>2, <1>6
<1> QED BY ONLY <1>1, <1>2, <1>7, W \in Nat, r \in 0 .. W - 1

\* Counters that wrapped compare like the counters themselves, as long as
\* these are less than half the word apart: `delta` in try_push and try_pop.
THEOREM WrappedDelta ==
  ASSUME NEW W \in Nat \ {0}, NEW half \in Nat \ {0}, W = 2 * half,
         NEW a \in Nat, NEW b \in Nat, -half <= a - b, a - b < half
  PROVE  SignedDelta(W, a % W, b % W) = a - b
<1>1. PICK qa, x \in Int, ra \in 0 .. W - 1 : x = W * qa /\ a = x + ra /\ ra = a % W
  <2>1. a \in Int
    OBVIOUS
  <2> QED BY ONLY <2>1, W \in Nat \ {0}, QuotientAndRemainder
<1>2. PICK qb, y \in Int, rb \in 0 .. W - 1 : y = W * qb /\ b = y + rb /\ rb = b % W
  BY QuotientAndRemainder
<1>3. W \div 2 = half
  OBVIOUS
<1>4. PICK k \in Int : k = qa - qb
  BY <1>1, <1>2
<1>5. W * k = x - y
  BY <1>1, <1>2, <1>4, Distribute
<1>6. -(2 * W) < x - y /\ x - y < 2 * W
  BY <1>1, <1>2
<1>7. k \in {-1, 0, 1}
  <2>1. CASE k <= -2
    <3>1. W * k <= -(2 * W)
      BY <2>1
    <3> QED BY <3>1, <1>1, <1>2, <1>5, <1>6
  <2>2. CASE k >= 2
    <3>1. W * k >= 2 * W
      BY <2>2
    <3> QED BY <3>1, <1>1, <1>2, <1>5, <1>6
  <2> QED BY <2>1, <2>2, <1>4
<1>8. x - y \in {-W, 0, W}
  <2>1. W * (-1) = -W /\ W * 0 = 0 /\ W * 1 = W
    OBVIOUS
  <2> QED BY <2>1, <1>5, <1>7
<1>9. CASE ra >= rb
  <2>1. (ra - rb) % W = ra - rb
    <3>1. ra - rb \in 0 .. W - 1
      BY <1>1, <1>2, <1>9
    <3>2. ra - rb = W * 0 + (ra - rb)
      BY <1>1, <1>2
    <3> QED BY <3>1, <3>2, RemainderUnique
  <2>2. SignedDelta(W, ra, rb) = IF ra - rb < half THEN ra - rb ELSE ra - rb - W
    BY <2>1, <1>3 DEF SignedDelta
  <2>3. (ra - rb < half /\ a - b = ra - rb) \/ (ra - rb >= half /\ a - b = ra - rb - W)
    BY <1>1, <1>2, <1>8, <1>9
  <2> QED BY <2>2, <2>3, <1>1, <1>2
<1>10. CASE ra < rb
  <2>1. (ra - rb) % W = ra - rb + W
    <3>1. ra - rb + W \in 0 .. W - 1 /\ ra - rb \in Int
      BY <1>1, <1>2, <1>10
    <3>2. ra - rb = W * (-1) + (ra - rb + W)
      BY <1>1, <1>2
    <3> QED BY <3>1, <3>2, RemainderUnique
  <2>2. SignedDelta(W, ra, rb) = IF ra - rb + W < half THEN ra - rb + W ELSE ra - rb + W - W
    BY <2>1, <1>3 DEF SignedDelta
  <2>3. \/ ra - rb + W < half /\ a - b = ra - rb + W
        \/ ra - rb + W >= half /\ a - b = ra - rb
    BY <1>1, <1>2, <1>8, <1>10
  <2> QED BY <2>2, <2>3, <1>1, <1>2
<1> QED BY <1>1, <1>2, <1>9, <1>10

\* A capacity that divides the word keeps its slot index across the wrap.
THEOREM WrappedSlot ==
  ASSUME NEW W \in Nat \ {0}, NEW C \in Nat \ {0}, NEW m \in Nat, W = C * m,
         NEW a \in Nat
  PROVE  (a % W) % C = a % C
<1>1. PICK q, x \in Int, r \in 0 .. W - 1 : x = W * q /\ a = x + r /\ r = a % W
  <2>1. a \in Int
    OBVIOUS
  <2> QED BY ONLY <2>1, W \in Nat \ {0}, QuotientAndRemainder
<1>2. PICK p, y \in Int, s \in 0 .. C - 1 : y = C * p /\ r = y + s /\ s = r % C
  <2>1. r \in Int
    BY <1>1
  <2> QED BY ONLY <2>1, C \in Nat \ {0}, QuotientAndRemainder
<1>3. PICK n \in Int : n = m * q
  BY <1>1
<1>4. x = C * n
  BY <1>1, <1>3
<1>5. C * (n + p) = x + y
  BY <1>2, <1>3, <1>4, Distribute
<1>6. a = C * (n + p) + s
  <2>1. a = x + r
    BY <1>1
  <2>2. r = y + s
    BY <1>2
  <2>3. a = (x + y) + s
    BY ONLY <2>1, <2>2, x \in Int, y \in Int, r \in Int, s \in Int
  <2> QED BY ONLY <2>3, <1>5
<1>7. n + p \in Int
  BY <1>2, <1>3
<1>8. a % C = s
  <2>1. a \in Int
    OBVIOUS
  <2> QED BY ONLY <2>1, C \in Nat \ {0}, <1>2, <1>6, <1>7, RemainderUnique
<1> QED BY <1>1, <1>2, <1>8
=============================================================================
