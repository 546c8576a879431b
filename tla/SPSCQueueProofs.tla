-------------------------- MODULE SPSCQueueProofs --------------------------
(***************************************************************************)
(* Proofs about SPSCQueue for every capacity, set of items and number of   *)
(* pushes: first two facts about slot numbers, then that every step of the *)
(* two threads preserves the inductive invariant IInv, one lemma per       *)
(* action, and from it the safety properties and the implementation of     *)
(* BoundedFifo.                                                            *)
(***************************************************************************)
EXTENDS SPSCQueue, TLAPS

\* The masked cursor i & mask is a slot of the ring.
LEMMA SlotInRing == \A i \in Nat : Slot(i) \in 0 .. Capacity - 1
  BY CapacityAssumption DEF Slot

\* A positive multiple of the capacity is at least the capacity (for SlotsDiffer).
LEMMA MultipleOfCapacity ==
  ASSUME NEW d \in Int, 0 < Capacity * d
  PROVE  Capacity <= Capacity * d
<1>1. d >= 1
  BY CapacityAssumption, SMT
<1>2. Capacity * d = Capacity + Capacity * (d - 1)
  BY CapacityAssumption, SMT
<1>3. Capacity * (d - 1) >= 0
  BY <1>1, CapacityAssumption, SMT
<1>4. QED
  BY <1>2, <1>3, CapacityAssumption, SMT

\* Two cursors less than Capacity apart use different slots of the ring.
LEMMA SlotsDiffer ==
  ASSUME NEW i \in Nat, NEW j \in Nat, i < j, j - i < Capacity
  PROVE  Slot(i) # Slot(j)
<1>1. SUFFICES ASSUME i % Capacity = j % Capacity PROVE FALSE
  BY DEF Slot
<1> DEFINE p == i \div Capacity
           q == j \div Capacity
<1>2. i = Capacity * p + (i % Capacity) /\ p \in Int /\ i % Capacity \in Int
  BY CapacityAssumption
<1>3. j = Capacity * q + (j % Capacity) /\ q \in Int
  BY CapacityAssumption
<1> HIDE DEF p, q
<1>4. j - i = Capacity * (q - p)
  BY <1>1, <1>2, <1>3, CapacityAssumption
<1>5. q - p \in Int
  BY <1>2, <1>3
<1>6. QED
  BY <1>4, <1>5, MultipleOfCapacity, CapacityAssumption
-----------------------------------------------------------------------------
\* A queue just constructed satisfies the inductive invariant.
LEMMA InitIInv == Init => IInv
  BY CapacityAssumption DEF Init, IInv, TypeOK, Cursors, ProducerAt, ConsumerAt, Contents,
     FifoOrder, NoLostWakeup, FinishSeenMeansDrained

\* push() entered: the cached head_ decides whether the queue looks full.
LEMMA PushCallStep == ASSUME IInv, NEW v \in Items, PushCall(v) PROVE IInv'
<1> USE DEF IInv, PushCall, producerVars, consumerVars
<1>1. TypeOK'
  BY CapacityAssumption, OpsAssumption DEF TypeOK, Full
<1>2. ProducerAt'
  <2>1. CASE Full(head_cache_)
    <3>1. ppc' = "load"
      BY <2>1
    <3>2. tail_ - head_cache_ = Capacity
      BY <2>1 DEF Full, Cursors
    <3>3. tail_ \in Nat /\ head_cache_ \in Nat
      BY DEF TypeOK
    <3>4. tail_ = head_cache_ + Capacity
      BY <3>2, <3>3, CapacityAssumption
    <3> QED
      BY <3>1, <3>4 DEF ProducerAt
  <2>2. CASE ~ Full(head_cache_)
    <3>1. ppc' = "write"
      BY <2>2
    <3>2. tail_ - head_cache_ # Capacity
      BY <2>2 DEF Full, Cursors
    <3>3. tail_ <= head_cache_ + Capacity /\ tail_ \in Nat /\ head_cache_ \in Nat
      BY CapacityAssumption DEF TypeOK, Cursors
    <3>4. tail_ < head_cache_ + Capacity
      BY <3>2, <3>3, CapacityAssumption
    <3> QED
      BY <3>1, <3>4 DEF ProducerAt
  <2> QED
    BY <2>1, <2>2
<1>3. NoLostWakeup'
  BY DEF NoLostWakeup, TypeOK, Cursors, ProducerAt, ConsumerAt, Full
<1>4. Cursors' /\ ConsumerAt' /\ Contents' /\ FifoOrder' /\ FinishSeenMeansDrained'
  BY DEF Cursors, ConsumerAt, Contents, FifoOrder, FinishSeenMeansDrained
<1> QED
  BY <1>1, <1>2, <1>3, <1>4

\* push() reloads head_cache_ from head_.
LEMMA PushLoadStep == ASSUME IInv, PushLoad PROVE IInv'
<1> USE DEF IInv, PushLoad, producerVars, consumerVars
<1>1. TypeOK'
  BY CapacityAssumption, OpsAssumption DEF TypeOK, Full
<1>2. Cursors'
  BY CapacityAssumption DEF Cursors, TypeOK, Full
<1>3. ProducerAt'
  <2>1. CASE Full(head_)
    <3>1. ppc' = "wait"
      BY <2>1
    <3>2. tail_ - head_ = Capacity
      BY <2>1 DEF Full, Cursors
    <3>3. tail_ \in Nat /\ head_ \in Nat
      BY DEF TypeOK
    <3>4. tail_ = head_ + Capacity
      BY <3>2, <3>3, CapacityAssumption
    <3> QED
      BY <3>1, <3>4 DEF ProducerAt
  <2>2. CASE ~ Full(head_)
    <3>1. ppc' = "write"
      BY <2>2
    <3>2. tail_ - head_ # Capacity
      BY <2>2 DEF Full, Cursors
    <3>3. tail_ <= head_cache_ + Capacity /\ head_cache_ <= head_ /\ head_cache_ \in Nat /\ tail_ \in Nat /\ head_ \in Nat
      BY CapacityAssumption DEF TypeOK, Cursors
    <3>4. tail_ < head_ + Capacity
      BY <3>2, <3>3, CapacityAssumption
    <3> QED
      BY <3>1, <3>4 DEF ProducerAt
  <2> QED
    BY <2>1, <2>2
<1>4. NoLostWakeup'
  BY DEF NoLostWakeup, TypeOK, Cursors, ProducerAt, ConsumerAt, Full
<1>5. ConsumerAt' /\ Contents' /\ FifoOrder' /\ FinishSeenMeansDrained'
  BY DEF ConsumerAt, Contents, FifoOrder, FinishSeenMeansDrained
<1> QED
  BY <1>1, <1>2, <1>3, <1>4, <1>5

\* push() compares head_ with head_cache_ in atomic::wait.
LEMMA PushWaitStep == ASSUME IInv, PushWait PROVE IInv'
<1> USE DEF IInv, PushWait, producerVars, consumerVars
<1>1. TypeOK'
  BY CapacityAssumption, OpsAssumption DEF TypeOK
<1>2. ProducerAt'
  BY CapacityAssumption DEF ProducerAt, TypeOK, Cursors
<1>3. NoLostWakeup'
  BY DEF NoLostWakeup, TypeOK, Cursors, ProducerAt, ConsumerAt
<1>4. Cursors' /\ ConsumerAt' /\ Contents' /\ FifoOrder' /\ FinishSeenMeansDrained'
  BY DEF Cursors, ConsumerAt, Contents, FifoOrder, FinishSeenMeansDrained
<1> QED
  BY <1>1, <1>2, <1>3, <1>4

\* push() moves the value into a slot that holds no unread item.
LEMMA PushWriteStep == ASSUME IInv, PushWrite PROVE IInv'
<1> USE DEF IInv, PushWrite, producerVars, consumerVars
<1>1. TypeOK'
  BY CapacityAssumption, OpsAssumption DEF TypeOK
<1>2. ProducerAt'
  <2>1. buffer_'[Slot(tail_)] = value
    BY SlotInRing DEF TypeOK, Cursors
  <2> QED
    BY <2>1 DEF ProducerAt
<1>3. Contents'
  <2> SUFFICES ASSUME NEW i \in head_ .. tail_ - 1
               PROVE  buffer_'[Slot(i)] = pushed[i + 1]
    BY DEF Contents
  <2>1. i \in Nat /\ tail_ \in Nat /\ i < tail_ /\ tail_ - i < Capacity
    <3>1. tail_ < head_cache_ + Capacity /\ head_cache_ <= head_
      BY DEF ProducerAt, Cursors
    <3>2. head_ \in Nat /\ tail_ \in Nat /\ head_cache_ \in Nat
      BY DEF TypeOK
    <3> QED
      BY <3>1, <3>2, CapacityAssumption
  <2>2. Slot(i) # Slot(tail_)
    BY <2>1, SlotsDiffer
  <2>3. buffer_'[Slot(i)] = buffer_[Slot(i)]
    BY <2>1, <2>2, SlotInRing DEF TypeOK, Cursors
  <2> QED
    BY <2>3 DEF Contents
<1>4. NoLostWakeup'
  BY DEF NoLostWakeup, TypeOK, Cursors, ProducerAt, ConsumerAt
<1>5. Cursors' /\ ConsumerAt' /\ FifoOrder' /\ FinishSeenMeansDrained'
  BY DEF Cursors, ConsumerAt, FifoOrder, FinishSeenMeansDrained
<1> QED
  BY <1>1, <1>2, <1>3, <1>4, <1>5

\* push() publishes the item by storing tail_.
LEMMA PushStoreStep == ASSUME IInv, PushStore PROVE IInv'
<1> USE DEF IInv, PushStore, producerVars, consumerVars
<1>1. TypeOK'
  <2>1. value \in Items /\ pushed' \in Seq(Items)
    BY DEF TypeOK, ProducerAt
  <2> QED
    BY <2>1 DEF TypeOK
<1>2. Cursors'
  <2>1. Len(pushed') = Len(pushed) + 1
    BY DEF TypeOK
  <2> QED
    BY <2>1, CapacityAssumption DEF TypeOK, Cursors, ProducerAt
<1>3. ProducerAt'
  BY CapacityAssumption DEF ProducerAt, TypeOK, Cursors
<1>4. ConsumerAt'
  <2>1. cpc = "store" => pushed'[head_ + 1] = pushed[head_ + 1]
    BY DEF TypeOK, Cursors, ConsumerAt
  <2> QED
    BY <2>1 DEF ConsumerAt
<1>5. Contents'
  <2>1. tail_ = Len(pushed) /\ tail_ \in Nat /\ head_ \in Nat /\ tail_' = tail_ + 1
    BY DEF TypeOK, Cursors
  <2> SUFFICES ASSUME NEW i \in head_ .. tail_
               PROVE  buffer_[Slot(i)] = pushed'[i + 1]
    BY <2>1 DEF Contents
  <2>2. CASE i = tail_
    <3>1. pushed'[i + 1] = value
      BY <2>1, <2>2 DEF TypeOK
    <3> QED
      BY <2>2, <3>1 DEF ProducerAt
  <2>3. CASE i < tail_
    <3>1. pushed'[i + 1] = pushed[i + 1]
      BY <2>1, <2>3 DEF TypeOK
    <3>2. i \in head_ .. tail_ - 1
      BY <2>1, <2>3
    <3> QED
      BY <3>1, <3>2 DEF Contents
  <2> QED
    BY <2>1, <2>2, <2>3
<1>6. FifoOrder'
  BY DEF FifoOrder, TypeOK, Cursors
<1>7. NoLostWakeup'
  BY DEF NoLostWakeup, TypeOK, Cursors, ProducerAt, ConsumerAt
<1>8. FinishSeenMeansDrained'
  BY DEF FinishSeenMeansDrained, ConsumerAt, ProducerAt
<1> QED
  BY <1>1, <1>2, <1>3, <1>4, <1>5, <1>6, <1>7, <1>8

\* push() wakes the consumer.
LEMMA PushNotifyStep == ASSUME IInv, PushNotify PROVE IInv'
<1> USE DEF IInv, PushNotify, producerVars, consumerVars
<1>1. TypeOK'
  BY CapacityAssumption, OpsAssumption DEF TypeOK, WakeConsumer
<1>2. ProducerAt'
  BY CapacityAssumption DEF ProducerAt, TypeOK, Cursors, WakeConsumer
<1>3. ConsumerAt'
  BY OpsAssumption DEF ConsumerAt, TypeOK, Cursors, WakeConsumer
<1>4. NoLostWakeup'
  BY DEF NoLostWakeup, TypeOK, Cursors, ProducerAt, ConsumerAt, WakeConsumer
<1>5. FinishSeenMeansDrained'
  BY DEF FinishSeenMeansDrained, TypeOK, Cursors, ConsumerAt, WakeConsumer
<1>6. Cursors' /\ Contents' /\ FifoOrder'
  BY DEF Cursors, Contents, FifoOrder
<1> QED
  BY <1>1, <1>2, <1>3, <1>4, <1>5, <1>6

\* mark_as_finish() sets the flag, outside of any push.
LEMMA MarkAsFinishStep == ASSUME IInv, MarkAsFinish PROVE IInv'
<1> USE DEF IInv, MarkAsFinish, producerVars, consumerVars
<1>1. TypeOK'
  BY CapacityAssumption, OpsAssumption DEF TypeOK
<1>2. ProducerAt'
  BY CapacityAssumption DEF ProducerAt, TypeOK, Cursors
<1>3. ConsumerAt'
  BY OpsAssumption DEF ConsumerAt, TypeOK, Cursors
<1>4. NoLostWakeup'
  BY DEF NoLostWakeup, TypeOK, Cursors, ProducerAt, ConsumerAt
<1>5. Cursors' /\ Contents' /\ FifoOrder' /\ FinishSeenMeansDrained'
  BY DEF Cursors, Contents, FifoOrder, FinishSeenMeansDrained
<1> QED
  BY <1>1, <1>2, <1>3, <1>4, <1>5

\* mark_as_finish() wakes the consumer.
LEMMA FinishNotifyStep == ASSUME IInv, FinishNotify PROVE IInv'
<1> USE DEF IInv, FinishNotify, producerVars, consumerVars
<1>1. TypeOK'
  BY CapacityAssumption, OpsAssumption DEF TypeOK, WakeConsumer
<1>2. ProducerAt'
  BY CapacityAssumption DEF ProducerAt, TypeOK, Cursors, WakeConsumer
<1>3. ConsumerAt'
  BY OpsAssumption DEF ConsumerAt, TypeOK, Cursors, WakeConsumer
<1>4. NoLostWakeup'
  BY DEF NoLostWakeup, TypeOK, Cursors, ProducerAt, ConsumerAt, WakeConsumer
<1>5. FinishSeenMeansDrained'
  BY DEF FinishSeenMeansDrained, TypeOK, Cursors, ConsumerAt, WakeConsumer
<1>6. Cursors' /\ Contents' /\ FifoOrder'
  BY DEF Cursors, Contents, FifoOrder
<1> QED
  BY <1>1, <1>2, <1>3, <1>4, <1>5, <1>6

\* A call of the consumer begins, and may answer from tail_cache_.
LEMMA CallStep == ASSUME IInv, NEW o \in Ops, Call(o) PROVE IInv'
<1> USE DEF IInv, Call, producerVars, consumerVars
<1>1. TypeOK'
  BY CapacityAssumption, OpsAssumption DEF TypeOK, Return
<1>2. ConsumerAt'
  <2>1. cpc' = "take" => head_ < tail_cache_
    <3>1. cpc' = "take" => head_local_ # tail_cache_
      BY DEF Return
    <3>2. head_local_ = head_ /\ head_ <= tail_cache_ /\ head_ \in Nat /\ tail_cache_ \in Nat
      BY DEF TypeOK, Cursors
    <3> QED
      BY <3>1, <3>2
  <2>2. cpc' \in {"idle", "take", "load"}
    BY DEF Return
  <2>3. cpc' # "idle" => op' \in Ops
    BY DEF Return
  <2> QED
    BY <2>1, <2>2, <2>3 DEF ConsumerAt
<1>3. NoLostWakeup'
  BY DEF NoLostWakeup, TypeOK, Cursors, ProducerAt, ConsumerAt, Return
<1>4. FinishSeenMeansDrained'
  BY DEF FinishSeenMeansDrained, TypeOK, Cursors, ConsumerAt, Return
<1>5. Cursors' /\ ProducerAt' /\ Contents' /\ FifoOrder'
  BY DEF Cursors, ProducerAt, Contents, FifoOrder
<1> QED
  BY <1>1, <1>2, <1>3, <1>4, <1>5

\* A call of the consumer reloads tail_cache_ from tail_.
LEMMA PopLoadStep == ASSUME IInv, PopLoad PROVE IInv'
<1> USE DEF IInv, PopLoad, producerVars, consumerVars
<1>1. TypeOK'
  BY DEF TypeOK, AfterLoad, Return
<1>2. Cursors'
  BY CapacityAssumption DEF Cursors, TypeOK, AfterLoad, Return
<1>3. ConsumerAt'
  <2>1. cpc' = "take" => head_ < tail_
    <3>1. cpc' = "take" => head_local_ # tail_
      BY DEF AfterLoad, Return
    <3>2. head_local_ = head_ /\ head_ <= tail_ /\ head_ \in Nat /\ tail_ \in Nat
      BY DEF TypeOK, Cursors
    <3> QED
      BY <3>1, <3>2
  <2>2. cpc' \in {"check", "wait"} => head_ = tail_
    BY DEF Cursors, AfterLoad, Return
  <2>3. cpc' \in {"idle", "take", "check", "wait"}
    BY DEF AfterLoad, Return
  <2>4. cpc' # "idle" => op' = op
    BY DEF AfterLoad, Return
  <2> QED
    BY <2>1, <2>2, <2>3, <2>4 DEF ConsumerAt
<1>4. NoLostWakeup'
  BY DEF NoLostWakeup, TypeOK, Cursors, ProducerAt, ConsumerAt, AfterLoad, Return
<1>5. FinishSeenMeansDrained'
  BY DEF FinishSeenMeansDrained, TypeOK, Cursors, ConsumerAt, AfterLoad, Return
<1>6. ProducerAt' /\ Contents' /\ FifoOrder'
  BY DEF ProducerAt, Contents, FifoOrder
<1> QED
  BY <1>1, <1>2, <1>3, <1>4, <1>5, <1>6

\* wait_and_pop() on an empty queue reads is_finish.
LEMMA CheckFinishStep == ASSUME IInv, CheckFinish PROVE IInv'
<1> USE DEF IInv, CheckFinish, producerVars, consumerVars
<1>1. TypeOK'
  BY CapacityAssumption, OpsAssumption DEF TypeOK, Return
<1>2. ConsumerAt'
  BY OpsAssumption DEF ConsumerAt, TypeOK, Cursors, Return
<1>3. NoLostWakeup'
  BY DEF NoLostWakeup, TypeOK, Cursors, ProducerAt, ConsumerAt, Return
<1>4. FinishSeenMeansDrained'
  BY DEF FinishSeenMeansDrained, TypeOK, Cursors, ConsumerAt, Return
<1>5. Cursors' /\ ProducerAt' /\ Contents' /\ FifoOrder'
  BY DEF Cursors, ProducerAt, Contents, FifoOrder
<1> QED
  BY <1>1, <1>2, <1>3, <1>4, <1>5

\* wait_and_pop() gives up at its deadline.
LEMMA DeadlinePassedStep == ASSUME IInv, DeadlinePassed PROVE IInv'
<1> USE DEF IInv, DeadlinePassed, producerVars, consumerVars
<1>1. TypeOK'
  BY CapacityAssumption, OpsAssumption DEF TypeOK, Return
<1>2. ConsumerAt'
  BY OpsAssumption DEF ConsumerAt, TypeOK, Cursors, Return
<1>3. NoLostWakeup'
  BY DEF NoLostWakeup, TypeOK, Cursors, ProducerAt, ConsumerAt, Return
<1>4. FinishSeenMeansDrained'
  BY DEF FinishSeenMeansDrained, TypeOK, Cursors, ConsumerAt, Return
<1>5. Cursors' /\ ProducerAt' /\ Contents' /\ FifoOrder'
  BY DEF Cursors, ProducerAt, Contents, FifoOrder
<1> QED
  BY <1>1, <1>2, <1>3, <1>4, <1>5

\* wait_and_pop() sleeps one slice and tries again.
LEMMA SleepSliceStep == ASSUME IInv, SleepSlice PROVE IInv'
<1> USE DEF IInv, SleepSlice, producerVars, consumerVars
<1>1. TypeOK'
  BY CapacityAssumption, OpsAssumption DEF TypeOK
<1>2. ConsumerAt'
  BY OpsAssumption DEF ConsumerAt, TypeOK, Cursors
<1>3. NoLostWakeup'
  BY DEF NoLostWakeup, TypeOK, Cursors, ProducerAt, ConsumerAt
<1>4. FinishSeenMeansDrained'
  BY DEF FinishSeenMeansDrained, TypeOK, Cursors, ConsumerAt
<1>5. Cursors' /\ ProducerAt' /\ Contents' /\ FifoOrder'
  BY DEF Cursors, ProducerAt, Contents, FifoOrder
<1> QED
  BY <1>1, <1>2, <1>3, <1>4, <1>5

\* pop() compares tail_ with tail_cache_ in atomic::wait.
LEMMA PopWaitStep == ASSUME IInv, PopWait PROVE IInv'
<1> USE DEF IInv, PopWait, producerVars, consumerVars
<1>1. TypeOK'
  BY CapacityAssumption, OpsAssumption DEF TypeOK
<1>2. ConsumerAt'
  BY OpsAssumption DEF ConsumerAt, TypeOK, Cursors
<1>3. NoLostWakeup'
  BY DEF NoLostWakeup, TypeOK, Cursors, ProducerAt, ConsumerAt
<1>4. FinishSeenMeansDrained'
  BY DEF FinishSeenMeansDrained, TypeOK, Cursors, ConsumerAt
<1>5. Cursors' /\ ProducerAt' /\ Contents' /\ FifoOrder'
  BY DEF Cursors, ProducerAt, Contents, FifoOrder
<1> QED
  BY <1>1, <1>2, <1>3, <1>4, <1>5

\* A call of the consumer moves the value out of the slot.
LEMMA PopTakeStep == ASSUME IInv, PopTake PROVE IInv'
<1> USE DEF IInv, PopTake, producerVars, consumerVars
<1>1. TypeOK'
  BY SlotInRing DEF TypeOK, Cursors
<1>2. ConsumerAt'
  <2>1. head_ \in head_ .. tail_ - 1
    BY DEF TypeOK, Cursors, ConsumerAt
  <2>2. out' = pushed[head_ + 1]
    BY <2>1 DEF Contents, Cursors
  <2> QED
    BY <2>2 DEF ConsumerAt
<1>3. NoLostWakeup'
  BY DEF NoLostWakeup, TypeOK, Cursors, ProducerAt, ConsumerAt
<1>4. FinishSeenMeansDrained'
  BY DEF FinishSeenMeansDrained, TypeOK, Cursors, ConsumerAt
<1>5. Cursors' /\ ProducerAt' /\ Contents' /\ FifoOrder'
  BY DEF Cursors, ProducerAt, Contents, FifoOrder
<1> QED
  BY <1>1, <1>2, <1>3, <1>4, <1>5

\* A call of the consumer frees the slot by storing head_.
LEMMA PopStoreStep == ASSUME IInv, PopStore PROVE IInv'
<1> USE DEF IInv, PopStore, producerVars, consumerVars
<1>1. TypeOK'
  BY CapacityAssumption, OpsAssumption DEF TypeOK
<1>2. Cursors'
  <2>1. Len(popped') = Len(popped) + 1
    BY DEF TypeOK
  <2> QED
    BY <2>1 DEF TypeOK, Cursors, ConsumerAt
<1>3. ConsumerAt'
  BY OpsAssumption DEF ConsumerAt, TypeOK, Cursors
<1>4. Contents'
  <2> SUFFICES ASSUME NEW i \in head_' .. tail_ - 1
               PROVE  buffer_[Slot(i)] = pushed[i + 1]
    BY DEF Contents
  <2>1. i \in head_ .. tail_ - 1
    BY DEF TypeOK, Cursors
  <2> QED
    BY <2>1 DEF Contents
<1>5. FifoOrder'
  <2>1. out = pushed[Len(popped) + 1] /\ Len(popped) < Len(pushed)
    BY DEF TypeOK, Cursors, ConsumerAt
  <2>2. Len(popped') = Len(popped) + 1
    BY DEF TypeOK
  <2>3. \A i \in 1 .. Len(popped') : popped'[i] = IF i = Len(popped) + 1 THEN out ELSE popped[i]
    BY DEF TypeOK
  <2> QED
    BY <2>1, <2>2, <2>3 DEF FifoOrder, TypeOK
<1>6. NoLostWakeup'
  BY DEF NoLostWakeup, TypeOK, Cursors, ProducerAt, ConsumerAt
<1>7. FinishSeenMeansDrained'
  BY DEF FinishSeenMeansDrained, TypeOK, Cursors, ConsumerAt
<1>8. ProducerAt'
  BY DEF ProducerAt
<1> QED
  BY <1>1, <1>2, <1>3, <1>4, <1>5, <1>6, <1>7, <1>8

\* A call of the consumer wakes the producer and returns.
LEMMA PopNotifyStep == ASSUME IInv, PopNotify PROVE IInv'
<1> USE DEF IInv, PopNotify, producerVars, consumerVars
<1>1. TypeOK'
  BY CapacityAssumption, OpsAssumption DEF TypeOK, Return
<1>2. ProducerAt'
  BY CapacityAssumption DEF ProducerAt, TypeOK, Cursors, Return
<1>3. ConsumerAt'
  BY OpsAssumption DEF ConsumerAt, TypeOK, Cursors, Return
<1>4. NoLostWakeup'
  BY DEF NoLostWakeup, TypeOK, Cursors, ProducerAt, ConsumerAt, Return
<1>5. FinishSeenMeansDrained'
  BY DEF FinishSeenMeansDrained, TypeOK, Cursors, ConsumerAt, Return
<1>6. Cursors' /\ Contents' /\ FifoOrder'
  BY DEF Cursors, Contents, FifoOrder
<1> QED
  BY <1>1, <1>2, <1>3, <1>4, <1>5, <1>6

-----------------------------------------------------------------------------
(***************************************************************************)
(* The theorems.                                                           *)
(***************************************************************************)
\* A step that changes no variable of the queue preserves the invariant.
LEMMA StutterStep == ASSUME IInv, UNCHANGED vars PROVE IInv'
  BY DEF IInv, vars, producerVars, consumerVars, TypeOK, Cursors, ProducerAt, ConsumerAt,
     Contents, FifoOrder, NoLostWakeup, FinishSeenMeansDrained

\* Every reachable state satisfies the inductive invariant: the cursors are the
\* published counters, the caches are old values of them, and the slots between
\* head_ and tail_ hold exactly the items pushed and not yet popped.
THEOREM Invariance == Spec => []IInv
<1>1. IInv /\ [Next]_vars => IInv'
  <2> SUFFICES ASSUME IInv, [Next]_vars PROVE IInv'
    OBVIOUS
  <2>1. CASE Producer
    BY <2>1, PushCallStep, PushLoadStep, PushWaitStep, PushWriteStep, PushStoreStep,
       PushNotifyStep, MarkAsFinishStep, FinishNotifyStep DEF Producer, ProducerStep
  <2>2. CASE Consumer
    BY <2>2, CallStep, PopLoadStep, CheckFinishStep, DeadlinePassedStep, SleepSliceStep,
       PopWaitStep, PopTakeStep, PopStoreStep, PopNotifyStep DEF Consumer, ConsumerStep
  <2>3. CASE UNCHANGED vars
    BY <2>3, StutterStep
  <2> QED
    BY <2>1, <2>2, <2>3 DEF Next
<1> QED
  BY InitIInv, <1>1, PTL DEF Spec

\* Every variable of the queue keeps its type.
THEOREM TypeCorrect == Spec => []TypeOK
<1>1. IInv => TypeOK
  BY DEF IInv
<1> QED
  BY Invariance, <1>1, PTL

\* The consumer receives the pushed items in order, without loss of a prefix,
\* duplicate or overwritten value, for every capacity and number of pushes.
THEOREM FifoCorrect == Spec => []FifoOrder
<1>1. IInv => FifoOrder
  BY DEF IInv
<1> QED
  BY Invariance, <1>1, PTL

\* push and the pops never touch the same slot at the same time.
THEOREM SlotRaceFree == Spec => []NoSlotRace
<1>1. IInv => NoSlotRace
  <2> SUFFICES ASSUME IInv, ppc = "write", cpc = "take"
               PROVE  Slot(tail_local_) # Slot(head_local_)
    BY DEF NoSlotRace
  <2>1. head_ < tail_ /\ tail_ < head_ + Capacity
    <3>1. head_ < tail_cache_ /\ tail_cache_ <= tail_
      BY DEF IInv, ConsumerAt, Cursors
    <3>2. tail_ < head_cache_ + Capacity /\ head_cache_ <= head_
      BY DEF IInv, ProducerAt, Cursors
    <3>3. /\ head_ \in Nat /\ tail_ \in Nat
          /\ head_cache_ \in Nat /\ tail_cache_ \in Nat
      BY DEF IInv, TypeOK
    <3> QED
      BY <3>1, <3>2, <3>3, CapacityAssumption
  <2>2. head_ \in Nat /\ tail_ \in Nat /\ head_local_ = head_ /\ tail_local_ = tail_
    BY DEF IInv, TypeOK, Cursors
  <2>3. tail_ - head_ < Capacity
    BY <2>1, <2>2, CapacityAssumption
  <2> QED
    BY <2>1, <2>2, <2>3, SlotsDiffer
<1> QED
  BY Invariance, <1>1, PTL

\* No store to head_ or tail_ leaves a sleeping thread without a notification.
THEOREM WakeupsNotLost == Spec => []NoLostWakeup
<1>1. IInv => NoLostWakeup
  BY DEF IInv
<1> QED
  BY Invariance, <1>1, PTL

\* The producer and the consumer of a queue cannot wait for one another.
THEOREM NoMutualSleepCorrect == Spec => []NoMutualSleep
<1>1. IInv => NoMutualSleep
  <2> SUFFICES ASSUME IInv, ppc = "asleep", cpc = "asleep" PROVE FALSE
    BY DEF NoMutualSleep
  <2>1. head_ = head_cache_ /\ tail_ = tail_cache_
    BY DEF IInv, NoLostWakeup
  <2>2. tail_ = head_cache_ + Capacity /\ head_ = tail_cache_
    BY DEF IInv, ProducerAt, ConsumerAt
  <2> QED
    BY <2>1, <2>2, CapacityAssumption DEF IInv, TypeOK
<1> QED
  BY Invariance, <1>1, PTL

\* A caller told twice that the queue has finished has received every item.
THEOREM FinishSeenCorrect == Spec => []FinishSeenMeansDrained
<1>1. IInv => FinishSeenMeansDrained
  BY DEF IInv
<1> QED
  BY Invariance, <1>1, PTL

\* The queue implements the bounded FIFO queue of BoundedFifo: publishing tail_
\* is its Push, publishing head_ its Pop, and every other step a stutter.
THEOREM Refinement == Spec => ImplementsFifo
<1>1. Init => Fifo!Init
  BY DEF Init, Fifo!Init
<1>2. IInv /\ [Next]_vars => [Fifo!Next]_(Fifo!vars)
  <2> SUFFICES ASSUME IInv, [Next]_vars PROVE [Fifo!Next]_(Fifo!vars)
    OBVIOUS
  <2> USE DEF producerVars, consumerVars, Fifo!vars
  <2>1. CASE PushStore
    <3>1. value \in Items /\ ~is_finish
      BY <2>1 DEF PushStore, IInv, ProducerAt
    <3>2. Len(pushed) < MaxPush
      BY <2>1 DEF PushStore, IInv, ProducerAt
    <3>3. Len(pushed) - Len(popped) < Capacity
      BY <2>1, CapacityAssumption DEF PushStore, IInv, TypeOK, Cursors, ProducerAt
    <3> QED
      BY <2>1, <3>1, <3>2, <3>3 DEF PushStore, Fifo!Next, Fifo!Push
  <2>2. CASE PopStore
    <3>1. Len(popped) < Len(pushed) /\ out = pushed[Len(popped) + 1]
      BY <2>2 DEF PopStore, IInv, TypeOK, Cursors, ConsumerAt
    <3> QED
      BY <2>2, <3>1 DEF PopStore, Fifo!Next, Fifo!Pop
  <2>3. CASE MarkAsFinish
    BY <2>3 DEF MarkAsFinish, Fifo!Next, Fifo!Finish
  <2>4. CASE (\E v \in Items : PushCall(v)) \/ PushLoad \/ PushWait \/ PushWrite
             \/ PushNotify \/ FinishNotify
    BY <2>4 DEF PushCall, PushLoad, PushWait, PushWrite, PushNotify, FinishNotify
  <2>5. CASE (\E o \in Ops : Call(o)) \/ PopLoad \/ CheckFinish \/ DeadlinePassed
             \/ SleepSlice \/ PopWait \/ PopTake \/ PopNotify
    BY <2>5 DEF Call, PopLoad, CheckFinish, DeadlinePassed, SleepSlice, PopWait, PopTake,
       PopNotify
  <2>6. CASE UNCHANGED vars
    BY <2>6 DEF vars
  <2> QED
    BY <2>1, <2>2, <2>3, <2>4, <2>5, <2>6
       DEF Next, Producer, ProducerStep, Consumer, ConsumerStep
<1> QED
  BY Invariance, <1>1, <1>2, PTL DEF Spec, ImplementsFifo, Fifo!Spec
=============================================================================
