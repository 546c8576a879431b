----------------------------- MODULE SPSCQueue -----------------------------
(***************************************************************************)
(* The lock-free queue between two tasks, include/Tasks/SPSCQueue.h, at    *)
(* the granularity of its atomic operations: every load, store, wait and   *)
(* notify of head_ and tail_ and every access to a slot of buffer_ is a    *)
(* step of its own.  The thread-local cursors and caches of the class are  *)
(* variables; a step that only moves to the next statement of one thread   *)
(* is merged with its neighbour.  The acquire loads and release stores of  *)
(* the code order the slot accesses as the interleaving of steps does.     *)
(*                                                                         *)
(* std::atomic::wait(old) is modelled by what it does: it returns at once  *)
(* when the value differs from old, otherwise the thread sleeps until it   *)
(* is notified and then compares again, so a notification without a change *)
(* of value puts it back to sleep.                                         *)
(***************************************************************************)
EXTENDS Integers, Sequences

CONSTANTS Items,      \* the values of type T
          NoItem,     \* the contents of a slot nothing was stored in
          Capacity,   \* the second template argument; a power of two in the code
          MaxPush,    \* bound: the number of items the producer pushes
          Ops         \* the operations the consumer calls

ASSUME CapacityAssumption == Capacity \in Nat \ {0}
ASSUME MaxPushAssumption == MaxPush \in Nat
ASSUME NoItemAssumption == NoItem \notin Items
ASSUME OpsAssumption == Ops \subseteq {"pop", "try_pop", "wait", "wait_timed", "empty"}

VARIABLES head_, tail_,             \* the shared atomics
          buffer_,                  \* the ring of slots
          is_finish,                \* the shared finish flag
          tail_local_, head_cache_, \* producer-local
          head_local_, tail_cache_, \* consumer-local
          ppc, value,               \* the producer's statement and push's argument
          cpc, op, out,             \* the consumer's statement, call and result slot
          pushed, popped,           \* history: items published and items handed over
          finishSeen                \* history: a wait_and_pop returned false on is_finish

producerVars == <<tail_local_, head_cache_, ppc, value>>
consumerVars == <<head_local_, tail_cache_, cpc, op, out, finishSeen>>
vars == <<head_, tail_, buffer_, is_finish, producerVars, consumerVars, pushed, popped>>

Slot(i) == i % Capacity             \* i & mask

Init == /\ head_ = 0 /\ tail_ = 0
        /\ buffer_ = [s \in 0 .. Capacity - 1 |-> NoItem]
        /\ is_finish = FALSE
        /\ tail_local_ = 0 /\ head_cache_ = 0
        /\ head_local_ = 0 /\ tail_cache_ = 0
        /\ ppc = "idle" /\ value = NoItem
        /\ cpc = "idle" /\ op = "none" /\ out = NoItem
        /\ pushed = << >> /\ popped = << >>
        /\ finishSeen = FALSE
-----------------------------------------------------------------------------
(***************************************************************************)
(* The producer: push(value) and mark_as_finish().  The tasks call         *)
(* mark_as_finish at the end of Run and again from ~QueueWorker, and push  *)
(* nothing afterwards.                                                     *)
(***************************************************************************)
\* Seeded fault: the test for a full queue is off by one.
FullOffByOne(cache) == tail_local_ - cache = Capacity + 1

Full(cache) == tail_local_ - cache = Capacity

PushCall(v) ==
    /\ ppc = "idle" /\ ~is_finish /\ Len(pushed) < MaxPush
    /\ value' = v
    /\ ppc' = IF Full(head_cache_) THEN "load" ELSE "write"
    /\ UNCHANGED <<head_, tail_, buffer_, is_finish, tail_local_, head_cache_,
                   consumerVars, pushed, popped>>

PushLoad ==
    /\ ppc = "load"
    /\ head_cache_' = head_
    /\ ppc' = IF Full(head_) THEN "wait" ELSE "write"
    /\ UNCHANGED <<head_, tail_, buffer_, is_finish, tail_local_, value,
                   consumerVars, pushed, popped>>

\* head_.wait(head_cache_)
PushWait ==
    /\ ppc = "wait"
    /\ ppc' = IF head_ = head_cache_ THEN "asleep" ELSE "load"
    /\ UNCHANGED <<head_, tail_, buffer_, is_finish, tail_local_, head_cache_, value,
                   consumerVars, pushed, popped>>

PushWrite ==
    /\ ppc = "write"
    /\ buffer_' = [buffer_ EXCEPT ![Slot(tail_local_)] = value]
    /\ ppc' = "store"
    /\ UNCHANGED <<head_, tail_, is_finish, tail_local_, head_cache_, value,
                   consumerVars, pushed, popped>>

PushStore ==
    /\ ppc = "store"
    /\ tail_local_' = tail_local_ + 1
    /\ tail_' = tail_local_ + 1
    /\ pushed' = Append(pushed, value)
    /\ ppc' = "notify"
    /\ UNCHANGED <<head_, buffer_, is_finish, head_cache_, value, consumerVars, popped>>

\* Seeded fault: the producer does not notify.
WakeNobody == cpc' = cpc

\* tail_.notify_one(), tail_.notify_all()
WakeConsumer == cpc' = IF cpc = "asleep" THEN "wait" ELSE cpc

PushNotify ==
    /\ ppc = "notify"
    /\ WakeConsumer
    /\ ppc' = "idle"
    /\ UNCHANGED <<head_, tail_, buffer_, is_finish, tail_local_, head_cache_, value,
                   head_local_, tail_cache_, op, out, finishSeen, pushed, popped>>

MarkAsFinish ==
    /\ ppc = "idle"
    /\ is_finish' = TRUE
    /\ ppc' = "finish_notify"
    /\ UNCHANGED <<head_, tail_, buffer_, tail_local_, head_cache_, value,
                   consumerVars, pushed, popped>>

FinishNotify ==
    /\ ppc = "finish_notify"
    /\ WakeConsumer
    /\ ppc' = "idle"
    /\ UNCHANGED <<head_, tail_, buffer_, is_finish, tail_local_, head_cache_, value,
                   head_local_, tail_cache_, op, out, finishSeen, pushed, popped>>

ProducerStep == \/ PushLoad \/ PushWait \/ PushWrite \/ PushStore \/ PushNotify
                \/ FinishNotify
Producer == \/ \E v \in Items : PushCall(v)
            \/ MarkAsFinish
            \/ ProducerStep
-----------------------------------------------------------------------------
(***************************************************************************)
(* The consumer: pop(), try_pop(out), wait_and_pop(out) without and with a *)
(* timeout ("wait", "wait_timed") and empty().                             *)
(***************************************************************************)
Return == /\ cpc' = "idle" /\ op' = "none"

Call(o) ==
    /\ cpc = "idle"
    /\ IF o = "empty" /\ head_local_ # tail_cache_
         THEN Return                          \* empty() answers from the cache
         ELSE /\ op' = o
              /\ cpc' = IF o \in {"pop", "try_pop"} /\ head_local_ # tail_cache_
                          THEN "take" ELSE "load"
    /\ UNCHANGED <<head_, tail_, buffer_, is_finish, producerVars,
                   head_local_, tail_cache_, out, finishSeen, pushed, popped>>

\* What each call does after it has loaded tail_ into tail_cache_.
AfterLoad ==
    \/ op = "empty" /\ Return
    \/ op # "empty" /\ head_local_ # tail_ /\ cpc' = "take" /\ UNCHANGED op
    \/ op = "try_pop" /\ head_local_ = tail_ /\ Return
    \/ op = "pop" /\ head_local_ = tail_ /\ cpc' = "wait" /\ UNCHANGED op
    \/ op \in {"wait", "wait_timed"} /\ head_local_ = tail_ /\ cpc' = "check" /\ UNCHANGED op

\* Seeded fault: the cursor of the producer is not loaded again.
PopLoadStale ==
    /\ cpc = "load"
    /\ tail_cache_' = IF is_finish THEN tail_cache_ ELSE tail_
    /\ IF head_local_ = tail_cache_' THEN cpc' = "check" ELSE cpc' = "take"
    /\ UNCHANGED op
    /\ UNCHANGED <<head_, tail_, buffer_, is_finish, producerVars,
                   head_local_, out, finishSeen, pushed, popped>>

PopLoad ==
    /\ cpc = "load"
    /\ tail_cache_' = tail_
    /\ AfterLoad
    /\ UNCHANGED <<head_, tail_, buffer_, is_finish, producerVars,
                   head_local_, out, finishSeen, pushed, popped>>

\* Seeded fault: a timed wait blocks on tail_ like an untimed one.
CheckFinishBlocking ==
    /\ cpc = "check"
    /\ IF is_finish
         THEN Return /\ finishSeen' = TRUE
         ELSE cpc' = "wait" /\ UNCHANGED <<op, finishSeen>>
    /\ UNCHANGED <<head_, tail_, buffer_, is_finish, producerVars,
                   head_local_, tail_cache_, out, pushed, popped>>

\* if (is_finish) return false
CheckFinish ==
    /\ cpc = "check"
    /\ IF is_finish
         THEN Return /\ finishSeen' = TRUE
         ELSE /\ cpc' = IF op = "wait" THEN "wait" ELSE "deadline"
              /\ UNCHANGED <<op, finishSeen>>
    /\ UNCHANGED <<head_, tail_, buffer_, is_finish, producerVars,
                   head_local_, tail_cache_, out, pushed, popped>>

\* now >= deadline: the call gives up
DeadlinePassed ==
    /\ cpc = "deadline"
    /\ Return
    /\ UNCHANGED <<head_, tail_, buffer_, is_finish, producerVars,
                   head_local_, tail_cache_, out, finishSeen, pushed, popped>>

\* sleep_for one slice, then around the loop
SleepSlice ==
    /\ cpc = "deadline"
    /\ cpc' = "load"
    /\ UNCHANGED <<head_, tail_, buffer_, is_finish, producerVars,
                   head_local_, tail_cache_, op, out, finishSeen, pushed, popped>>

\* tail_.wait(tail_cache_)
PopWait ==
    /\ cpc = "wait"
    /\ cpc' = IF tail_ = tail_cache_ THEN "asleep" ELSE "load"
    /\ UNCHANGED <<head_, tail_, buffer_, is_finish, producerVars,
                   head_local_, tail_cache_, op, out, finishSeen, pushed, popped>>

PopTake ==
    /\ cpc = "take"
    /\ out' = buffer_[Slot(head_local_)]
    /\ cpc' = "store"
    /\ UNCHANGED <<head_, tail_, buffer_, is_finish, producerVars,
                   head_local_, tail_cache_, op, finishSeen, pushed, popped>>

\* Seeded fault: the cursor is published one step back instead of ahead.
PopStoreBack ==
    /\ cpc = "store"
    /\ head_local_' = head_local_ + 1
    /\ head_' = head_local_ - 1
    /\ popped' = Append(popped, out)
    /\ cpc' = "notify"
    /\ UNCHANGED <<tail_, buffer_, is_finish, producerVars,
                   tail_cache_, op, out, finishSeen, pushed>>

PopStore ==
    /\ cpc = "store"
    /\ head_local_' = head_local_ + 1
    /\ head_' = head_local_ + 1
    /\ popped' = Append(popped, out)
    /\ cpc' = "notify"
    /\ UNCHANGED <<tail_, buffer_, is_finish, producerVars,
                   tail_cache_, op, out, finishSeen, pushed>>

\* Seeded fault: the consumer does not notify.
PopReturn ==
    /\ cpc = "notify"
    /\ Return
    /\ UNCHANGED <<head_, tail_, buffer_, is_finish, producerVars,
                   head_local_, tail_cache_, out, finishSeen, pushed, popped>>

\* head_.notify_one(), and the call returns
PopNotify ==
    /\ cpc = "notify"
    /\ ppc' = IF ppc = "asleep" THEN "wait" ELSE ppc
    /\ Return
    /\ UNCHANGED <<head_, tail_, buffer_, is_finish, tail_local_, head_cache_, value,
                   head_local_, tail_cache_, out, finishSeen, pushed, popped>>

ConsumerStep == \/ PopLoad \/ CheckFinish \/ DeadlinePassed \/ SleepSlice \/ PopWait
                \/ PopTake \/ PopStore \/ PopNotify
Consumer == \/ \E o \in Ops : Call(o)
            \/ ConsumerStep
-----------------------------------------------------------------------------
Next == Producer \/ Consumer

Spec == Init /\ [][Next]_vars

\* Each thread is scheduled, the producer finishes the call it is in, and the
\* consumer calls the queue again and again, as the loops of the tasks do.  The
\* clock advances, so a call that keeps sleeping meets its deadline.
Fairness == /\ WF_vars(ProducerStep)
            /\ WF_vars(Consumer)
            /\ SF_vars(DeadlinePassed)
FairSpec == Spec /\ Fairness
-----------------------------------------------------------------------------
(***************************************************************************)
(* Properties                                                              *)
(***************************************************************************)
TypeOK ==
    /\ head_ \in Nat /\ tail_ \in Nat
    /\ buffer_ \in [0 .. Capacity - 1 -> Items \cup {NoItem}]
    /\ is_finish \in BOOLEAN
    /\ tail_local_ \in Nat /\ head_cache_ \in Nat
    /\ head_local_ \in Nat /\ tail_cache_ \in Nat
    /\ ppc \in {"idle", "load", "wait", "asleep", "write", "store", "notify", "finish_notify"}
    /\ value \in Items \cup {NoItem}
    /\ cpc \in {"idle", "load", "check", "deadline", "wait", "asleep", "take", "store", "notify"}
    /\ op \in Ops \cup {"none"}
    /\ out \in Items \cup {NoItem}
    /\ pushed \in Seq(Items) /\ popped \in Seq(Items \cup {NoItem})
    /\ finishSeen \in BOOLEAN

\* The consumer gets the items the producer pushed, each once, in the order of
\* the pushes and with the value that was pushed, although it reads a slot and
\* publishes the new head in two steps while the producer fills the ring.
FifoOrder ==
    /\ Len(popped) <= Len(pushed)
    /\ \A i \in 1 .. Len(popped) : popped[i] = pushed[i]

\* The producer never writes the slot the consumer is moving a value out of:
\* slots are plain memory and such an overlap would be a data race.
NoSlotRace ==
    ~ (ppc = "write" /\ cpc = "take" /\ Slot(tail_local_) = Slot(head_local_))

\* A thread asleep in atomic::wait whose condition has become false is about to
\* be notified: no store to head_ or tail_ goes unnoticed.
NoLostWakeup ==
    /\ ppc = "asleep" => head_ = head_cache_ \/ cpc = "notify"
    /\ cpc = "asleep" => tail_ = tail_cache_ \/ ppc = "notify"

\* The two threads are never both asleep, each waiting for the other.
NoMutualSleep == ~ (ppc = "asleep" /\ cpc = "asleep")

\* wait_and_pop loads tail_ before it reads is_finish, so its first false answer
\* may come with items still in the queue; a caller that calls it again after
\* such an answer gets every item before it is told once more.
FinishSeenMeansDrained ==
    finishSeen /\ cpc = "check" => Len(popped) = Len(pushed)

\* The invariant that is inductive, from which the ones above follow.  Each
\* thread's cursor is the counter it publishes, its cache of the other's counter
\* is an old value of it, and what a thread found in its cache stays true until
\* it acts on it.
Cursors ==
    /\ tail_ = Len(pushed) /\ tail_local_ = tail_
    /\ head_ = Len(popped) /\ head_local_ = head_
    /\ head_cache_ <= head_ /\ head_ <= tail_cache_
    /\ tail_cache_ <= tail_ /\ tail_ <= head_cache_ + Capacity
ProducerAt ==
    /\ ppc \in {"load", "wait", "asleep"} => tail_ = head_cache_ + Capacity
    /\ ppc \in {"write", "store"} => tail_ < head_cache_ + Capacity
    /\ ppc \in {"load", "wait", "asleep", "write", "store"} => value \in Items
    /\ ppc = "store" => buffer_[Slot(tail_)] = value
    /\ is_finish => ppc \in {"idle", "finish_notify"}
    /\ ppc \in {"load", "wait", "asleep", "write", "store"} => Len(pushed) < MaxPush
ConsumerAt ==
    /\ cpc # "idle" => op \in Ops
    /\ cpc \in {"take", "store"} => head_ < tail_cache_
    /\ cpc \in {"check", "deadline", "wait", "asleep"} => head_ = tail_cache_
    /\ cpc = "store" => out = pushed[head_ + 1]
    /\ finishSeen => is_finish
Contents == \A i \in head_ .. tail_ - 1 : buffer_[Slot(i)] = pushed[i + 1]
IInv == /\ TypeOK /\ Cursors /\ ProducerAt /\ ConsumerAt /\ Contents
        /\ FifoOrder /\ NoLostWakeup /\ FinishSeenMeansDrained

\* The queue is a bounded FIFO queue: only publishing tail_ pushes, only
\* publishing head_ pops, and there are never more than Capacity items between.
Fifo == INSTANCE BoundedFifo
ImplementsFifo == Fifo!Spec

\* A push always completes while the consumer keeps calling, also when it has
\* to wait for a free slot.
PushCompletes == ppc \in {"load", "wait", "asleep"} ~> ppc = "idle"

\* Every item pushed is handed over while the consumer keeps calling.
EverythingDelivered ==
    \A n \in 1 .. MaxPush : Len(pushed) >= n ~> Len(popped) >= n

\* A call with a timeout returns, whether or not anything is ever pushed.
TimedWaitReturns == op = "wait_timed" ~> op = "none"
=============================================================================
