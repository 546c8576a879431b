----------------------------- MODULE TaskInput -----------------------------
(***************************************************************************)
(* A task as the consumer of a queue.  The queue is represented as in      *)
(* BoundedFifo, which SPSCQueue implements: input is the sequence of all   *)
(* items ever pushed, and as every task counts an entry right after each   *)
(* successful pop, entries_processed is the number of items popped.        *)
(***************************************************************************)
EXTENDS Task

VARIABLE input   \* the items pushed into the input queue so far

ItemWaiting == entries_processed < Len(input)
NextItem == input[entries_processed + 1]

\* wait_and_pop() returns true with NextItem; ++entries_processed
PopNext == /\ pc = "pop" /\ ItemWaiting
            /\ entries_processed' = entries_processed + 1
            /\ UNCHANGED <<done, input>>

\* wait_and_pop() has found the queue empty and returns false: continue.  The step
\* stands at its last look at the queue, so an item that arrives between that and
\* the return is one that arrives afterwards.
TimedOut == /\ pc = "pop" /\ ~ItemWaiting
            /\ pc' = "test"
            /\ UNCHANGED <<done, entries_processed, input>>

\* while ( !done )
Test == /\ pc = "test"
        /\ pc' = IF done THEN "drain" ELSE "pop"
        /\ UNCHANGED <<done, entries_processed, input>>

\* The items popped so far.
Popped == SubSeq(input, 1, entries_processed)

\* The task before this one pushes an item.
Arrive(x) == /\ Len(input) - entries_processed < Capacity
             /\ input' = Append(input, x)
             /\ UNCHANGED <<pc, done, entries_processed>>
=============================================================================
