----------------------------- MODULE TaskOutput -----------------------------
(***************************************************************************)
(* A task as the producer of a queue, with the items it has made and not   *)
(* pushed yet.  A push waits while the queue is full.                      *)
(***************************************************************************)
EXTENDS Task

VARIABLES pending,   \* the items still to be pushed, in order
          output,    \* the items pushed into the output queue so far
          taken      \* the number of them the next task has popped

OutputInit == pending = << >> /\ output = << >> /\ taken = 0

\* Seeded fault: the queue counts one slot less than it has.
PushOneShort == /\ pc \in {"push", "drain"} /\ pending # << >>
                /\ Len(output) - taken < Capacity - 1
                /\ output' = Append(output, Head(pending))
                /\ pending' = Tail(pending)
                /\ UNCHANGED <<pc, done, entries_processed, taken>>

\* output_queue.push()
Push == /\ pc \in {"push", "drain"} /\ pending # << >>
        /\ Len(output) - taken < Capacity
        /\ output' = Append(output, Head(pending))
        /\ pending' = Tail(pending)
        /\ UNCHANGED <<pc, done, entries_processed, taken>>

\* The end of the body of the loop.
Handled == /\ pc = "push" /\ pending = << >>
           /\ pc' = "test"
           /\ UNCHANGED <<done, entries_processed, pending, output, taken>>

\* mark_as_finish(), is_done = true, and Run() returns
Exit == /\ pc = "drain" /\ pending = << >>
        /\ pc' = "exited"
        /\ UNCHANGED <<done, entries_processed, pending, output, taken>>

\* The next task pops an item.
Take == /\ taken < Len(output)
        /\ taken' = taken + 1
        /\ UNCHANGED <<pc, done, entries_processed, pending, output>>
=============================================================================
