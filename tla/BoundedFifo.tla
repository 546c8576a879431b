---------------------------- MODULE BoundedFifo ----------------------------
(***************************************************************************)
(* What a queue between two tasks of the pipeline promises: one thread     *)
(* pushes items, one thread takes them out in the same order, at most      *)
(* Capacity items are in between, and the producer may declare that no     *)
(* more items will come.  The queue is represented by its two histories,   *)
(* the items pushed and the items popped; its contents are the difference. *)
(* SPSCQueue implements this specification.                                *)
(***************************************************************************)
EXTENDS Integers, Sequences

CONSTANTS Items,      \* the values the queue carries
          Capacity,   \* the second template argument of the queue
          MaxPush     \* bound: the number of items the producer has to push

VARIABLES pushed,     \* the items pushed so far, in order
          popped,     \* the items popped so far, in order
          is_finish   \* the producer has called mark_as_finish()

vars == <<pushed, popped, is_finish>>

Init == /\ pushed = << >>
        /\ popped = << >>
        /\ is_finish = FALSE

Push(v) == /\ ~is_finish
           /\ Len(pushed) < MaxPush
           /\ Len(pushed) - Len(popped) < Capacity
           /\ pushed' = Append(pushed, v)
           /\ UNCHANGED <<popped, is_finish>>

Pop == /\ Len(popped) < Len(pushed)
       /\ popped' = Append(popped, pushed[Len(popped) + 1])
       /\ UNCHANGED <<pushed, is_finish>>

Finish == /\ is_finish' = TRUE
          /\ UNCHANGED <<pushed, popped>>

Next == \/ \E v \in Items : Push(v)
        \/ Pop
        \/ Finish

Spec == Init /\ [][Next]_vars
=============================================================================
