------------------------------- MODULE Buffer -------------------------------
(***************************************************************************)
(* Task::Buffer (include/Tasks/Buffer.h, src/Tasks/Buffer.cpp): puts the   *)
(* hits in order of time with a priority queue of bounded size.  A hit is  *)
(* a record with a time t, its timestamp and CFD correction together; hits *)
(* are distinct.  std::priority_queue promises only that top() is a hit no *)
(* other is earlier than, so a choice among equal times is open.           *)
(***************************************************************************)
EXTENDS TaskInput, TaskOutput, FiniteSets, SequencesExt

CONSTANT Size   \* buf_size, 65536 in Buffer.h

ASSUME SizeAssumption == Size \in Nat

VARIABLE buffer      \* the hits in the priority queue

Init == TaskInit /\ OutputInit /\ input = << >> /\ buffer = {}
-----------------------------------------------------------------------------
Earlier(a, b) == a.t < b.t

\* Seeded fault: the comparison puts the latest hit on top.
LatestTops(hits) == {h \in hits : \A g \in hits : ~Earlier(h, g)}

\* The hits that may be top().
Tops(hits) == {h \in hits : \A g \in hits : ~Earlier(g, h)}

\* Seeded fault: the top is popped before it is pushed.
PopThenPush ==
    /\ PopNext
    /\ LET hits == buffer \cup {NextItem} IN
         IF Cardinality(hits) > Size
           THEN \E top \in Tops(hits) :
                  \E second \in Tops(hits \ {top}) :
                    buffer' = hits \ {top} /\ pending' = <<second>>
           ELSE buffer' = hits /\ pending' = << >>
    /\ pc' = "push"
    /\ UNCHANGED <<output, taken>>

\* buffer.push(event); when it is over its size, its top is to be pushed
Pop ==
    /\ PopNext
    /\ LET hits == buffer \cup {NextItem} IN
         IF Cardinality(hits) > Size
           THEN \E top \in Tops(hits) : buffer' = hits \ {top} /\ pending' = <<top>>
           ELSE buffer' = hits /\ pending' = << >>
    /\ pc' = "push"
    /\ UNCHANGED <<output, taken>>

\* No hit of a sequence is earlier than one before it.
InOrder(hits) == \A i, j \in DOMAIN hits : i < j => ~Earlier(hits[j], hits[i])

\* The sequences of a set of hits in order of time.
Orders(hits) == {order \in SetToSeqs(hits) : InOrder(order)}

\* The loop ends, and while ( !buffer.empty() ) pushes what is left top by top.
TestAndDrain ==
    /\ Test
    /\ IF done THEN pending' \in Orders(buffer) /\ buffer' = {}
               ELSE UNCHANGED <<pending, buffer>>
    /\ UNCHANGED <<output, taken>>

Run == \/ TestAndDrain
       \/ Pop
       \/ TimedOut /\ UNCHANGED <<pending, output, taken, buffer>>
       \/ Push /\ UNCHANGED <<input, buffer>>
       \/ Handled /\ UNCHANGED <<input, buffer>>
       \/ Exit /\ UNCHANGED <<input, buffer>>
-----------------------------------------------------------------------------
(***************************************************************************)
(* Properties                                                              *)
(***************************************************************************)
\* No hit is lost or doubled between the two queues: what was popped is in the
\* priority queue, about to be pushed, or pushed, and the task ends with all of it
\* pushed.
HitsConserved ==
    LET out == output \o pending IN
    /\ buffer \cup ToSet(out) = ToSet(Popped)
    /\ Cardinality(buffer) + Len(out) = entries_processed
    /\ pc = "exited" => Len(output) = entries_processed

\* The number of hits that arrived before the k-th one and are later than it.
Overtaken(k) == Cardinality({j \in 1 .. k - 1 : Earlier(input[k], input[j])})

\* The hits leave in order of time, at shutdown too, when none arrives after
\* more than Size hits later than itself: the size of the buffer is the disorder
\* of the data it can undo.
OrderedWithinSize ==
    (\A k \in 1 .. entries_processed : Overtaken(k) <= Size)
        => InOrder(output \o pending)
=============================================================================
