------------------------------ MODULE Grouping ------------------------------
(***************************************************************************)
(* Buffer and Splitter with the queue between them: from calibrated hits   *)
(* in the order of the file to clusters of hits in order of time.  The     *)
(* splitter looks at neighbours only, so that its clusters mean what they  *)
(* should just as far as the buffer has put the hits in order.  Hits       *)
(* arrive from the calibrator, the trigger pops the clusters, and main     *)
(* tells the two tasks to finish in the order of Wait().                   *)
(***************************************************************************)
EXTENDS Buffer

CONSTANTS Gap,      \* the option --splitTime
          Hits,     \* the hits that may arrive
          MaxInput  \* bound: the hits that arrive

ASSUME GapAssumption == Gap \in Nat
ASSUME HitsAssumption == \A h \in Hits : h.t \in Int
ASSUME MaxInputAssumption == MaxInput \in Nat

VARIABLES splitter_pc, splitter_done, entries,
          clusters_pending, clusters, clusters_taken   \* the output of the splitter

Splitter == INSTANCE Splitter WITH
    pc <- splitter_pc, done <- splitter_done, entries_processed <- taken,
    input <- output,
    pending <- clusters_pending, output <- clusters, taken <- clusters_taken

bufferOnly == <<pc, done, entries_processed, input, pending, buffer>>
splitterOnly == <<splitter_pc, splitter_done, entries,
                  clusters_pending, clusters, clusters_taken>>
vars == <<bufferOnly, output, taken, splitterOnly>>

GroupingInit == Init /\ Splitter!Init

BufferStep == Run /\ UNCHANGED splitterOnly
SplitterStep == Splitter!Run /\ UNCHANGED bufferOnly
TakeCluster == Splitter!Take /\ UNCHANGED <<bufferOnly, output, entries>>

\* The calibrator pushes a hit, each of them made from another record; none arrives
\* any more when main has told the buffer to finish.
HitArrives ==
    /\ Len(input) < MaxInput /\ ~done
    /\ \E h \in Hits : /\ \A i \in DOMAIN input : input[i].from # h.from
                      /\ Arrive(h)
    /\ UNCHANGED <<pending, output, taken, buffer, splitterOnly>>

FinishBuffer == Finish /\ UNCHANGED <<input, pending, output, taken, buffer, splitterOnly>>
FinishSplitter == /\ pc = "exited"
                  /\ Splitter!Finish
                  /\ UNCHANGED <<bufferOnly, output, entries,
                                 clusters_pending, clusters, clusters_taken>>

Next == \/ BufferStep \/ SplitterStep \/ TakeCluster
        \/ HitArrives \/ FinishBuffer \/ FinishSplitter

Spec == GroupingInit /\ [][Next]_vars
-----------------------------------------------------------------------------
(***************************************************************************)
(* Properties, beside those of Buffer                                      *)
(***************************************************************************)
\* Those of Splitter.tla, of the hits in the order the buffer emits them.
ClustersPartitionTheHits == Splitter!ClustersPartitionTheHits
CutAtEveryGap == Splitter!CutAtEveryGap
EachClusterEmitted == Splitter!EachClusterEmitted
=============================================================================
