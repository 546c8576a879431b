------------------------------ MODULE Analysis ------------------------------
(***************************************************************************)
(* Trigger and Sorter with the queue between them: from clusters of hits   *)
(* to the histograms and the tree.  Both read the same sort type from the  *)
(* options, and the sorter uses the index the trigger made without looking *)
(* whether it is valid.  The clusters arrive from the splitter, and main   *)
(* tells the two tasks to finish in the order of Wait().                   *)
(***************************************************************************)
EXTENDS Trigger

CONSTANTS WithTree,   \* the values of --tree
          Inputs,     \* the clusters that may arrive
          MaxInput    \* bound: the clusters that arrive

ASSUME WithTreeAssumption == WithTree \subseteq BOOLEAN
ASSUME MaxInputAssumption == MaxInput \in Nat

\* A cluster has at least one hit.
Hit == UNION {ToSet(cluster) : cluster \in Inputs}
ASSUME ClustersAssumption == \A cluster \in Inputs : cluster \in Seq(Hit) /\ cluster # << >>
ASSUME HitsAssumption == \A h \in Hit : h.t \in Int

VARIABLES sorter_pc, sorter_done,
          userSort, spectra, chargeIntegrator, tree, tree_events

Sorter == INSTANCE Sorter WITH
    pc <- sorter_pc, done <- sorter_done, entries_processed <- taken, input <- output

triggerOnly == <<pc, done, entries_processed, input, pending, options>>
sorterOnly == <<sorter_pc, sorter_done, userSort, spectra, chargeIntegrator, tree, tree_events>>
vars == <<triggerOnly, output, taken, sorterOnly>>

AnalysisInit == Init /\ Sorter!Init

TriggerStep == Run /\ UNCHANGED sorterOnly
SorterStep == Sorter!Run /\ UNCHANGED triggerOnly

\* Splitter pushes a cluster; none arrives any more when main has told the trigger
\* to finish.
ClusterArrives ==
    /\ Len(input) < MaxInput /\ ~done
    /\ \E cluster \in Inputs : Arrive(cluster)
    /\ UNCHANGED <<pending, output, taken, options, sorterOnly>>

FinishTrigger == Finish /\ UNCHANGED <<input, pending, output, taken, options, sorterOnly>>
FinishSorter == /\ pc = "exited"
                /\ Sorter!Finish
                /\ UNCHANGED <<triggerOnly, output, userSort, spectra, chargeIntegrator,
                               tree, tree_events>>

Next == \/ TriggerStep \/ SorterStep
        \/ ClusterArrives \/ FinishTrigger \/ FinishSorter

Spec == AnalysisInit /\ [][Next]_vars
-----------------------------------------------------------------------------
(***************************************************************************)
(* Properties, beside those of Trigger                                     *)
(***************************************************************************)
\* That of Sorter.tla, of the events the trigger makes.
SpectraAreTheGoodEvents == Sorter!SpectraAreTheGoodEvents
=============================================================================
