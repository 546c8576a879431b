------------------------------- MODULE Sorter -------------------------------
(***************************************************************************)
(* Task::Sorter (src/Tasks/Sort.cpp): fills the histograms and, with the   *)
(* option --tree, the tree of the output file from the events of Trigger.  *)
(* An event is what Trigger pushes: the hits, of which only the verdict of *)
(* the CFD matters here, and the index of the trigger, or -1.              *)
(*                                                                         *)
(* The histograms are represented by the events they were filled with: the *)
(* plugin of the user sees every event, the spectra of the detectors only  *)
(* those whose trigger has a good CFD.                                     *)
(***************************************************************************)
EXTENDS TaskInput, SequencesExt

CONSTANTS SortTypes,  \* the values of --sortType: coincidence, time, gap
          WithTree    \* the values of --tree

VARIABLES sort_type,    \* UserConfiguration::GetSortType()
          userSort,     \* the events UserSortManager::FillEvent was called with
          spectra,      \* the events the detector histograms were filled with
          chargeIntegrator,  \* the number of qint hits filled
          tree,         \* the pointer: "none", "open", or "closed" when it was reset
          tree_events   \* the events the tree was filled with

histograms == <<userSort, spectra, chargeIntegrator>>
sorterVars == <<sort_type, histograms, tree, tree_events>>

Init == /\ TaskInit /\ input = << >>
        /\ sort_type \in SortTypes
        /\ userSort = << >> /\ spectra = << >> /\ chargeIntegrator = 0
        /\ \E keep_tree \in WithTree : tree = IF keep_tree THEN "open" ELSE "none"
        /\ tree_events = << >>
-----------------------------------------------------------------------------
\* GetTrigger(): in a gap run the event is constructed without a trigger.
HasTrigger(event) == sort_type # "gap"
GetTrigger(event) == event.hits[event.index + 1]

Qints(event) == Len(SelectSeq(event.hits, LAMBDA h : h.type = "qint"))

\* An event without hits is left out, in a gap run one with a trigger behind its
\* first hit too.
Skipped(event) == \/ event.hits = << >>
                  \/ sort_type = "gap" /\ event.index > 0

\* if ( tree ) tree->Fill(event)
TreeFill(event) ==
    tree_events' = IF tree = "open" THEN Append(tree_events, event) ELSE tree_events

\* wait_and_pop() and the first statement of HistManager::AddEntry
Pop ==
    /\ PopNext
    /\ userSort' = IF Skipped(NextItem) THEN userSort ELSE Append(userSort, NextItem)
    /\ pc' = "push"
    /\ UNCHANGED <<sort_type, spectra, chargeIntegrator, tree, tree_events>>

InHand == input[entries_processed]

\* Seeded fault: a bad trigger stops the charge integrator too.
AddEntryGoodOnly(event) ==
    IF HasTrigger(event) /\ GetTrigger(event).cfdfail
      THEN UNCHANGED <<spectra, chargeIntegrator>>
      ELSE /\ chargeIntegrator' = chargeIntegrator + Qints(event)
           /\ spectra' = Append(spectra, event)

\* The rest of AddEntry: "For now, we will discard events with bad CFD"
AddEntry(event) ==
    /\ chargeIntegrator' = chargeIntegrator + Qints(event)
    /\ spectra' = IF HasTrigger(event) /\ GetTrigger(event).cfdfail
                    THEN spectra ELSE Append(spectra, event)

\* The rest of the body of the loop.
Fill ==
    /\ pc = "push"
    /\ IF Skipped(InHand)
         THEN UNCHANGED <<spectra, chargeIntegrator, tree_events>>
         ELSE AddEntry(InHand) /\ TreeFill(InHand)
    /\ pc' = "test"
    /\ UNCHANGED <<done, entries_processed, input, sort_type, userSort, tree>>

\* tree.reset(nullptr): writes the tree and closes the file
ExitClosed ==
    /\ pc = "drain"
    /\ tree' = IF tree = "open" THEN "closed" ELSE tree
    /\ pc' = "exited"
    /\ UNCHANGED <<done, entries_processed, input, sort_type, histograms, tree_events>>

Run == \/ Test /\ UNCHANGED sorterVars
       \/ Pop
       \/ Fill
       \/ TimedOut /\ UNCHANGED sorterVars
       \/ ExitClosed

-----------------------------------------------------------------------------
(***************************************************************************)
(* Properties                                                              *)
(***************************************************************************)
\* The events of a sequence that are not skipped.
Accepted(events) ==
    FoldLeft(LAMBDA accepted, e : IF Skipped(e) THEN accepted ELSE Append(accepted, e),
             << >>, events)

\* Those of them whose trigger has a good CFD, or that have none.
Good(events) ==
    FoldLeft(LAMBDA good, e :
                 IF sort_type # "gap" /\ GetTrigger(e).cfdfail THEN good ELSE Append(good, e),
             << >>, events)

\* The events that have been handled to the end of the loop's body.
Finished == SubSeq(input, 1, IF pc = "push" THEN entries_processed - 1 ELSE entries_processed)

\* The tree has each event once and in order; the spectra have those of them without
\* a bad trigger, in the same order, while the charge of no event is lost.
SpectraAreTheGoodEvents ==
    /\ tree_events = IF tree = "none" THEN << >> ELSE Accepted(Finished)
    /\ spectra = Good(Accepted(Finished))
    /\ chargeIntegrator = FoldLeft(LAMBDA n, e : n + Qints(e), 0, Accepted(Finished))
=============================================================================
