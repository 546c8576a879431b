---------------------------- MODULE EventOutput ----------------------------
(***************************************************************************)
(* What Sorter::Run makes of the events that it does not skip: the event   *)
(* is indexed, HistManager::AddEntry calls the plugin and then fills the   *)
(* histograms, and TTreeManager::Fill writes a row of the tree.  Sorter.tla *)
(* has when this happens, in the loop of the task; this module has what is *)
(* written.                                                                *)
(***************************************************************************)
EXTENDS UserSort

CONSTANTS MAX_ENTRIES, TRACE_MAX_LENGTH,   \* as in TTreeManager
          Triggers,   \* the values of --Trigger
          Hits,       \* bound: the hits an event may have, in sequences, for each plugin
          MaxEvents   \* bound: the events

ASSUME ArrayAssumption == /\ MAX_ENTRIES \in Nat /\ TRACE_MAX_LENGTH \in Nat
                          /\ MAX_ENTRIES * MAX_ENTRIES = 2 * TRACE_MAX_LENGTH

ASSUME MaxEventsAssumption == MaxEvents \in Nat

VARIABLES gap, triggerType,   \* whether --sortType is gap, and --Trigger
          spectra,   \* the histograms
          trigger, branches,   \* the members of TTreeManager
          tree       \* the rows written

options == <<gap, triggerType, table, values>>
vars == <<options, userSortVars, spectra, trigger, branches, tree>>

Tree == INSTANCE TTreeManager

Init == /\ UserSortInit
        /\ gap \in BOOLEAN /\ triggerType \in IF gap THEN {"any"} ELSE Triggers
        /\ table \in Tables[object] /\ values = Ranges!Read(table)
        /\ spectra = EmptySpectra
        /\ trigger = Tree!NewTrigger
        /\ branches = [type \in Tree!TreeTypes |-> Tree!NewBranch]
        /\ tree = << >>
-----------------------------------------------------------------------------
\* TTreeManager::Fill
FillTree(event, entries) ==
    /\ trigger' = Tree!FillTrigger(trigger, event.trigger)
    /\ branches' = [type \in Tree!TreeTypes |->
           Tree!FillDetector(branches[type], GetDetector(entries, type), event.trigger)]
    /\ tree' = Append(tree,
           [trigger |-> trigger',
            hits |-> [type \in Tree!TreeTypes |-> Tree!DetectorRow(branches'[type])]])

\* hm.AddEntry(event), which begins with the plugin, and tree->Fill(event)
Handle(event) ==
    /\ \E entries \in Indexed(event.hits) :
           /\ FillEvent(event, entries)
           /\ spectra' = AddTo(spectra, event, entries)
           /\ FillTree(event, entries)
    /\ UNCHANGED options

\* The plugin ends the process before anything of the event is filled.
HandleNoMore(event) == Crash(event) /\ UNCHANGED <<options, spectra, trigger, branches, tree>>

\* The trigger is one of the hits of the event, except in a gap run.
EventsOf(hits) ==
    IF gap THEN {[hits |-> hits, trigger |-> NoTrigger]}
           ELSE {[hits |-> hits, trigger |-> h] : h \in {g \in ToSet(hits) : g.type = triggerType}}

Next == /\ ~crashed /\ Len(events) < MaxEvents
        /\ \E hits \in Hits[object] : \E event \in EventsOf(hits) :
               Handle(event) \/ HandleNoMore(event)

Spec == Init /\ [][Next]_vars
-----------------------------------------------------------------------------
(***************************************************************************)
(* Properties                                                              *)
(***************************************************************************)
Select(event, Fits(_)) == SelectSeq(event.hits, Fits)
Good == SelectSeq(events, LAMBDA event : ~IsBad(event))
Total(seq, Value(_)) == FoldLeft(LAMBDA n, x : n + Value(x), 0, seq)

\* However the sorts order equal hits, the ranges of the last event are complete:
\* the hits of a type or a telescope are found, and none of another one.
RangesAreComplete ==
    events # << >> =>
        \A entries \in Indexed(Last(events).hits) :
            CompleteRanges(Last(events).hits, entries)

\* The range of a particle grows with its energy and agrees with the lines of the
\* file around it, at the edges of the steps and beyond the end of the file too.
RangeFollowsTable == Ranges!RangeFollowsTable(table, values)

\* A gamma of the coincidence matrices is a single that was seen, and is in one
\* of the two only, however the prompt and the background gate overlap.
EachGammaCountedOnce ==
    LET gammas(matrix) == BagOfAll(LAMBDA p : p[2], spectra[matrix])
        singles == BagOfAll(LAMBDA p : p[3],
            [p \in {q \in DOMAIN spectra["energy"] : q[1] = "labr"} |-> spectra["energy"][p]])
    IN  gammas("alfna_prompt") (+) gammas("alfna_background") \sqsubseteq singles

\* A particle is identified from a good trigger that is the only dE hit of its
\* telescope, with a single E hit of the same telescope, and from no other event;
\* and no event without an identified particle adds to the spectra behind the gate.
ParticlesAreUnambiguous ==
    LET alone(event) ==
            /\ IsParticle(event)
            /\ Len(Select(event, LAMBDA h : h.type = "deDet"
                                            /\ Telescope(h) = Telescope(event.trigger))) = 1
            /\ Len(Select(event, LAMBDA h : h.type = "eDet"
                                            /\ h.detectorID = Telescope(event.trigger))) = 1
        passed == BagCardinality([p \in {q \in DOMAIN spectra["thickness"] :
                                             Inside(particle_gate, q[2])}
                                      |-> spectra["thickness"][p]])
    IN  /\ BagCardinality(spectra["thickness"]) = Len(SelectSeq(Good, alone))
        /\ \A name \in {"ede_time", "ede_spectra", "particle_energy", "mult_ex"} :
               BagCardinality(spectra[name]) = passed

\* Every good hit of an event with a trigger is timed against it, and only the
\* trigger is not.
OnlyTheTriggerIsNotTimed ==
    BagCardinality(spectra["time"] (+) spectra["time_CFDfail"])
        = Total(Good, LAMBDA event :
              IF event.trigger = NoTrigger THEN 0
              ELSE Len(Select(event, LAMBDA h : h.type \in ToSet(SpecTypes) /\ h # event.trigger)))

\* The tree has a row for each event, the bad ones included, and each is of its
\* own event.
TreeRowsAreTheEvents ==
    /\ Len(tree) = Len(events)
    /\ \A n \in DOMAIN tree : Tree!RowIsTheEvent(tree[n], events[n])

\* usage.md:88: with --keep_traces "XIA2tree will include traces, if available in
\* the raw file, in the ROOT TTree", and 89: "should only be used if you intend
\* to preserve the trace data".
TracesPreserved == \A n \in DOMAIN tree : Tree!RowHasTheTraces(tree[n], events[n])
=============================================================================
