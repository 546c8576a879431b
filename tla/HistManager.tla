----------------------------- MODULE HistManager -----------------------------
(***************************************************************************)
(* HistManager (include/Tasks/Sort.h, src/Tasks/Sort.cpp): the histograms  *)
(* of a sort and what an event adds to them.  Histograms are bags of the   *)
(* points they were filled with; raw and calibrated spectra get the same   *)
(* hits and are one bag.  An event is a record of its hits and of its      *)
(* trigger, a copy of one of them, or NoTrigger in a gap run.              *)
(***************************************************************************)
EXTENDS TriggeredEvent, BagsExt

CONSTANTS NoTrigger,
          Emin, Estep, TooHigh,          \* as in ParticleRange
          prompt, background, particle_gate,  \* the gates, with the limits lhs and rhs
          ex_a0, ex_a1, ex_a2,           \* the excitation polynomial of each ring
          Sn                             \* the 7000 keV of AddEntry

ASSUME StepAssumption == Estep \in Nat \ {0} /\ Estep % 2 = 0 /\ Emin \in Nat

VARIABLES table,   \* the lines of the range file
          values   \* of ParticleRange, read from them before the sort begins

Ranges == INSTANCE ParticleRange

GetRange(energy) == Ranges!GetRange(values, energy)

Inside(gate, x) == gate.lhs < x /\ x < gate.rhs

CalculateExcitation(ring, energy) ==
    ex_a0[ring] + ex_a1[ring] * energy + ex_a2[ring] * energy * energy

Time(h, start) == (h.timestamp - start.timestamp) + (h.cfdcorr - start.cfdcorr)

\* The types that have spectra, the cases of GetSpec
SpecTypes == <<"labr", "deDet", "eDet", "ppac", "oscarF", "oscarB">>
-----------------------------------------------------------------------------
(***************************************************************************)
(* The points an indexed event adds to each histogram.                     *)
(***************************************************************************)
Map(seq, Point(_)) == [i \in DOMAIN seq |-> Point(seq[i])]

\* Seeded fault: the timestamp alone tells the trigger from the other hits.
IsStartByTime(h, start) == h.timestamp = start.timestamp

\* Detector_Histograms_t::Fill: the trigger itself has no time to be measured.
IsStart(h, start) == /\ h.type = start.type /\ h.detectorID = start.detectorID
                     /\ h.timestamp = start.timestamp
Timed(event, hits) == IF event.trigger = NoTrigger THEN << >>
                      ELSE SelectSeq(hits, LAMBDA h : ~IsStart(h, event.trigger))
Detectors(event, entries) ==
    LET hits == FlattenSeq(Map(SpecTypes, LAMBDA type : GetDetector(entries, type)))
        point(h) == <<h.type, h.detectorID, Time(h, event.trigger)>>
        timed(failed) == SelectSeq(Timed(event, hits), LAMBDA h : h.cfdfail = failed)
    IN  [energy       |-> Map(hits, LAMBDA h : <<h.type, h.detectorID, h.energy>>),
         mult         |-> Map(SpecTypes,
                              LAMBDA type : <<type, Len(GetDetector(entries, type))>>),
         time         |-> Map(timed(FALSE), point),
         time_CFDfail |-> Map(timed(TRUE), point)]

trapID(event) == Telescope(event.trigger)
ringID(event) == event.trigger.detectorID % NUM_SI_DE_TEL

\* Particle_telescope_t::Fill: each pair of a dE and an E hit of the telescope
Telescopes(event, entries) ==
    LET e == GetTrapE(entries, trapID(event))
        pairs(de) == SelectSeq(e, LAMBDA h : Telescope(de) = h.detectorID)
    IN  [particle_coincidence |->
           FlattenSeq(Map(GetTrapDE(entries, trapID(event)), LAMBDA de :
               Map(pairs(de), LAMBDA h : <<trapID(event), de.detectorID % NUM_SI_DE_TEL,
                                           h.energy, de.energy>>)))]

\* Seeded fault: the other dE hits of the telescope are not counted.
OneResidue(event, entries) == Len(GetTrapE(entries, trapID(event))) = 1

OneParticle(event, entries) == /\ Len(GetTrapDE(entries, trapID(event))) = 1
                               /\ Len(GetTrapE(entries, trapID(event))) = 1

e_evt(event, entries) == GetTrapE(entries, trapID(event))[1]
etot(event, entries) == e_evt(event, entries).energy + event.trigger.energy
thick(event, entries) == GetRange(etot(event, entries))
                             - GetRange(e_evt(event, entries).energy)
Thickness(event, entries) == [thickness |-> <<<<ringID(event), thick(event, entries)>>>>]

\* Seeded fault: a hit may be prompt and background.
GammasOverlapping(event, entries) ==
    LET Ex == CalculateExcitation(ringID(event), etot(event, entries))
        labr == GetDetector(entries, "labr")
        time(h) == Time(h, event.trigger)
        in(gate) == SelectSeq(labr, LAMBDA h : Inside(gate, time(h)))
    IN  [ts_ex_above_Sn    |-> IF Ex > Sn THEN Map(labr, LAMBDA h : <<h.detectorID, time(h)>>)
                                          ELSE << >>,
         alfna_prompt      |-> Map(in(prompt), LAMBDA h : <<Ex, h.energy>>),
         labr_energy_gated |-> Map(in(prompt), LAMBDA h : <<h.detectorID, h.energy>>),
         alfna_background  |-> Map(in(background), LAMBDA h : <<Ex, h.energy>>),
         mult_ex           |-> << <<Ex, 0>> >>]

\* The loop over the LaBr hits, whose background is else if; coinc stays 0.
Gammas(event, entries) ==
    LET Ex == CalculateExcitation(ringID(event), etot(event, entries))
        labr == GetDetector(entries, "labr")
        time(h) == Time(h, event.trigger)
        isPrompt(h) == Inside(prompt, time(h))
        late == SelectSeq(labr, LAMBDA h : ~isPrompt(h) /\ Inside(background, time(h)))
        in == SelectSeq(labr, isPrompt)
    IN  [ts_ex_above_Sn    |-> IF Ex > Sn THEN Map(labr, LAMBDA h : <<h.detectorID, time(h)>>)
                                          ELSE << >>,
         alfna_prompt      |-> Map(in, LAMBDA h : <<Ex, h.energy>>),
         labr_energy_gated |-> Map(in, LAMBDA h : <<h.detectorID, h.energy>>),
         alfna_background  |-> Map(late, LAMBDA h : <<Ex, h.energy>>),
         mult_ex           |-> << <<Ex, 0>> >>]

Particle(event, entries) ==
    [ede_time        |-> << <<e_evt(event, entries).energy,
                              Time(e_evt(event, entries), event.trigger)>> >>,
     ede_spectra     |-> << <<ringID(event), e_evt(event, entries).energy,
                              event.trigger.energy>> >>,
     particle_energy |-> << <<ringID(event), etot(event, entries)>> >>]

Qints(event, entries) ==
    [chargeIntegrator |-> Map(GetDetector(entries, "qint"), LAMBDA h : <<h.timestamp>>)]

Names == {"chargeIntegrator", "energy", "mult", "time", "time_CFDfail",
          "particle_coincidence", "thickness", "ede_time", "ede_spectra",
          "particle_energy", "ts_ex_above_Sn", "alfna_prompt", "labr_energy_gated",
          "alfna_background", "mult_ex"}
Nothing == [name \in Names |-> << >>]

\* The returns of AddEntry, from the first to the last.
IsBad(event) == event.trigger # NoTrigger /\ event.trigger.cfdfail
IsParticle(event) == event.trigger # NoTrigger /\ event.trigger.type = "deDet"
Filled(event, entries) ==
    IF IsBad(event) THEN Qints(event, entries)
    ELSE IF ~IsParticle(event)
      THEN Qints(event, entries) @@ Detectors(event, entries)
    ELSE IF ~OneParticle(event, entries)
      THEN Qints(event, entries) @@ Detectors(event, entries)
               @@ Telescopes(event, entries)
    ELSE Qints(event, entries) @@ Detectors(event, entries)
             @@ Telescopes(event, entries) @@ Thickness(event, entries)
             @@ IF Inside(particle_gate, thick(event, entries))
                  THEN Particle(event, entries) @@ Gammas(event, entries) ELSE << >>
-----------------------------------------------------------------------------
EmptySpectra == [name \in Names |-> EmptyBag]

\* AddEntry
AddTo(spectra, event, entries) ==
    LET points == Filled(event, entries) @@ Nothing
    IN  [name \in Names |-> spectra[name] (+) ToBag(points[name])]
=============================================================================
