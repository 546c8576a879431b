---------------------- MODULE ParticleCoincidenceSort ----------------------
(***************************************************************************)
(* The plugin ParticleCoincidenceSort.cpp: what an indexed event adds to   *)
(* its histograms.  Energies are in keV and times in ns.                   *)
(***************************************************************************)
EXTENDS HistManager

CONSTANTS a0, a1, a2   \* the coefficients of the plugin for each ring

CalculateEx(Etot, ring) == a0[ring] + a1[ring] * Etot + a2[ring] * Etot * Etot

Sum(seq) == FoldLeft(LAMBDA n, h : n + h.energy, 0, seq)
Around(energy, width, x) == energy - width < x /\ x < energy + width
Peak2214(h) == Around(2214, 15, h.energy)
Peak1345(h) == Around(1345, 15, h.energy)

\* particle_energy is created and never filled.
ParticleHistograms == {"de_thickness", "particle_energy", "excitation", "gam_part_time", "exgam",
                       "exgam_bg", "exgam_full", "gamgam", "sum_ex_gam", "part_gamgam"}

\* A telescope with one dE and one E hit is where the plugin begins; what the
\* trigger is it does not ask.
IsParticleEvent(event, entries) ==
    /\ Len(GetTrapDE(entries, trapID(event))) = 1
    /\ Len(GetTrapE(entries, trapID(event))) = 1

\* Seeded fault: the sum is of all the gammas of the event.
CascadeOfAll(coincident, labr, Ex) == Around(75, 275, Ex - Sum(labr))

\* Whether the coincident gammas take away all of the excitation energy.
Cascade(coincident, labr, Ex) == -200 < Ex - Sum(coincident) /\ Ex - Sum(coincident) < 350

ParticlePoints(event, entries) ==
    LET ring == ringID(event)
        Ex == CalculateEx(etot(event, entries), ring)
        labr == GetDetector(entries, "labr")
        t(h) == Time(h, event.trigger)
        prompt4(h) == Around(0, 4, t(h))
        coincident == SelectSeq(labr, prompt4)
        \* 58.5 ns, in integers
        late == SelectSeq(labr, LAMBDA h : ~prompt4(h) /\ 54 < t(h) /\ t(h) <= 62)
        matrix(seq) == Map(seq, LAMBDA h : <<h.energy, Ex>>)
        energies == {coincident[n].energy : n \in DOMAIN coincident}
        Otherwise(points, condition) == IF condition THEN points ELSE << >>
    IN  [de_thickness  |-> << <<thick(event, entries), ring>> >>,
         excitation    |-> << <<Ex, ring>> >>,
         gam_part_time |-> Map(labr, LAMBDA h : <<t(h)>>),
         exgam         |-> matrix(coincident),
         exgam_bg      |-> matrix(late),
         gamgam        |-> Otherwise(<< <<Min(energies), Max(energies)>> >>,
                                     Len(coincident) = 2 /\ 4650 < Ex /\ Ex < 4950),
         sum_ex_gam    |-> << <<Ex - Sum(coincident)>> >>,
         exgam_full    |-> Otherwise(matrix(coincident), Cascade(coincident, labr, Ex)),
         part_gamgam   |-> Otherwise(
             Map(SelectSeq(coincident, LAMBDA h : ~Peak2214(h) /\ ~Peak1345(h)),
                 LAMBDA h : <<h.energy>>),
             /\ Len(coincident) >= 3 /\ 4500 < Ex /\ Ex < 5000
             /\ \E n \in DOMAIN coincident : Peak2214(coincident[n])
             /\ \E n \in DOMAIN coincident : Peak1345(coincident[n]))]

\* FillEvent, of an event with a trigger
ParticleFill(event, entries) ==
    IF IsParticleEvent(event, entries) THEN ParticlePoints(event, entries) ELSE << >>
=============================================================================
