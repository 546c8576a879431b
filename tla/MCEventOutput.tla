--------------------------- MODULE MCEventOutput ---------------------------
(***************************************************************************)
(* An instance of EventOutput for TLC, without a plugin and with each of   *)
(* those of the repository, with energies in keV and times in ns.          *)
(*                                                                         *)
(* Without one there are dE hits of one detector, of the next in its       *)
(* telescope and of one in the next telescope, two gammas of one detector  *)
(* at different times, and gates that overlap.  A dE hit of 750 and an E   *)
(* hit of 1000 pass the particle gate with the second range file.  There   *)
(* may be no file, or one that begins at the first step or before it.      *)
(*                                                                         *)
(* The plugins compare with energies of their own: a dE hit of 1278 with   *)
(* an E hit of 9500 is a particle that leaves 4800, what the gammas of     *)
(* 2214, 1345 and 1240 carry away; with 6600 it leaves the Hoyle state.    *)
(* The first range file gives both the thickness of the detector.          *)
(***************************************************************************)
EXTENDS EventOutput

MCprompt == [lhs |-> -2, rhs |-> 3]
MCbackground == [lhs |-> 1, rhs |-> 6]
MCparticle_gate == [lhs |-> 10, rhs |-> 20]
MCex_a0 == [ring \in 0 .. 7 |-> 3750 + 250 * ring]
MCex_a1 == [ring \in 0 .. 7 |-> -1]
MCex_a2 == [ring \in 0 .. 7 |-> 0]
Straight == [a0 |-> [ring \in 0 .. 7 |-> 15578], a1 |-> MCex_a1, a2 |-> MCex_a2]
MCcoefficients == [ParticleCoincidence |-> Straight, TimingInvestigation |-> Straight]

Plugins == {"ParticleCoincidence", "Co60CoincidenceSort", "TimingInvestigation"}
MCLibraries == {"none", "missing", "noSymbol"} \cup Plugins

OwnTables ==
    {<< >>,
     << [e |-> 1000, r |-> 6], [e |-> 1750, r |-> 15], [e |-> 2500, r |-> 30] >>,
     << [e |-> 0, r |-> 1], [e |-> 750, r |-> 2], [e |-> 3000, r |-> 32], [e |-> 4250, r |-> 33] >>}
MCTables == [o \in Plugins \cup {nullptr} |->
                IF o = nullptr THEN OwnTables
                               ELSE {<< [e |-> 0, r |-> 0], [e |-> 20000, r |-> 2600] >>, << >>}]

Hit(type, id, timestamp, energy, trace) ==
    [type |-> type, detectorID |-> id, timestamp |-> timestamp, cfdcorr |-> 0,
     energy |-> energy, cfdfail |-> FALSE, trace |-> trace]
Failed(h) == [h EXCEPT !.cfdfail = TRUE]
InTime(hits) == SetToSortSeq(hits, LAMBDA g, h : Time(g, h) < 0)

Short == << <<1, 2>> >>
Long == [s \in 1 .. 5 |-> <<1, 2>>]
Particle0 == Hit("deDet", 0, 0, 750, << >>)
Residue0 == Hit("eDet", 0, 0, 1000, << >>)
Others == {Hit("deDet", 1, 1, 250, << >>), Failed(Hit("deDet", 9, 0, 750, Short)),
           Hit("labr", 0, 2, 250, Short), Hit("labr", 0, 4, 500, Long), Hit("qint", 0, 1, 0, << >>)}
Few == {{h} : h \in Others} \cup {{}}
Many == kSubset(2, Others) \cup Few
OwnHits == {{h} : h \in Others} \cup {{Particle0} \cup s : s \in Few}
               \cup {{Particle0, Residue0} \cup s : s \in Many}

dE == Hit("deDet", 0, 0, 1278, << >>)
E(energy) == Hit("eDet", 0, 1, energy, << >>)
Gamma1 == Hit("labr", 16, 1, 2214, << >>)
Gamma2 == [Hit("labr", 26, 2, 1345, << >>) EXCEPT !.cfdcorr = -1]
Gamma3 == Hit("labr", 3, 0, 1240, << >>)
Satellite == Hit("labr", 16, -15, 2100, << >>)
Late == Hit("labr", 26, 58, 2300, << >>)
Gammas2 == {{Gamma1, Gamma2}, {Gamma1, Late}, {Satellite, Gamma2}, {Gamma1, Gamma2, Gamma3}, {Gamma3}}
PluginHits ==
    {{dE, E(9500)} \cup s : s \in Gammas2} \cup {{dE, E(6600)} \cup s : s \in {{Gamma1, Gamma2}, {}}}
        \cup {{Failed(dE), E(9500), Gamma1, Gamma2}, {dE, Failed(E(9500)), Gamma1, Gamma2},
              {dE, Hit("eDet", 1, 1, 9500, << >>), Gamma1, Late}, {Satellite, Late},
              {dE, Hit("deDet", 9, 2, 1200, << >>), E(9500), Gamma1}}

MCHits == [o \in Plugins \cup {nullptr} |->
              {InTime(hits) : hits \in IF o = nullptr THEN OwnHits ELSE PluginHits}]
=============================================================================
