------------------------ MODULE TimingInvestigation ------------------------
(***************************************************************************)
(* The plugin TimingInvestigation.cpp: what an indexed event adds to its   *)
(* histograms.  An event with more or less than one dE hit adds nothing,   *)
(* so the branches for two dE hits of a telescope, and for dE hits of      *)
(* another one, are never taken, and their histograms stay empty.          *)
(***************************************************************************)
EXTENDS HistManager

CONSTANTS a0, a1, a2   \* the coefficients of the plugin for each ring

CalcEx(E, ring) == a0[ring] + a1[ring] * E + a2[ring] * E * E

Ring(h) == h.detectorID % NUM_SI_DE_TEL
SelectHits(entries, type, Fits(_)) == SelectSeq(GetDetector(entries, type), Fits)
FillIf(condition, points) == IF condition THEN points ELSE << >>

TimingHistograms ==
    {"de_time_energy", "e_time_energy", "ede_energy", "ex_energy", "ex_eg_matrix", "gamgam_labr",
     "time_energy_labr_hoyle", "time_time", "gamgam_time", "gamgam_satelite", "gamgam_prompt",
     "gamgam_prompt_satelite", "range", "de_mult"}

\* The energetic gammas of an event with a dE hit below the elastic peak, in the order
\* of time.
Energetic(entries, de) ==
    LET labr == SortSeq(GetDetector(entries, "labr"), LAMBDA g, h : Time(h, g) > 0)
        high == SelectSeq(labr, LAMBDA h : h.energy >= 2000)
        pairs == {p \in (DOMAIN high) \X (DOMAIN high) : p[1] < p[2]}
        accepted == 1150 < de.energy /\ de.energy < 1455 /\ ~de.cfdfail /\ Ring(de) < 7
    IN  [gamgam_labr |-> FillIf(accepted, Map(high, LAMBDA h : <<Time(h, de), h.detectorID>>)),
         time_time   |-> FillIf(accepted, Map(SetToSeq(pairs), LAMBDA p :
                             <<Time(high[p[1]], de), Time(high[p[2]], de)>>))]

\* The E hits in coincidence with the dE hit, and with each of them every gamma.
Hoyle(Ex) == 7500 < Ex /\ Ex < 7900
Particles(entries, de) ==
    LET telescope == SelectHits(entries, "eDet",
                         LAMBDA e : ~e.cfdfail /\ ~de.cfdfail /\ Telescope(de) = e.detectorID)
        true == SelectSeq(telescope, LAMBDA e : -41 < Time(e, de) /\ Time(e, de) < 100)
        Etot(e) == e.energy + de.energy
        Ex(e) == CalcEx(Etot(e), Ring(de))
        gammas(e, Fits(_)) == SelectHits(entries, "labr", LAMBDA h : Ring(de) < 5 /\ Fits(h))
        Each(Points(_)) == FlattenSeq(Map(true, Points))
    IN  [e_time_energy |-> Map(telescope, LAMBDA e : <<e.detectorID, e.energy, Time(e, de)>>),
         de_mult       |-> Map(true, LAMBDA e : <<1>>),
         time_energy_labr_hoyle |-> Each(LAMBDA e :
             Map(gammas(e, LAMBDA h : h.detectorID = 16 /\ Hoyle(Ex(e))),
                 LAMBDA h : <<h.energy, Time(h, de)>>)),
         ex_eg_matrix  |-> Each(LAMBDA e :
             Map(gammas(e, LAMBDA h : -3 < Time(h, de) /\ Time(h, de) < 3),
                 LAMBDA h : <<h.energy, Ex(e)>>)),
         \* filled in the loop over the gammas, so once for each of them
         ex_energy     |-> Each(LAMBDA e : Map(GetDetector(entries, "labr"),
                                               LAMBDA h : <<Ex(e), Ring(de)>>)),
         ede_energy    |-> Each(LAMBDA e : Map(GetDetector(entries, "labr"),
                                               LAMBDA h : <<Etot(e), Ring(de)>>))]

\* Seeded fault: the second gamma is timed against the first.
TripleOfFirst(g16, g26, de) ==
    << <<Time(g16, de), 0>>, <<Time(g26, g16), 1>>, <<Time(g26, g16), 2>> >>

\* The times of two gammas against the dE hit, and against each other.
Triple(g16, g26, de) ==
    << <<Time(g16, de), 0>>, <<Time(g26, de), 1>>, <<Time(g26, g16), 2>> >>

\* Detectors 16 and 26, which have seen the two gammas of the Hoyle state.
Coincidences(entries, de) ==
    LET labr16 == SelectHits(entries, "labr", LAMBDA h : h.detectorID = 16 /\ ~h.cfdfail)
        labr26 == SelectHits(entries, "labr", LAMBDA h : h.detectorID = 26 /\ ~h.cfdfail)
        pairs == FlattenSeq(Map(labr16, LAMBDA g : Map(labr26, LAMBDA h : <<g, h>>)))
        Each(Points(_)) == FlattenSeq(Map(pairs, Points))
        triples(Fits(_)) == Each(LAMBDA p : FillIf(~de.cfdfail /\ Fits(p), Triple(p[1], p[2], de)))
        t16(p) == Time(p[1], de)
        tgamma(p) == Time(p[2], p[1])
    IN  [gamgam_time     |-> Each(LAMBDA p : IF de.cfdfail THEN << <<tgamma(p), 2>> >>
                                                           ELSE Triple(p[1], p[2], de)),
         gamgam_satelite |-> triples(LAMBDA p : -20 < t16(p) /\ t16(p) < -10),
         gamgam_prompt   |-> triples(LAMBDA p : -3 < tgamma(p) /\ tgamma(p) < 3),
         gamgam_prompt_satelite |-> triples(LAMBDA p : -3 < t16(p) /\ t16(p) < 3)]

\* One dE and one E hit of a telescope; pr is the range the plugin reads from a path
\* of its own, which may not be there.
Identified(entries, de, e, pr) ==
    LET thickness == Ranges!GetRange(pr, de.energy + e.energy) - Ranges!GetRange(pr, e.energy)
        good == ~e.cfdfail /\ ~de.cfdfail
        in == 115 <= thickness /\ thickness <= 145
    IN  [range |-> << <<thickness>> >>,
         de_time_energy |-> FillIf(in /\ good, << <<Ring(de), de.energy, Time(de, e)>> >>)]
            @@ IF in /\ (good => Time(de, e) \in -270 .. 110) THEN Coincidences(entries, de)
                                                             ELSE << >>

\* FillEvent
TimingFill(entries, pr) ==
    LET deEvts == GetDetector(entries, "deDet")
        eEvts == GetDetector(entries, "eDet")
        de == deEvts[1]
    IN  IF Len(deEvts) # 1 THEN << >>
        ELSE Energetic(entries, de) @@ Particles(entries, de)
                @@ IF Len(eEvts) = 1 /\ Telescope(de) = eEvts[1].detectorID
                     THEN Identified(entries, de, eEvts[1], pr) ELSE << >>
=============================================================================
