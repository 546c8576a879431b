------------------------------ MODULE UserSort ------------------------------
(***************************************************************************)
(* UserSortManager and DynamicLibrary (src/UserSort): the plugin that is   *)
(* loaded with --userSort, and the histograms it fills from the events     *)
(* that HistManager::AddEntry hands to it before anything else.            *)
(***************************************************************************)
EXTENDS HistManager

CONSTANTS Garbage,        \* as in Co60_coincidence_sort
          coefficients,   \* those of each of the two plugins that have some
          Libraries,      \* what --userSort may name
          Tables          \* bound: the range files, for each plugin

VARIABLES object,         \* UserSortManager::object
          histograms,     \* those of the plugin
          last,           \* Co60CoincidenceSort: last_ts and last_cfd
          pr,             \* TimingInvestigation::pr
          crashed,        \* whether the null pointer was followed
          events          \* the events it has returned from

userSortVars == <<object, histograms, last, pr, crashed, events>>

ParticleCoincidence == INSTANCE ParticleCoincidenceSort WITH
    a0 <- coefficients.ParticleCoincidence.a0, a1 <- coefficients.ParticleCoincidence.a1,
    a2 <- coefficients.ParticleCoincidence.a2
Co60 == INSTANCE Co60_coincidence_sort
Timing == INSTANCE TimingInvestigation WITH
    a0 <- coefficients.TimingInvestigation.a0, a1 <- coefficients.TimingInvestigation.a1,
    a2 <- coefficients.TimingInvestigation.a2

\* The histograms each plugin creates when it is constructed.
Created == [ParticleCoincidence |-> ParticleCoincidence!ParticleHistograms,
            Co60CoincidenceSort |-> Co60!Co60Histograms,
            TimingInvestigation |-> Timing!TimingHistograms]

nullptr == "nullptr"

\* GetObject: a library that is not named, is not there or lacks NewUserSort gives
\* no plugin, and the sort goes on without one.
GetObject(library) == IF library \in DOMAIN Created THEN library ELSE nullptr

UserSortInit ==
    /\ \E library \in Libraries : object = GetObject(library)
    /\ histograms = IF object = nullptr THEN << >>
                    ELSE [name \in Created[object] |-> EmptyBag]
    /\ last = Garbage
    /\ pr \in IF object = "TimingInvestigation" THEN {Ranges!Read(t) : t \in Tables[object]}
                                                ELSE {<< >>}
    /\ crashed = FALSE /\ events = << >>
-----------------------------------------------------------------------------
Fill(points) ==
    histograms' = [name \in DOMAIN histograms |->
        IF name \in DOMAIN points THEN histograms[name] (+) ToBag(points[name])
                                  ELSE histograms[name]]

NoObject == object = nullptr /\ UNCHANGED <<histograms, last>>

FillParticleCoincidence(event, entries) ==
    /\ object = "ParticleCoincidence"
    /\ Fill(ParticleCoincidence!ParticleFill(event, entries))
    /\ UNCHANGED last

FillCo60(event, entries) ==
    /\ object = "Co60CoincidenceSort"
    /\ Fill(Co60!Co60Fill(last, event, entries))
    /\ last' = Co60!NextLast(entries)

FillTiming(event, entries) ==
    /\ object = "TimingInvestigation"
    /\ Fill(Timing!TimingFill(entries, pr))
    /\ UNCHANGED last

\* ParticleCoincidence follows the trigger without asking whether there is one.
FollowsNull(event) == object = "ParticleCoincidence" /\ event.trigger = NoTrigger
Crash(event) == /\ FollowsNull(event)
                /\ crashed' = TRUE
                /\ UNCHANGED <<object, histograms, last, pr, events>>

\* UserSortManager::FillEvent, of an indexed event
FillEvent(event, entries) ==
    /\ ~FollowsNull(event)
    /\ \/ NoObject
       \/ FillParticleCoincidence(event, entries)
       \/ FillCo60(event, entries)
       \/ FillTiming(event, entries)
    /\ events' = Append(events, event)
    /\ UNCHANGED <<object, pr, crashed>>
-----------------------------------------------------------------------------
(***************************************************************************)
(* Properties                                                              *)
(***************************************************************************)
Times(bag, Fits(_), Value(_)) ==
    FoldSet(LAMBDA p, n : n + bag[p] * Value(p), 0, {p \in DOMAIN bag : Fits(p)})

\* ParticleCoincidenceSort.cpp: the gammas of a cascade are gammas of the coincidence
\* matrix, and carry the excitation energy of the particles they belong to, however
\* many of them were seen: at each energy the sum of their energies is that of
\* a number of the particles there, with the width of the peak for each.
CascadesCarryTheExcitation ==
    object = "ParticleCoincidence" =>
        LET full == histograms["exgam_full"]
            particles(Ex) == Times(histograms["excitation"], LAMBDA p : p[1] = Ex, LAMBDA p : 1)
            total(Ex) == Times(full, LAMBDA p : p[2] = Ex, LAMBDA p : p[1])
        IN  /\ full \sqsubseteq histograms["exgam"]
            /\ \A Ex \in {p[2] : p \in DOMAIN full} :
                   \E n \in 1 .. particles(Ex) :
                       n * (Ex - 350) < total(Ex) /\ total(Ex) < n * (Ex + 200)

\* Co60_coincidence_sort.cpp: the matrix of pairs is symmetric but for the sign of the
\* time, so that its two axes may be exchanged, and has each pair of an event twice.
PairsInBothDirections ==
    object = "Co60CoincidenceSort" =>
        LET pairs == histograms["gamgam3"]
            gammas(event) == Len(SelectSeq(event.hits, LAMBDA h : h.type = "labr"))
        IN  /\ BagOfAll(LAMBDA p : <<p[2], p[1], -p[3]>>, pairs) = pairs
            /\ BagCardinality(pairs)
                   = FoldLeft(LAMBDA n, event : n + gammas(event) * (gammas(event) - 1), 0, events)

\* TimingInvestigation.cpp: the three times filled for a pair of gammas close, the
\* time between the gammas being the difference of their times to the particle, in
\* each of the gates; a gate holds whole triples only, which the spectrum without
\* gates has too.
GatedTriplesClose ==
    object = "TimingInvestigation" =>
        \A gate \in {"gamgam_satelite", "gamgam_prompt", "gamgam_prompt_satelite"} :
            LET bag == histograms[gate]
                count(n) == Times(bag, LAMBDA p : p[2] = n, LAMBDA p : 1)
                total(n) == Times(bag, LAMBDA p : p[2] = n, LAMBDA p : p[1])
            IN  /\ bag \sqsubseteq histograms["gamgam_time"]
                /\ count(0) = count(1) /\ count(1) = count(2)
                /\ total(1) - total(0) = total(2)
=============================================================================
