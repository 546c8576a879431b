------------------------------ MODULE Trigger ------------------------------
(***************************************************************************)
(* Task::Trigger (src/Tasks/Trigger.cpp): builds events from clusters of   *)
(* hits.  A hit is a record with a type, a detectorID and a time t, its    *)
(* timestamp and CFD correction together; an event is the hits it holds    *)
(* and the index of the trigger among them, counted from zero, or -1.      *)
(***************************************************************************)
EXTENDS TaskInput, TaskOutput, FiniteSetsExt, SequencesExt

CONSTANTS CoincidenceTime,  \* the option --coincidenceTime, in ns
          DeadTime,         \* the 500 ns of GetTriggersExclusive
          SortTypes,        \* the values of --sortType
          Triggers          \* the values of --Trigger

ASSUME TimesAssumption == CoincidenceTime \in Nat /\ DeadTime \in Nat
ASSUME SortTypesAssumption == SortTypes \subseteq {"coincidence", "time", "gap"}

VARIABLES sort_type, trigger   \* the members set by the constructor

options == <<sort_type, trigger>>

Init == /\ TaskInit /\ OutputInit /\ input = << >>
        /\ sort_type \in SortTypes
        /\ trigger \in Triggers
-----------------------------------------------------------------------------
(***************************************************************************)
(* The events of one cluster, a sequence of hits.                          *)
(***************************************************************************)
\* GetTriggers: the positions of the hits of the trigger's type
GetTriggers(cluster) ==
    FoldLeftDomain(LAMBDA triggers, i :
                       IF cluster[i].type = trigger THEN Append(triggers, i) ELSE triggers,
                   << >>, cluster)

\* Seeded fault: the dead time is counted from the last hit of the type.
GetTriggersRetriggered(cluster) ==
    LET all == GetTriggers(cluster) IN
    SelectSeq(all, LAMBDA i : \A j \in ToSet(all) :
                                  j < i => cluster[i].t - cluster[j].t > DeadTime)

\* Those of them more than 500 ns after the last one accepted
GetTriggersExclusive(cluster) ==
    FoldLeft(LAMBDA accepted, i :
                 IF accepted = << >> \/ cluster[i].t - cluster[Last(accepted)].t > DeadTime
                   THEN Append(accepted, i) ELSE accepted,
             << >>, GetTriggers(cluster))

Near(a, b) == a.t - b.t \in -CoincidenceTime .. CoincidenceTime

\* Seeded fault: the index is the trigger's position in the cluster.
WindowFromCluster(cluster, trig) ==
    LET first == Min({i \in 1 .. trig :
                          \A j \in i .. trig : Near(cluster[j], cluster[trig])})
        last == Max({i \in trig .. Len(cluster) :
                         \A j \in trig .. i : Near(cluster[j], cluster[trig])})
    IN  [hits |-> SubSeq(cluster, first, last), index |-> trig - 1]

\* Seeded fault: the window is searched behind the trigger only.
WindowForward(cluster, trig) ==
    LET last == Max({i \in trig .. Len(cluster) :
                         \A j \in trig .. i : Near(cluster[j], cluster[trig])})
    IN  [hits |-> SubSeq(cluster, trig, last), index |-> 0]

\* From the trigger in both directions, up to the first hit that is not near.
Window(cluster, trig) ==
    LET first == Min({i \in 1 .. trig :
                          \A j \in i .. trig : Near(cluster[j], cluster[trig])})
        last == Max({i \in trig .. Len(cluster) :
                         \A j \in trig .. i : Near(cluster[j], cluster[trig])})
    IN  [hits |-> SubSeq(cluster, first, last), index |-> trig - first]

GapEvents(cluster) ==
    IF trigger = "any" \/ \E i \in DOMAIN cluster : cluster[i].type = trigger
      THEN <<[hits |-> cluster, index |-> -1]>> ELSE << >>

\* A time run is interested in detector 0 alone.
ChosenTriggers(cluster) ==
    IF sort_type = "time"
      THEN FoldLeft(LAMBDA chosen, i :
                        IF cluster[i].detectorID = 0 THEN Append(chosen, i) ELSE chosen,
                    << >>, GetTriggers(cluster))
      ELSE GetTriggersExclusive(cluster)

Events(cluster) ==
    IF sort_type = "gap"
      THEN GapEvents(cluster)
      ELSE LET trigs == ChosenTriggers(cluster)
           IN  [n \in DOMAIN trigs |-> Window(cluster, trigs[n])]
-----------------------------------------------------------------------------
Pop == /\ PopNext
       /\ pending' = Events(NextItem)
       /\ pc' = "push"
       /\ UNCHANGED <<output, taken, options>>

Run == \/ Test /\ UNCHANGED <<pending, output, taken, options>>
       \/ Pop
       \/ TimedOut /\ UNCHANGED <<pending, output, taken, options>>
       \/ Push /\ UNCHANGED <<input, options>>
       \/ Handled /\ UNCHANGED <<input, options>>
       \/ Exit /\ UNCHANGED <<input, options>>

-----------------------------------------------------------------------------
(***************************************************************************)
(* Properties                                                              *)
(***************************************************************************)
Built == output \o pending

\* The hit an event points at is one that may trigger, and no event of a gap
\* run points at one.
IndexPointsAtTrigger ==
    \A n \in DOMAIN Built :
        LET event == Built[n] IN
        IF sort_type = "gap" THEN event.index = -1
        ELSE /\ event.index + 1 \in DOMAIN event.hits
             /\ event.hits[event.index + 1].type = trigger
             /\ sort_type = "time" => event.hits[event.index + 1].detectorID = 0

IsOrdered(cluster) == \A i, j \in DOMAIN cluster : i < j => cluster[i].t <= cluster[j].t
AllOrdered == \A k \in 1 .. entries_processed : IsOrdered(input[k])

\* When the clusters are ordered in time, an event holds exactly the hits of its
\* cluster within the coincidence time of its trigger: stopping at the first hit
\* out of reach skips none behind it.
EventHoldsTheCoincidentHits ==
    sort_type # "gap" /\ AllOrdered =>
        \A n \in DOMAIN Built :
            LET event == Built[n]
                trig == event.hits[event.index + 1]
            IN \E k \in 1 .. entries_processed :
                   /\ trig \in ToSet(input[k])
                   /\ ToSet(event.hits) = {h \in ToSet(input[k]) : Near(h, trig)}

\* In ordered clusters the dead time is counted from the last trigger that has an event:
\* a hit of the trigger's type is at most 500 ns behind such a trigger of its cluster, or
\* is one, so that no chain of such hits keeps the dead time going.
DeadTimeIsNotExtended ==
    sort_type = "coincidence" /\ AllOrdered =>
        \A k \in 1 .. entries_processed : \A h \in ToSet(input[k]) :
            h.type = trigger =>
                \E n \in DOMAIN Built :
                    LET trig == Built[n].hits[Built[n].index + 1] IN
                    /\ trig \in ToSet(input[k])
                    /\ h.t - trig.t \in 0 .. DeadTime

\* usage.md:106: "For each trigger hit, create an event with all hits within
\* `coincidenceTime` of that trigger."
OneEventPerTrigger ==
    sort_type = "coincidence" /\ AllOrdered =>
        \A k \in 1 .. entries_processed : \A h \in ToSet(input[k]) :
            h.type = trigger =>
                \E n \in DOMAIN Built :
                    /\ Built[n].hits[Built[n].index + 1] = h
                    /\ {g \in ToSet(input[k]) : Near(g, h)} \subseteq ToSet(Built[n].hits)
=============================================================================
