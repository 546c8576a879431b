----------------------- MODULE Co60_coincidence_sort -----------------------
(***************************************************************************)
(* The plugin Co60_coincidence_sort.cpp: the pairs of gammas of an event,  *)
(* and the dE hits from one to the next.  It remembers the last dE hit of  *)
(* the event before, and nobody before the first.                          *)
(***************************************************************************)
EXTENDS HistManager

CONSTANT Garbage   \* what is read where nothing was written

Co60Histograms == {"gamgam3", "time_labr_fine", "timediff_de"}

\* The dE hits in the order of their numbers, each with the one before; the first
\* with that of the event before, or, when there is none, what lies behind the hits
\* of the event, which is the place of the end of an empty range.
Differences(last, de) ==
    [n \in DOMAIN de |-> IF n > 1 THEN <<de[n].timestamp - de[n - 1].timestamp>>
                         ELSE IF last = Garbage THEN <<Garbage>> ELSE <<Time(de[1], last)>>]
        \o IF de = << >> THEN << <<Garbage>> >> ELSE << >>

\* hits_de[hits_de.size() - 1]: without dE hits the one before the end of the event
NextLast(entries) == LET de == GetDetector(entries, "deDet")
                     IN  IF de = << >> THEN Last(entries) ELSE Last(de)

\* Seeded fault: each pair once, in the order of the numbers.
PairsOnce(labr) == {p \in (DOMAIN labr) \X (DOMAIN labr) : p[1] < p[2]}

Pairs(labr) == {p \in (DOMAIN labr) \X (DOMAIN labr) : p[1] # p[2]}

Co60Fill(last, event, entries) ==
    LET labr == GetDetector(entries, "labr")
        point(p) == <<labr[p[1]].detectorID, labr[p[2]].detectorID, Time(labr[p[2]], labr[p[1]])>>
    IN  [timediff_de    |-> Differences(last, GetDetector(entries, "deDet")),
         time_labr_fine |-> IF event.trigger = NoTrigger THEN << >>
                            ELSE Map(labr, LAMBDA h : <<Time(h, event.trigger), h.detectorID>>),
         gamgam3        |-> Map(SetToSeq(Pairs(labr)), point)]
=============================================================================
