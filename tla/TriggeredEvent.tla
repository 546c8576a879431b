--------------------------- MODULE TriggeredEvent ---------------------------
(***************************************************************************)
(* Triggered_event (include/Format/event.h, src/Format/event.cpp): the     *)
(* hits of an event, sorted by type and by number within a type, so that   *)
(* the hits of a type, of a ring or of a telescope are ranges of them.     *)
(* std::sort promises nothing about the order of equals, so an event may   *)
(* be indexed in more than one way.                                        *)
(***************************************************************************)
EXTENDS Integers, SequencesExt

CONSTANT NUM_SI_DE_TEL   \* the dE detectors of a telescope, 8 in DetectorTypes.h

ASSUME TelescopeAssumption == NUM_SI_DE_TEL \in Nat \ {0}

\* The types a hit can have: the values of DetectorType that ConfigManager::keep
\* lets through, in the order of the enumeration.
Rank == [labr |-> 1, deDet |-> 2, eDet |-> 3, ppac |-> 5, rfchan |-> 6, qint |-> 7,
         oscarF |-> 8, oscarB |-> 9, any |-> 10]

\* Seeded fault: the hits of a type are left in any order.
BeforeByType(a, b) == Rank[a.type] < Rank[b.type]

\* The order index() leaves behind: the two sorts together.
Before(a, b) == \/ Rank[a.type] < Rank[b.type]
                \/ a.type = b.type /\ a.detectorID < b.detectorID

\* index(): the ways the hits may end up in the vector
Indexed(hits) ==
    {[i \in DOMAIN hits |-> hits[order[i]]] :
        order \in {o \in SetToSeqs(DOMAIN hits) :
                      \A i, j \in DOMAIN o : i < j => ~Before(hits[o[j]], hits[o[i]])}}

\* std::find_if over entries[from] .. entries[to], with to + 1 for the end
FindIf(entries, from, to, Test(_)) ==
    LET found == SelectInSubSeq(entries, from, to, Test)
    IN  IF found = 0 THEN to + 1 ELSE found

\* The range from the first hit that fits up to the first hit after it that ends it.
RangeOf(entries, Fits(_), Ends(_)) ==
    LET begin == FindIf(entries, 1, Len(entries), Fits)
        end == FindIf(entries, begin, Len(entries), Ends)
    IN  SubSeq(entries, begin, end - 1)

GetDetector(entries, type) ==
    RangeOf(entries, LAMBDA h : h.type = type, LAMBDA h : h.type # type)

Telescope(h) == h.detectorID \div NUM_SI_DE_TEL

GetRing(entries, ringNo) ==
    RangeOf(GetDetector(entries, "deDet"),
            LAMBDA h : Telescope(h) = ringNo, LAMBDA h : Telescope(h) > ringNo)

\* GetTrap: the dE and the E hits of a telescope
GetTrapDE(entries, trapNo) == GetRing(entries, trapNo)
GetTrapE(entries, trapNo) ==
    RangeOf(GetDetector(entries, "eDet"),
            LAMBDA h : h.detectorID = trapNo, LAMBDA h : h.detectorID > trapNo)
-----------------------------------------------------------------------------
(***************************************************************************)
(* Properties, of one way of indexing the hits of an event                 *)
(***************************************************************************)
Chosen(hits, Fits(_)) == ToBag(SelectSeq(hits, Fits))

\* The ranges have all the hits of their type or telescope and nothing else, so
\* that an empty one does not reach into the next.
CompleteRanges(hits, entries) ==
    /\ \A type \in DOMAIN Rank :
           ToBag(GetDetector(entries, type)) = Chosen(hits, LAMBDA h : h.type = type)
    /\ \A trap \in 0 .. NUM_SI_DE_TEL - 1 :
           /\ ToBag(GetTrapDE(entries, trap))
                  = Chosen(hits, LAMBDA h : h.type = "deDet" /\ Telescope(h) = trap)
           /\ ToBag(GetTrapE(entries, trap))
                  = Chosen(hits, LAMBDA h : h.type = "eDet" /\ h.detectorID = trap)
=============================================================================
