---------------------------- MODULE TTreeManager ----------------------------
(***************************************************************************)
(* TTreeManager (include/RootInterface/TTreeManager.h,                     *)
(* src/RootInterface/TTreeManager.cpp): the members the branches of the    *)
(* tree point at, filled with an event and then written as a row.  They    *)
(* live as long as the sort, so a row may show what an earlier event left. *)
(*                                                                         *)
(* A sample of a trace is a pair of bytes, low and high, as it lies in     *)
(* memory.  The traces of a type are rows of MAX_ENTRIES samples in one    *)
(* piece of memory, while the branch takes rows of TRACE_MAX_LENGTH.       *)
(***************************************************************************)
EXTENDS TriggeredEvent, FiniteSetsExt

CONSTANTS NoTrigger,
          MAX_ENTRIES,       \* 128
          TRACE_MAX_LENGTH,  \* 8192, half of the square of MAX_ENTRIES
          Garbage            \* a byte nobody has written

\* The types that have branches, the cases of GetDet
TreeTypes == {"labr", "deDet", "eDet", "ppac", "qint", "oscarF", "oscarB"}

Sample == <<Garbage, Garbage>>
Zero == <<0, 0>>
NoColumns == [ID |-> 0, timestamp |-> 0, energy |-> 0, cfdfail |-> FALSE, cfdcorr |-> 0]
NewBranch == [mult |-> 0,
              columns |-> [i \in 0 .. MAX_ENTRIES - 1 |-> NoColumns],
              time |-> [i \in 0 .. MAX_ENTRIES - 1 |-> Garbage],
              trace_entries |-> [i \in 0 .. MAX_ENTRIES - 1 |-> 0],
              trace |-> [c \in 0 .. MAX_ENTRIES * MAX_ENTRIES - 1 |-> Sample]]
NewTrigger == [columns |-> NoColumns, trace |-> [b \in 1 .. 2 * TRACE_MAX_LENGTH |-> Garbage]]
-----------------------------------------------------------------------------
\* TriggerEntry::Fill.  The arguments of memccpy are swapped: it is told to stop
\* behind a byte that is zero, at the latest after as many bytes as the trace has
\* samples.
Bytes(trace) == FlattenSeq(trace)
Copied(trace) ==
    LET n == Len(trace)
        zeros == {b \in 1 .. n : Bytes(trace)[b] = 0}
    IN  SubSeq(Bytes(trace), 1, Min({n} \cup zeros))

Columns(h) == [ID |-> h.detectorID, timestamp |-> h.timestamp, energy |-> h.energy,
               cfdfail |-> h.cfdfail, cfdcorr |-> h.cfdcorr]

HasTrace(h) == Len(h.trace) \in 1 .. TRACE_MAX_LENGTH

FillTrigger(member, trigger) ==
    IF trigger = NoTrigger THEN member
    ELSE [columns |-> Columns(trigger),
          trace |-> IF HasTrace(trigger)
                      THEN [b \in DOMAIN member.trace |->
                               IF b \in DOMAIN Copied(trigger.trace)
                                 THEN Copied(trigger.trace)[b] ELSE member.trace[b]]
                      ELSE [b \in DOMAIN member.trace |-> 0]]

\* memcpy or memset from the first sample of a row on
WriteTrace(memory, row, h) ==
    [c \in DOMAIN memory |->
        LET s == c - row * MAX_ENTRIES + 1 IN
        IF HasTrace(h) /\ s \in DOMAIN h.trace THEN h.trace[s]
        ELSE IF ~HasTrace(h) /\ s \in 1 .. TRACE_MAX_LENGTH THEN Zero
        ELSE memory[c]]

\* One turn of the loop of DetectorEntries::Fill
FillHit(branch, h, trigger) ==
    [mult |-> branch.mult + 1,
     columns |-> [branch.columns EXCEPT ![branch.mult] = Columns(h)],
     time |-> [branch.time EXCEPT ![branch.mult] =
         IF trigger = NoTrigger THEN 0
         ELSE (h.timestamp - trigger.timestamp) + (h.cfdcorr - trigger.cfdcorr)],
     trace_entries |-> [branch.trace_entries EXCEPT ![branch.mult] = Len(h.trace)],
     trace |-> WriteTrace(branch.trace, branch.mult, h)]

\* Seeded fault: neither reset() nor Fill sets mult to zero.
FillDetectorOn(branch, hits, trigger) ==
    FoldLeft(LAMBDA b, h : FillHit(b, h, trigger), branch, hits)

\* DetectorEntries::Fill
FillDetector(branch, hits, trigger) ==
    FoldLeft(LAMBDA b, h : FillHit(b, h, trigger), [branch EXCEPT !.mult = 0], hits)

\* What tree->Fill() takes for the i-th hit: no branch points at time, and rows of TRACE_MAX_LENGTH from the
\* beginning of the memory, and what lies behind it.
RowTrace(branch, i) ==
    [s \in 1 .. branch.trace_entries[i] |->
        LET c == i * TRACE_MAX_LENGTH + s - 1
        IN  IF c \in DOMAIN branch.trace THEN branch.trace[c] ELSE Sample]

DetectorRow(branch) ==
    [i \in 1 .. branch.mult |->
        [columns |-> branch.columns[i - 1], trace |-> RowTrace(branch, i - 1)]]
-----------------------------------------------------------------------------
(***************************************************************************)
(* Properties, of the row written for an event                             *)
(***************************************************************************)
\* A row has the trigger and the hits of its own event and no others, whatever the
\* events before it left in the members.
OfType(event, type) == SelectSeq(event.hits, LAMBDA h : h.type = type)

RowIsTheEvent(row, event) ==
    /\ event.trigger # NoTrigger => row.trigger.columns = Columns(event.trigger)
    /\ \A type \in TreeTypes :
           LET written == row.hits[type] IN
           ToBag([i \in DOMAIN written |-> written[i].columns])
               = ToBag([i \in DOMAIN OfType(event, type) |->
                           Columns(OfType(event, type)[i])])

\* Each trace is in the row, with the hit it belongs to.
RowHasTheTraces(row, event) ==
    \A type \in TreeTypes :
        LET written == row.hits[type] IN
        ToBag([i \in DOMAIN written |-> <<written[i].columns.ID, written[i].trace>>])
            = ToBag([i \in DOMAIN OfType(event, type) |->
                        <<OfType(event, type)[i].detectorID, OfType(event, type)[i].trace>>])
=============================================================================
