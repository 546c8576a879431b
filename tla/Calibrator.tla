----------------------------- MODULE Calibrator -----------------------------
(***************************************************************************)
(* Task::Calibrator (src/Tasks/Calibrator.cpp): drops the records of       *)
(* channels that are not in use, as DetectorTable says, and turns the      *)
(* others into hits with a calibrated time.                                *)
(***************************************************************************)
EXTENDS TaskInput, TaskOutput, SequencesExt

CONSTANTS raw, Entries, TimeWord   \* as in DetectorTable

VARIABLES dinfo,      \* the entries the configuration has written into the table
          crashed     \* an exception has left Run(): std::terminate()

INSTANCE DetectorTable

Init == TaskInit /\ OutputInit /\ input = << >> /\ crashed = FALSE
-----------------------------------------------------------------------------
\* keep() and, for a record to keep, the conversion; a record of an unknown
\* channel gets no further than keep()
Pop == /\ PopNext
       /\ pending' = IF keep(NextItem) THEN <<Calibrated(NextItem)>> ELSE << >>
       /\ pc' = "push"
       /\ UNCHANGED <<output, taken, crashed>>

InHand == input[entries_processed]

\* Nothing catches what dinfo.at() throws.
Throw == /\ pc = "push" /\ ~Known(InHand)
         /\ crashed' = TRUE
         /\ UNCHANGED <<pc, done, entries_processed, input, pending, output, taken>>

Run == /\ ~crashed
       /\ \/ Test /\ UNCHANGED <<pending, output, taken, crashed>>
          \/ Pop
          \/ TimedOut /\ UNCHANGED <<pending, output, taken, crashed>>
          \/ Push /\ UNCHANGED <<input, crashed>>
          \/ Handled /\ Known(InHand) /\ UNCHANGED <<input, crashed>>
          \/ Throw
          \/ Exit /\ UNCHANGED <<input, crashed>>

-----------------------------------------------------------------------------
(***************************************************************************)
(* Properties                                                              *)
(***************************************************************************)
Hits == output \o pending

TypeOK == /\ TaskTypeOK
          /\ crashed \in BOOLEAN
          /\ taken \in 0 .. Len(output)
          /\ Len(pending) <= 1

\* The configuration names the channel of a record, as one that is in use.
InUse(xia) == /\ index(raw[xia]) \in DOMAIN dinfo
              /\ dinfo[index(raw[xia])].type \notin {"invalid", "eGuard", "unused"}

\* The hits are made of the records of the channels in use, each record once and
\* in the order of arrival, whatever the queues and the shutdown do; channels
\* that are absent from the table never come that far.  The sums and the trace of a
\* hit lie inside of its record, whatever the length of the header.
HitsOfTheKeptRecords ==
    /\ [n \in DOMAIN Hits |-> Hits[n].from]
           = FoldLeft(LAMBDA kept, xia : IF InUse(xia) THEN Append(kept, xia) ELSE kept,
                      << >>, Popped)
    /\ \A n \in DOMAIN Hits :
           LET xia == raw[Hits[n].from]
           IN  /\ Hits[n].qdc \subseteq 5 .. xia.headerLen
               /\ Hits[n].trace \subseteq 2 * xia.headerLen + 1 .. 2 * xia.eventLen

\* Pulses at the same time in modules with different clocks are hits with the
\* same time, so that the tasks behind may compare them, and a hit without a valid
\* CFD is less than a clock tick off: ns is the true time of the pulse, of which
\* the module has recorded the tick and the fraction, as XIA_CFD.h:37 and 49 say.  Of the
\* fraction of the modules of 500 MHz line 61 says something else than the code does, and
\* neither is taken for the truth here.
OneTimeAxis ==
    \A n \in DOMAIN Hits :
        LET detector == Detector(Hits[n].from)
            off == Hits[n].t - (raw[Hits[n].from].ns + detector.timestamp_shift) * Ns
                             - detector.cfd_shift
        IN  IF Hits[n].cfdfail THEN off \in -10 * Ns .. 10 * Ns
                               ELSE detector.sfreq # "f500MHz" => off = 0
=============================================================================
