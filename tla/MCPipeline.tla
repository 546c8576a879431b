----------------------------- MODULE MCPipeline -----------------------------
(***************************************************************************)
(* An instance of Pipeline for TLC: more records than a queue holds, in    *)
(* order of time or not, with more than one cluster.                       *)
(***************************************************************************)
EXTENDS Pipeline

Detector(type, id) ==
    [type |-> type, detectorID |-> id, sfreq |-> "f100MHz", timestamp_shift |-> 0, cfd_shift |-> 0]
MCdinfo == <<Detector("deDet", 0), Detector("qint", 0)>>

\* A record of a channel, with its time stamp in ticks of 10 ns.  Channels 1 and 2
\* are in use, 3 is not, and 4 is of a crate the table has no room for.
Record(channel, ticks) ==
    [eventLen |-> 4, headerLen |-> 4, traceLen |-> 0,
     crateID |-> IF channel = 4 THEN 2 ELSE 0, slotID |-> 0, chanID |-> channel,
     event_time_high |-> ticks \div 32, event_time_low |-> ticks % 32, cfd_result |-> 0]
File(records) == [records |-> records, size |-> 4 * Len(records)]

MCFiles ==
    [ \* A cluster with two events whose windows do not overlap, and a hit that closes it.
      ordered |-> File(<<Record(1, 0), Record(2, 1), Record(1, 15), Record(1, 40)>>),
      \* The second record is cut off.
      cutOff |-> [records |-> <<Record(1, 0), Record(2, 2)>>, size |-> 7],
      \* After cutOff: the second record is of a channel not in use, the third comes late
      \* and has its trigger in cutOff, and the last one is of a channel that the table
      \* does not have.
      late |-> File(<<Record(2, 50), Record(3, 20), Record(2, 1), Record(4, 61)>>)]
MCInputs == {<<"ordered">>, <<"cutOff", "late">>}
=============================================================================
