----------------------------- MODULE MCFrontEnd -----------------------------
(***************************************************************************)
(* An instance of RunSort for TLC: files that are whole, cut off in the    *)
(* last record, empty or missing, with pulses of channels 1 to 3, which    *)
(* are in use and have clocks of their own, of channel 4, which is not in  *)
(* use, and of channel 5, of a crate that the table has no room for;       *)
(* configurations that list a channel twice, leave out sections, or name   *)
(* impossible channels, speeds and detectors; and incomplete options.      *)
(***************************************************************************)
EXTENDS RunSort

\* The crate, slot and channel of channels 1 to 5.
Place == << <<0, 2, 3>>, <<1, 0, 0>>, <<1, 0, 1>>, <<0, 15, 15>>, <<2, 0, 0>> >>

\* What a module of the channel records of a pulse: the nearest tick of its time
\* stamps and the distance to it in its samples, of 10 or 4 ns, by the formulas of
\* XIA_CFD.h:37 and 49.  The word of channel 1 is one of those that are not forced.
Clock(channel) == IF channel = 2 THEN 8 ELSE 10
TickOf(channel, ns) == (ns + (IF channel = 2 THEN 4 ELSE 0)) \div Clock(channel)
WordOf(channel, off) ==
    CASE channel = 1 -> (off \div 2 + 1) * 8192 + (off % 2) * 4096
      [] channel = 2 -> IF off < 0 THEN 16384 + (off + 4) * 4096 ELSE off * 4096
      [] OTHER       -> (off * 16384) \div 5
Pulse(channel, ns, headerLen, traceLen) ==
    LET ticks == TickOf(channel, ns)
    IN  [crateID |-> Place[channel][1], slotID |-> Place[channel][2],
         chanID |-> Place[channel][3],
         headerLen |-> headerLen, traceLen |-> traceLen, eventLen |-> headerLen + traceLen \div 2,
         event_time_high |-> ticks \div 8, event_time_low |-> ticks % 8, ns |-> ns,
         cfd_result |-> WordOf(channel, ns - ticks * Clock(channel))]
\* The same with a trigger that was forced.
Forced(record) == [record EXCEPT !.cfd_result = 7 * 8192 + 5]

ListModeFile(records, missing) ==
    [records |-> records, size |-> FoldLeft(LAMBDA n, r : n + r.eventLen, 0, records) - missing]
MCFiles == [empty   |-> ListModeFile(<< >>, 0),
            run     |-> ListModeFile(<<Pulse(1, 45, 4, 0), Pulse(2, 45, 12, 6)>>, 0),
            run_001 |-> ListModeFile(<<Pulse(3, 85, 14, 4), Pulse(2, 83, 6, 6)>>, 1),
            run_002 |-> ListModeFile(<<Pulse(2, 83, 8, 4), Pulse(4, 90, 4, 0), Pulse(1, 95, 18, 2)>>, 2),
            run_003 |-> ListModeFile(<<Forced(Pulse(1, 95, 16, 0)), Pulse(2, 99, 4, 2)>>, 0),
            unknown |-> ListModeFile(<<Forced(Pulse(2, 83, 10, 0)), Pulse(5, 120, 4, 0)>>, 0)]
MCAlphabetical == <<"empty", "missing", "run_001", "run_002", "run_003", "run", "unknown">>
MCRuns == {<<"run", "run_001", "run_002", "run_003">>, <<"run_001", "run_002", "run_003">>}

Listing(channel, speed, type, id) ==
    [crate |-> Place[channel][1], slot |-> Place[channel][2], channel |-> Place[channel][3],
     speed |-> speed, type |-> type, detectorID |-> id]
Good == [setup |-> TRUE,
         listings |-> <<Listing(3, 250, "qint", 0), Listing(1, 500, "labr", 0),
                        Listing(2, 250, "deDet", 1), Listing(3, 100, "eDet", 2)>>,
         calibration |-> [labr |-> <<0>>, deDet |-> <<0, 5 * 16384 + 8192>>,
                          eDet |-> <<0, 0, -(3 * 16384 + 4096)>>, qint |-> <<16384>>],
         analysis |-> [a0 |-> <<TRUE, TRUE>>, a1 |-> <<TRUE, TRUE, TRUE>>, a2 |-> <<TRUE, TRUE>>,
                       excitation |-> FALSE,
                       prompt |-> TRUE, background |-> TRUE, particle_gate |-> TRUE]]
Changed(n, field, value) == [Good EXCEPT !.listings[n] = [@ EXCEPT ![field] = value]]
Analysed(field, value) == [Good EXCEPT !.analysis = [@ EXCEPT ![field] = value]]

MCConfigurations ==
    [good |-> Good,
     noSetup |-> [Good EXCEPT !.setup = FALSE], noCrates |-> [Good EXCEPT !.listings = << >>],
     noType |-> [Good EXCEPT !.calibration = [type \in {"labr", "deDet", "eDet"} |-> @[type]]],
     speed |-> Changed(2, "speed", 200), number |-> Changed(3, "detectorID", 2),
     alias |-> Changed(1, "channel", 16), beyond |-> Changed(1, "crate", 2),
     noList |-> Analysed("a2", Absent), text |-> Analysed("a1", <<TRUE, FALSE>>),
     short |-> Analysed("a1", <<TRUE>>), long |-> Analysed("a0", <<TRUE, TRUE, TRUE, TRUE>>),
     noPrompt |-> Analysed("prompt", FALSE), noGate |-> Analysed("particle_gate", FALSE),
     documented |-> [Good EXCEPT !.analysis = [a \in DOMAIN @ |->
                        IF a \in {"a0", "a1", "a2"} THEN Absent ELSE TRUE]]]

Options(names, given, file) == [input |-> names, output |-> given, CalibrationFile |-> file]
MCCommandLines ==
    {Options(names, TRUE, "good") : names \in {<<f, g>> : f, g \in ToSet(MCAlphabetical)}}
        \cup {Options(names, TRUE, "good") : names \in SetToSeqs({"run", "run_001", "run_002"})
                                                      \cup SetToSeqs({"run_001", "run_002", "run_003"})}
        \cup {Options(<<"run_001">>, TRUE, file) : file \in DOMAIN MCConfigurations \cup {Absent, "none"}}
        \cup {Options(<< >>, TRUE, "good"), Options(<<"run">>, FALSE, "good")}
=============================================================================
