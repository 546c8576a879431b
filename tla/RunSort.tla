------------------------------ MODULE RunSort ------------------------------
(***************************************************************************)
(* main() and RunSort() up to the start of the tasks: the command line     *)
(* (CommandLineInterface.cpp), the configuration file (ConfigManager.cpp)  *)
(* and the mapping of the list mode files (MemoryMap.cpp), each of which   *)
(* may end the program; and the first two tasks as they work on the        *)
(* result.                                                                 *)
(*                                                                         *)
(* Statements of main: "parse" is ParseCLA(), "table" and "parameters" are *)
(* the two readings of the configuration file, "map" is the constructor of *)
(* XIAReader, and "sort" all that comes after it.  At "returned" main has  *)
(* returned 1, and at "terminated" an exception has left it.               *)
(***************************************************************************)
EXTENDS FrontEnd, FiniteSetsExt

CONSTANTS CommandLines,    \* the options: input, a list of names or << >>, output, whether
                           \* it is given, and CalibrationFile, a name or Absent
          Alphabetical,    \* the names of files in the order of std::sort
          Configurations,  \* the configuration files by their names
          Runs,            \* for each run the names of its files, as they were recorded
          Absent, ArraySize, Rings   \* as in ConfigManager

ASSUME RingsAssumption == Rings \in Nat /\ ArraySize \in Nat /\ Rings <= ArraySize

\* The fields of a header that name the channel have four bits each, and the trace
\* is inside of the record.
RecordsOK ==
    \A p \in Pointers :
        LET xia == RecordAt[p]
        IN  /\ {xia.crateID, xia.slotID, xia.chanID} \subseteq 0 .. 15
            /\ {xia.headerLen, xia.traceLen, xia.eventLen} \subseteq Nat
            /\ 2 * xia.headerLen + xia.traceLen <= 2 * xia.eventLen

\* What is read from the configuration file as size_t, and the time shifts.
ConfigurationsOK ==
    \A config \in {Configurations[f] : f \in DOMAIN Configurations} :
        /\ config.listings \in Seq(ToSet(config.listings))
        /\ \A listing \in ToSet(config.listings) :
               {listing.crate, listing.slot, listing.channel} \subseteq Nat
        /\ \A type \in DOMAIN config.calibration :
               ToSet(config.calibration[type]) \subseteq Int

ASSUME RecordsAssumption == RecordsOK
ASSUME ConfigurationsAssumption == ConfigurationsOK

\* The place of a name in the order of std::sort.
Rank(name) == CHOOSE n \in DOMAIN Alphabetical : Alphabetical[n] = name

\* Whether a run begins with a file without a number: run.pixie16, run-001.pixie16 and so
\* on.  A hyphen comes before a period, so that the first is the last in this order.
Unnumbered(run) == \A i \in DOMAIN run \ {1} : Rank(run[i]) < Rank(run[1])

\* All other names of a run are in the order of the recording, and so are all of a run
\* like run1.data run2.data run3.data.
RunsOK ==
    \A run \in Runs :
        /\ run \in Seq(ToSet(Alphabetical))
        /\ \A i, j \in DOMAIN run :
               i < j /\ ~(i = 1 /\ Unnumbered(run)) => Rank(run[i]) < Rank(run[j])

ASSUME AlphabeticalAssumption ==
    Alphabetical \in Seq(ToSet(Alphabetical)) /\ IsInjective(Alphabetical)
ASSUME RunsAssumption == RunsOK
ASSUME CommandLinesAssumption ==
    \A line \in CommandLines :
        line \in [input : Seq(ToSet(Alphabetical)), output : BOOLEAN,
                  CalibrationFile : {line.CalibrationFile}]

VARIABLES main, options,
          parameters       \* the analysis parameters, << >> before

Config == INSTANCE ConfigManager

mainVars == <<main, options, parameters, dinfo>>
vars == <<frontEndVars, mainVars>>

RunSortInit == /\ FrontEndInit
               /\ mapped_files = << >>
               /\ main = "parse" /\ options \in CommandLines
               /\ dinfo = << >> /\ parameters = << >>
-----------------------------------------------------------------------------
\* std::sort
Sorted(names) ==
    LET p == CHOOSE p \in Bijection(DOMAIN names, DOMAIN names) :
                 \A i, j \in DOMAIN names : i < j => Rank(names[p[i]]) <= Rank(names[p[j]])
    IN  [n \in DOMAIN names |-> names[p[n]]]

\* Seeded fault: the first name is rotated to the end.
RotatedLeft(names) == Append(Tail(names), Head(names))

\* std::rotate on the reverse iterators: the last name becomes the first
Rotated(names) == <<Last(names)>> \o Front(names)

\* The required options are checked before the files are put in order.
Complete == options.input # << >> /\ options.output

ParseCLA == /\ main = "parse" /\ Complete
            /\ options' = [options EXCEPT !.input = Rotated(Sorted(@))]
            /\ main' = "table"
            /\ UNCHANGED <<frontEndVars, parameters, dinfo>>

\* ParseCLA() throws, and main() returns 1; so it does when RunSort() returns no file
\* because of the option that it cannot do without.
Refuse == /\ \/ main = "parse" /\ ~Complete
             \/ main = "table" /\ options.CalibrationFile = Absent
          /\ main' = "returned"
          /\ UNCHANGED <<frontEndVars, options, parameters, dinfo>>

Given == options.CalibrationFile \in DOMAIN Configurations
Configuration == Configurations[options.CalibrationFile]

\* ConfigManager::FromFile.  What a write beyond the table does, the code leaves open.
ReadTable == /\ main = "table" /\ Given /\ ~Config!Throws(Configuration)
             /\ dinfo' = Config!Table(Configuration)
             /\ \/ main' = "parameters"
                \/ Config!Beyond(Configuration) /\ main' = "terminated"
             /\ UNCHANGED <<frontEndVars, options, parameters>>

\* UserConfiguration::FromFile
ReadParameters == /\ main = "parameters"
                  /\ parameters' = Config!AnalysisParameters(Configuration)
                  /\ main' = "map"
                  /\ UNCHANGED <<frontEndVars, options, dinfo>>

\* open() fails without the file, mmap() with an empty one.
Mappable(name) == name \in DOMAIN Files /\ Files[name].size > 0
NextName == options.input[Len(mapped_files) + 1]
AllMapped == Len(mapped_files) = Len(options.input)

MapFile == /\ main = "map" /\ ~AllMapped /\ Mappable(NextName)
           /\ mapped_files' = Append(mapped_files, NextName)
           /\ UNCHANGED <<pc, done, entries_processed, pending, fno, pos, output, taken,
                          calibratorOnly, mainVars>>

\* What LoadFile(), ConfigManager and MemoryMap throw nobody catches.
Terminate == /\ \/ /\ main = "table" /\ options.CalibrationFile # Absent
                   /\ Given => Config!Throws(Configuration)
                \/ main = "map" /\ ~AllMapped /\ ~Mappable(NextName)
             /\ main' = "terminated"
             /\ UNCHANGED <<frontEndVars, options, parameters, dinfo>>

\* The tasks and the pool that runs them.
StartTasks == /\ main = "map" /\ AllMapped
              /\ main' = "sort"
              /\ UNCHANGED <<frontEndVars, options, parameters, dinfo>>

Sort == main = "sort" /\ FrontEndNext /\ UNCHANGED mainVars

\* Not a deadlock: both tasks have returned, or the process has ended.
Ended == /\ \/ main \in {"returned", "terminated"}
            \/ calibrator_pc = "exited" \/ crashed
         /\ UNCHANGED vars

Next == \/ ParseCLA \/ Refuse
        \/ ReadTable \/ ReadParameters \/ MapFile \/ Terminate
        \/ StartTasks \/ Sort
        \/ Ended

Spec == RunSortInit /\ [][Next]_vars
-----------------------------------------------------------------------------
(***************************************************************************)
(* Properties, beside those of FrontEnd                                    *)
(***************************************************************************)
\* A hit has the type, the number, the clock and the time shift that the file lists
\* last for the crate, the slot and the channel in the header of its record.
HitsCarryTheirConfiguration ==
    \A n \in DOMAIN Calibrator!Hits :
        LET hit == Calibrator!Hits[n]
            xia == RecordAt[hit.from]
            same(l) == <<l.crate, l.slot, l.channel>> = <<xia.crateID, xia.slotID, xia.chanID>>
            listed == {k \in DOMAIN Configuration.listings : same(Configuration.listings[k])}
            entry == Calibrator!Detector(hit.from)
        IN  (\A k \in DOMAIN Configuration.listings :
                 Configuration.listings[k].slot < 16 /\ Configuration.listings[k].channel < 16) =>
            /\ listed # {}
            /\ LET listing == Configuration.listings[Max(listed)]
               IN  /\ <<hit.type, hit.detectorID>> = <<listing.type, listing.detectorID>>
                   /\ entry.sfreq = Config!Speeds[listing.speed]
                   /\ entry.timestamp_shift * Config!Ns + entry.cfd_shift
                          = Configuration.calibration[listing.type][listing.detectorID + 1]

\* The excitation energy of a ring is never calculated with coefficients of the file
\* and of the fallback together, nor are prompt and background gates of two sources;
\* and a coefficient is uninitialised only where a list of the file is too short.
ParametersOfOneSource ==
    parameters # << >> =>
        /\ \A ring \in 0 .. Rings - 1 :
               LET sources == {parameters.ex[a][ring] : a \in Config!Coefficients}
               IN  /\ sources = {"fallback"} \/ "fallback" \notin sources
                   /\ "uninitialised" \in sources =>
                          \E a \in Config!Coefficients : Len(Configuration.analysis[a]) <= ring
        /\ parameters.gates.prompt = parameters.gates.background

\* Those of the files of a run that are given, and which of them goes before which: the
\* first is the one without a number; if that is not given, or the run has none, the one
\* that was recorded last, out of place.
GivenOf(run) == {i \in DOMAIN run : run[i] \in ToSet(options.input)}
First(run, i) == IF Unnumbered(run) /\ 1 \in GivenOf(run) THEN i = 1
                                                          ELSE \A j \in GivenOf(run) : j <= i
Before(run, i, j) == \/ i # j /\ First(run, i)
                     \/ i < j /\ ~First(run, j)

\* Of the files of a run that are given, in whatever order, the first (see above) is read
\* first, and the others in the order in which they were recorded: of the files that go
\* before a file, all are mapped when it is.
LastNameIsReadFirst ==
    \A run \in Runs :
        ToSet(options.input) \subseteq ToSet(run) =>
            \A n \in DOMAIN mapped_files : \A i, j \in GivenOf(run) :
                Before(run, i, j) /\ run[j] = mapped_files[n] =>
                    \E k \in 1 .. n - 1 : mapped_files[k] = run[i]

\* usage.md:249-256: "A typical structure is: analysis: excitation: a0: [ ... ]
\* # coefficients per ring a1: [ ... ] a2: [ ... ]".
DocumentedExcitationIsUsed ==
    parameters # << >> /\ Configuration.analysis.excitation =>
        \A a \in Config!Coefficients, ring \in 0 .. Rings - 1 : parameters.ex[a][ring] = "file"
=============================================================================
