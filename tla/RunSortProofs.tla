--------------------------- MODULE RunSortProofs ---------------------------
(***************************************************************************)
(* Proofs about RunSort for every command line, configuration and list of  *)
(* files: the analysis parameters the sort works with are those of one     *)
(* reading of the configuration named on the command line, and that        *)
(* reading mixes no sources; the reader reads the complete records of the  *)
(* files that main has mapped, those of a run in the order of the          *)
(* recording; and the calibrator makes the hits of the records that the    *)
(* detector table keeps, as the configuration has it.                      *)
(***************************************************************************)
EXTENDS RunSort, XIAReaderProofs

\* What is required of the parameters made of a configuration.
OfOneSource(read, config) ==
    /\ \A ring \in 0 .. Rings - 1 :
           LET sources == {read.ex[a][ring] : a \in Config!Coefficients}
           IN  /\ sources = {"fallback"} \/ "fallback" \notin sources
               /\ "uninitialised" \in sources =>
                      \E a \in Config!Coefficients : Len(config.analysis[a]) <= ring
    /\ read.gates.prompt = read.gates.background

\* The reading itself: whichever list fails, the three arrays are of one source.
LEMMA ReadingOfOneSource ==
  ASSUME NEW config
  PROVE  OfOneSource(Config!AnalysisParameters(config), config)
<1> DEFINE lists == config.analysis
           read == Config!AnalysisParameters(config)
<1>1. ASSUME NEW ring \in 0 .. Rings - 1
      PROVE  LET sources == {read.ex[a][ring] : a \in Config!Coefficients}
             IN  /\ sources = {"fallback"} \/ "fallback" \notin sources
                 /\ "uninitialised" \in sources =>
                        \E a \in Config!Coefficients : Len(lists[a]) <= ring
  <2>1. CASE \E a \in Config!Coefficients : Config!Fails(lists[a])
    <3>1. \A a \in Config!Coefficients : read.ex[a][ring] = "fallback"
      BY <2>1 DEF Config!AnalysisParameters, Config!Excitation
    <3> QED
      BY <3>1 DEF Config!Coefficients
  <2>2. CASE \A a \in Config!Coefficients : ~Config!Fails(lists[a])
    <3>1. \A a \in Config!Coefficients :
              read.ex[a][ring] = IF ring < Len(lists[a]) THEN "file" ELSE "uninitialised"
      BY <2>2 DEF Config!AnalysisParameters, Config!Excitation, Config!Converted
    <3>2. ASSUME NEW a \in Config!Coefficients, read.ex[a][ring] = "uninitialised"
          PROVE  ~(ring < Len(lists[a]))
      BY <3>1, <3>2
    <3> QED
      BY <3>1, <3>2
  <2> QED
    BY <2>1, <2>2
<1>2. read.gates.prompt = read.gates.background
  BY DEF Config!AnalysisParameters, Config!Gates
<1> QED
  BY <1>1, <1>2 DEF OfOneSource
-----------------------------------------------------------------------------
\* The parameters are read once, in the statement before the files are mapped, and
\* then are those of the configuration named by the options, which main keeps.
IInv ==
    /\ main \in {"parse", "table", "parameters"} => parameters = << >>
    /\ parameters # << >> => parameters = Config!AnalysisParameters(Configuration)

\* Before main() nothing has been read.
LEMMA InitIInv == RunSortInit => IInv
  BY DEF RunSortInit, IInv

\* No statement of main and no step of a task changes the parameters once read.
LEMMA NextIInv == IInv /\ [Next]_vars => IInv'
<1> SUFFICES ASSUME IInv, [Next]_vars PROVE IInv'
  OBVIOUS
<1> USE DEF IInv, Configuration, mainVars
<1>1. CASE ParseCLA
  BY <1>1 DEF ParseCLA
<1>2. CASE Refuse
  BY <1>2 DEF Refuse
<1>3. CASE ReadTable
  BY <1>3 DEF ReadTable
<1>4. CASE ReadParameters
  BY <1>4 DEF ReadParameters
<1>5. CASE MapFile
  BY <1>5 DEF MapFile
<1>6. CASE Terminate
  BY <1>6 DEF Terminate
<1>7. CASE StartTasks
  BY <1>7 DEF StartTasks
<1>8. CASE Sort
  BY <1>8 DEF Sort
<1>9. CASE UNCHANGED vars
  BY <1>9 DEF vars
<1> QED
  BY <1>1, <1>2, <1>3, <1>4, <1>5, <1>6, <1>7, <1>8, <1>9 DEF Next, Ended

\* In every reachable state the parameters are none, or those of the configuration.
THEOREM Invariance == Spec => []IInv
  BY InitIInv, NextIInv, PTL DEF Spec

\* The excitation energy is never calculated with coefficients of the file and of
\* the fallback together, nor are the time gates of two sources, however many rings
\* there are and whatever the file lacks.
THEOREM ParametersCorrect == Spec => []ParametersOfOneSource
<1>1. IInv => ParametersOfOneSource
  <2> SUFFICES ASSUME IInv, parameters # << >> PROVE OfOneSource(parameters, Configuration)
    BY DEF ParametersOfOneSource, OfOneSource
  <2>1. parameters = Config!AnalysisParameters(Configuration)
    BY DEF IInv
  <2> QED
    BY <2>1, ReadingOfOneSource
<1> QED
  BY Invariance, <1>1, PTL
-----------------------------------------------------------------------------
(***************************************************************************)
(* The reader                                                              *)
(***************************************************************************)
\* Until main starts the tasks, they stand where they were created, whatever files
\* have been mapped by then.
Waiting ==
    /\ pc = "test" /\ entries_processed = 0 /\ pending = << >> /\ output = << >>
    /\ fno = 1 /\ pos = 0
    /\ calibrator_pc = "test" /\ taken = 0 /\ hits_pending = << >> /\ hits = << >>

ReaderInv ==
    /\ main # "sort" => Waiting
    /\ ScanInv

\* With any files mapped, a reader that waits is where its scan starts.
LEMMA WaitingScans == Waiting /\ mapped_files \in Names => ScanInv
  BY ScanInvInit DEF Waiting

\* So it is in the next state.
LEMMA WaitingScansNext == Waiting' /\ (mapped_files \in Names)' => ScanInv'
  BY WaitingScans, PTL

\* No file is mapped at first.
LEMMA ReaderInvInit == RunSortInit => ReaderInv
<1> SUFFICES ASSUME RunSortInit PROVE ReaderInv
  OBVIOUS
<1>1. Waiting /\ mapped_files \in Names
  BY DEF RunSortInit, FrontEndInit, Init, TaskInit, OutputInit, Calibrator!Init,
         Calibrator!TaskInit, Calibrator!OutputInit, Waiting, Names
<1>2. ScanInv
  BY <1>1, ScanInvInit DEF Waiting
<1> QED
  BY <1>1, <1>2 DEF ReaderInv

\* Only a file that is there is mapped, and only while the tasks wait; and only the
\* reader moves the scan.
LEMMA ReaderInvNext == ReaderInv /\ [Next]_vars => ReaderInv'
<1> SUFFICES ASSUME ReaderInv, [Next]_vars PROVE ReaderInv'
  OBVIOUS
<1> USE DEF ReaderInv
<1>1. ASSUME UNCHANGED <<frontEndVars>>, main' # "sort" => main # "sort" PROVE ReaderInv'
  <2>1. main' # "sort" => Waiting'
    BY <1>1 DEF Waiting, frontEndVars, readerOnly, calibratorOnly, readerVars
  <2>2. ScanInv'
    BY <1>1, ScanInvOthers DEF frontEndVars, readerOnly
  <2> QED
    BY <2>1, <2>2
<1>2. CASE ParseCLA
  BY <1>1, <1>2 DEF ParseCLA
<1>3. CASE Refuse
  BY <1>1, <1>3 DEF Refuse
<1>4. CASE ReadTable
  BY <1>1, <1>4 DEF ReadTable
<1>5. CASE ReadParameters
  BY <1>1, <1>5 DEF ReadParameters
<1>6. CASE Terminate
  BY <1>1, <1>6 DEF Terminate
<1>7. CASE StartTasks
  BY <1>1, <1>7 DEF StartTasks
<1>8. CASE UNCHANGED vars
  BY <1>1, <1>8 DEF vars, mainVars
<1>9. CASE MapFile
  <2>1. /\ main = "map" /\ main' = main /\ Mappable(NextName)
        /\ mapped_files' = Append(mapped_files, NextName)
        /\ UNCHANGED <<pc, entries_processed, pending, fno, pos, output, taken, calibratorOnly>>
    BY <1>9 DEF MapFile, mainVars
  <2>2. Waiting'
    BY <2>1 DEF Waiting, calibratorOnly
  <2>3. mapped_files \in Names
    BY DEF ScanInv
  <2>4. mapped_files' \in Names
    <3>1. PICK name \in DOMAIN Files : name = NextName
      BY <2>1 DEF Mappable
    <3> QED
      BY <2>1, <2>3, <3>1, AppendProperties DEF Names
  <2>5. ScanInv'
    BY <2>2, <2>4, WaitingScansNext
  <2> QED
    BY <2>2, <2>5
<1>10. CASE Sort
  <2>1. main = "sort" /\ main' = "sort" /\ FrontEndNext
    BY <1>10 DEF Sort, mainVars
  <2>2. CASE ReaderStep
    BY <2>1, <2>2, ScanInvRun DEF ReaderStep
  <2>3. CASE CalibratorStep
    <3>1. UNCHANGED <<readerOnly, output>>
      BY <2>3 DEF CalibratorStep, Calibrator!Run, Calibrator!Test, Calibrator!Pop,
         Calibrator!PopNext, Calibrator!TimedOut, Calibrator!Throw
    <3> QED
      BY <2>1, <3>1, ScanInvOthers DEF readerOnly
  <2>4. CASE TakeHit
    BY <2>1, <2>4, ScanInvOthers DEF TakeHit, readerOnly
  <2>5. CASE FinishReader
    BY <2>1, <2>5, ScanInvOthers DEF FinishReader, Finish
  <2>6. CASE FinishCalibrator
    BY <2>1, <2>6, ScanInvOthers DEF FinishCalibrator, readerOnly
  <2> QED
    BY <2>1, <2>2, <2>3, <2>4, <2>5, <2>6 DEF FrontEndNext
<1> QED
  BY <1>2, <1>3, <1>4, <1>5, <1>6, <1>7, <1>8, <1>9, <1>10 DEF Next, Ended

\* The scan stands at a record in every reachable state.
THEOREM ReaderInvariance == Spec => []ReaderInv
  BY ReaderInvInit, ReaderInvNext, PTL DEF Spec

\* The reader pushes the complete records of all files, each once and in order, and
\* nothing else; and when it has counted all, it has pushed all.
THEOREM ReaderCorrect == Spec => []ReadsTheRecords
<1>1. ReaderInv => ReadsTheRecords
  BY ScanReadsTheRecords DEF ReaderInv
<1> QED
  BY ReaderInvariance, <1>1, PTL
-----------------------------------------------------------------------------
(***************************************************************************)
(* The detector table                                                      *)
(***************************************************************************)
\* What a table read from the first listings of a configuration has: an entry for each
\* address that is listed, made of the last listing of that address.
TableHolds(config, listings, table) ==
    /\ \A k \in DOMAIN listings :
           Config!Address(listings[k]) < Entries =>
               Config!Address(listings[k]) \in DOMAIN table
    /\ \A a \in DOMAIN table :
           /\ a < Entries
           /\ \E k \in DOMAIN listings :
                  /\ Config!Address(listings[k]) = a
                  /\ table[a] = Config!Entry(config, listings[k])
                  /\ \A j \in DOMAIN listings : Config!Address(listings[j]) = a => j <= k

Tables == INSTANCE SequenceLemmas WITH
    Op <- LAMBDA config, table, listing :
              Config!Written(table, Config!Address(listing), Config!Entry(config, listing)),
    base <- << >>, Holds <- TableHolds

\* The table of a configuration has these entries.
LEMMA TableRead ==
  ASSUME NEW config, config.listings \in Seq(ToSet(config.listings))
  PROVE  TableHolds(config, config.listings, Config!Table(config))
<1> DEFINE listings == config.listings
<1>1. Config!Table(config) = Tables!Fold(config, listings)
  BY Zenon DEF Config!Table, Config!FoldLeft, Config!MapThenFoldSet, Config!Max,
     Tables!Fold, Tables!FoldLeft, Tables!MapThenFoldSet, Tables!Max
<1>2. TableHolds(config, << >>, << >>)
  BY DEF TableHolds
<1>5. listings \in Seq(ToSet(listings))
  OBVIOUS
<1> HIDE DEF listings
<1>3. ASSUME NEW n \in Nat, n < Len(listings), NEW table,
             TableHolds(config, SubSeq(listings, 1, n), table)
      PROVE  TableHolds(config, SubSeq(listings, 1, n + 1),
                        Config!Written(table, Config!Address(listings[n + 1]),
                                       Config!Entry(config, listings[n + 1])))
  <2>1. PICK address, entry : /\ address = Config!Address(listings[n + 1])
                              /\ entry = Config!Entry(config, listings[n + 1])
    OBVIOUS
  <2>2. n \in 0 .. Len(listings) /\ n + 1 \in 0 .. Len(listings) /\ n + 1 \in Nat
    BY <1>3, <1>5, LenProperties
  <2>3. PICK s \in Seq(ToSet(listings)) :
            /\ s = SubSeq(listings, 1, n) /\ DOMAIN s = 1 .. n
            /\ \A i \in 1 .. n : s[i] = listings[i]
    <3>1. PICK u \in Seq(ToSet(listings)) :
              /\ u = SubSeq(listings, 1, n) /\ Len(u) = n
              /\ \A i \in 1 .. n : u[i] = listings[i]
      <4>1. listings \in Seq(ToSet(listings)) /\ n \in 0 .. Len(listings)
        BY <1>5, <2>2
      <4>2. /\ SubSeq(listings, 1, n) \in Seq(ToSet(listings))
            /\ Len(SubSeq(listings, 1, n)) = n
            /\ \A i \in 1 .. n : SubSeq(listings, 1, n)[i] = listings[i]
        BY Zenon, <4>1, PrefixProperties
      <4> QED
        BY Zenon, <4>2
    <3> QED
      BY <3>1, LenProperties
  <2>4. PICK t \in Seq(ToSet(listings)) :
            /\ t = SubSeq(listings, 1, n + 1) /\ DOMAIN t = 1 .. n + 1
            /\ \A i \in 1 .. n + 1 : t[i] = listings[i]
    <3>1. PICK u \in Seq(ToSet(listings)) :
              /\ u = SubSeq(listings, 1, n + 1) /\ Len(u) = n + 1
              /\ \A i \in 1 .. n + 1 : u[i] = listings[i]
      BY <1>5, <2>2, PrefixProperties
    <3> QED
      BY <3>1, LenProperties
  <2>5. /\ \A i \in 1 .. n : i \in DOMAIN t /\ t[i] = s[i]
        /\ n + 1 \in DOMAIN t /\ t[n + 1] = listings[n + 1]
        /\ \A i \in DOMAIN t : i = n + 1 \/ i \in 1 .. n
    BY <2>3, <2>4
  <2>6. TableHolds(config, s, table)
    BY <1>3, <2>3
  <2>7. CASE address < Entries
    <3>1. PICK w : w = [a \in DOMAIN table \cup {address} |->
                            IF a = address THEN entry ELSE table[a]]
      OBVIOUS
    <3>2. Config!Written(table, address, entry) = w
      BY <2>7, <3>1 DEF Config!Written
    <3>3. ASSUME NEW k \in DOMAIN t, Config!Address(t[k]) < Entries
          PROVE  Config!Address(t[k]) \in DOMAIN w
      BY <2>1, <2>3, <2>5, <2>6, <3>1, <3>3 DEF TableHolds
    <3>4. ASSUME NEW a \in DOMAIN w
          PROVE  /\ a < Entries
                 /\ \E k \in DOMAIN t :
                        /\ Config!Address(t[k]) = a
                        /\ w[a] = Config!Entry(config, t[k])
                        /\ \A j \in DOMAIN t : Config!Address(t[j]) = a => j <= k
      <4>1. CASE a = address
        <5>1. \A j \in DOMAIN t : j <= n + 1
          BY <2>4
        <5> QED
          BY <2>1, <2>5, <2>7, <3>1, <4>1, <5>1
      <4>2. CASE a # address
        <5>1. a \in DOMAIN table /\ w[a] = table[a]
          BY <3>1, <4>2
        <5>2. PICK k \in DOMAIN s : /\ Config!Address(s[k]) = a
                                    /\ table[a] = Config!Entry(config, s[k])
                                    /\ \A j \in DOMAIN s : Config!Address(s[j]) = a => j <= k
          BY <2>6, <5>1 DEF TableHolds
        <5>3. k \in DOMAIN t /\ t[k] = s[k]
          BY <2>3, <2>5, <5>2
        <5>4. \A j \in DOMAIN t : Config!Address(t[j]) = a => j \in DOMAIN s /\ t[j] = s[j]
          BY <2>1, <2>3, <2>5, <4>2
        <5> QED
          BY <2>6, <5>1, <5>2, <5>3, <5>4 DEF TableHolds
      <4> QED
        BY <4>1, <4>2
    <3>5. TableHolds(config, t, w)
      BY <3>3, <3>4 DEF TableHolds
    <3> QED
      BY <2>1, <2>4, <3>2, <3>5
  <2>8. CASE ~(address < Entries)
    <3>1. Config!Written(table, address, entry) = table
      BY <2>8 DEF Config!Written
    <3>2. \A k \in DOMAIN t : Config!Address(t[k]) < Entries => k \in DOMAIN s /\ t[k] = s[k]
      BY <2>1, <2>3, <2>5, <2>8
    <3>3. \A k \in DOMAIN s : k \in DOMAIN t /\ t[k] = s[k]
      BY <2>3, <2>5
    <3>4. TableHolds(config, t, table)
      BY <2>6, <3>2, <3>3 DEF TableHolds
    <3> QED
      BY <2>1, <2>4, <3>1, <3>4
  <2> QED
    BY <2>7, <2>8
<1>4. TableHolds(config, listings, Tables!Fold(config, listings))
  BY <1>2, <1>3, <1>5, Tables!FoldInduction
<1> QED
  BY <1>1, <1>4 DEF listings

\* The table is empty until the file has been read, and then that of the file.
TableInv ==
    /\ main \in {"parse", "table"} => dinfo = << >>
    /\ dinfo # << >> => /\ Given /\ ~Config!Throws(Configuration)
                        /\ dinfo = Config!Table(Configuration)

\* Nothing has been read at first.
LEMMA TableInvInit == RunSortInit => TableInv
  BY DEF RunSortInit, TableInv

\* After the file has been read neither main nor a task changes the table.
LEMMA TableInvNext == TableInv /\ [Next]_vars => TableInv'
<1> SUFFICES ASSUME TableInv, [Next]_vars PROVE TableInv'
  OBVIOUS
<1> USE DEF TableInv, Given, Configuration, mainVars
<1>1. CASE ParseCLA
  BY <1>1 DEF ParseCLA
<1>2. CASE Refuse
  BY <1>2 DEF Refuse
<1>3. CASE ReadTable
  BY <1>3 DEF ReadTable
<1>4. CASE ReadParameters
  BY <1>4 DEF ReadParameters
<1>5. CASE MapFile
  BY <1>5 DEF MapFile
<1>6. CASE Terminate
  BY <1>6 DEF Terminate
<1>7. CASE StartTasks
  BY <1>7 DEF StartTasks
<1>8. CASE Sort
  BY <1>8 DEF Sort
<1>9. CASE UNCHANGED vars
  BY <1>9 DEF vars
<1> QED
  BY <1>1, <1>2, <1>3, <1>4, <1>5, <1>6, <1>7, <1>8, <1>9 DEF Next, Ended

\* An entry is that of the listing of its address that comes last in the file.
LEMMA EntryOfListing ==
  ASSUME TableInv, NEW a \in DOMAIN dinfo
  PROVE  /\ Given /\ a < Entries /\ dinfo[a].type \in Config!DetectorTypes
         /\ \E k \in DOMAIN Configuration.listings :
                LET listing == Configuration.listings[k]
                IN  /\ Config!Address(listing) = a
                    /\ Config!Readable(Configuration, listing)
                    /\ dinfo[a] = Config!Entry(Configuration, listing)
                    /\ \A j \in DOMAIN Configuration.listings :
                           Config!Address(Configuration.listings[j]) = a => j <= k
<1>1. dinfo # << >>
  OBVIOUS
<1>2. Given /\ ~Config!Throws(Configuration) /\ dinfo = Config!Table(Configuration)
  BY <1>1 DEF TableInv
<1>3. Configuration.listings \in Seq(ToSet(Configuration.listings))
  BY <1>2, ConfigurationsAssumption DEF ConfigurationsOK, Configuration, Given
<1>4. TableHolds(Configuration, Configuration.listings, dinfo)
  <2>1. ASSUME NEW config, config = Configuration
        PROVE  TableHolds(config, config.listings, Config!Table(config))
    BY <1>3, <2>1, TableRead
  <2> QED
    BY <1>2, <2>1
<1>5. PICK k \in DOMAIN Configuration.listings :
          /\ Config!Address(Configuration.listings[k]) = a
          /\ dinfo[a] = Config!Entry(Configuration, Configuration.listings[k])
          /\ \A j \in DOMAIN Configuration.listings :
                 Config!Address(Configuration.listings[j]) = a => j <= k
  BY <1>4 DEF TableHolds
<1>6. a < Entries
  BY <1>4 DEF TableHolds
<1>7. Config!Readable(Configuration, Configuration.listings[k])
  BY <1>2 DEF Config!Throws
<1>8. Config!Entry(Configuration, Configuration.listings[k]).type \in Config!DetectorTypes
  BY <1>7 DEF Config!Entry, Config!Readable
<1> QED
  BY <1>2, <1>5, <1>6, <1>7, <1>8
-----------------------------------------------------------------------------
(***************************************************************************)
(* The calibrator                                                          *)
(***************************************************************************)
\* The pointer p is to a record of a channel that a table has in use.
UsedIn(table, p) ==
    /\ Calibrator!index(RecordAt[p]) \in DOMAIN table
    /\ table[Calibrator!index(RecordAt[p])].type \notin {"invalid", "eGuard", "unused"}

Keeping == INSTANCE SequenceLemmas WITH
    Op <- LAMBDA table, kept, p : IF UsedIn(table, p) THEN Append(kept, p) ELSE kept,
    base <- << >>, Holds <- Nothing

\* The records that hits were made of.
From(s) == [n \in DOMAIN s |-> s[n].from]

\* What the calibrator can make with its table.
Made == {Calibrator!Calibrated(p) : p \in {q \in Pointers : UsedIn(dinfo, q)}}

\* The hits are made of the records that have been popped, of those in use.
HitsInv ==
    /\ calibrator_pc \in {"test", "pop", "push", "drain", "exited"}
    /\ taken \in Nat /\ taken <= Len(output)
    /\ hits \in Seq(Made) /\ hits_pending \in Seq(Made)
    /\ calibrator_pc # "push" => hits_pending = << >>
    /\ From(hits \o hits_pending) = Keeping!Fold(dinfo, SubSeq(output, 1, taken))

\* A record is kept when its channel is in use: the channels that the table does not
\* know, and those that nothing was written for, are in no use.
LEMMA KeptAreUsed ==
  ASSUME TableInv, NEW p \in Pointers
  PROVE  Calibrator!keep(p) <=> UsedIn(dinfo, p)
<1> DEFINE a == Calibrator!index(RecordAt[p])
<1>1. CASE a \in DOMAIN dinfo
  <2>1. a < Entries /\ dinfo[a].type \in Config!DetectorTypes
    BY <1>1, EntryOfListing
  <2>2. Calibrator!Known(p) /\ Calibrator!Detector(p) = dinfo[a]
    BY <1>1, <2>1 DEF Calibrator!Known, Calibrator!Detector
  <2>3. dinfo[a].type \in Calibrator!Kept <=> dinfo[a].type \notin {"invalid", "eGuard", "unused"}
    BY <2>1 DEF Config!DetectorTypes, Calibrator!Kept
  <2> QED
    BY <1>1, <2>2, <2>3 DEF Calibrator!keep, UsedIn
<1>2. CASE a \notin DOMAIN dinfo
  <2>1. Calibrator!Detector(p).type = "unused"
    BY <1>2 DEF Calibrator!Detector, Calibrator!NotInUse
  <2>2. "unused" \notin Calibrator!Kept
    BY DEF Calibrator!Kept
  <2> QED
    BY <1>2, <2>1, <2>2 DEF Calibrator!keep, UsedIn
<1> QED
  BY <1>1, <1>2

\* The hits of a longer sequence.
LEMMA FromAppend ==
  ASSUME NEW S, NEW s \in Seq(S), NEW h \in S
  PROVE  From(Append(s, h)) = Append(From(s), h.from)
<1>1. PICK n \in Nat : n = Len(s) /\ DOMAIN s = 1 .. n
  BY LenProperties
<1>2. PICK t \in Seq(S) : /\ t = Append(s, h) /\ DOMAIN t = 1 .. n + 1 /\ Len(t) = n + 1
                          /\ t[n + 1] = h /\ \A i \in 1 .. n : t[i] = s[i]
  <2>1. /\ Append(s, h) \in Seq(S) /\ Len(Append(s, h)) = n + 1
        /\ Append(s, h)[n + 1] = h /\ \A i \in 1 .. n : Append(s, h)[i] = s[i]
    BY <1>1, AppendProperties
  <2>2. DOMAIN Append(s, h) = 1 .. n + 1
    BY <2>1, LenProperties
  <2> QED
    BY <2>1, <2>2
<1>3. PICK u : u = [i \in 1 .. n |-> s[i].from]
  OBVIOUS
<1>4. u \in Seq({x.from : x \in S}) /\ Len(u) = n
  <2>1. \A i \in 1 .. n : s[i] \in S
    BY <1>1, ElementOfSeq
  <2>2. u \in [1 .. n -> {x.from : x \in S}]
    BY <1>3, <2>1
  <2>3. u \in Seq({x.from : x \in S})
    BY <2>2, IsASeq
  <2> QED
    BY <1>3, <2>3, LenProperties
<1>5. PICK v \in Seq({x.from : x \in S}) :
          /\ v = Append(u, h.from) /\ DOMAIN v = 1 .. n + 1 /\ Len(v) = n + 1
          /\ v[n + 1] = h.from /\ \A i \in 1 .. n : v[i] = u[i]
  <2>1. PICK p \in {x.from : x \in S} : p = h.from
    OBVIOUS
  <2> QED
    <3>1. /\ Append(u, p) \in Seq({x.from : x \in S}) /\ Len(Append(u, p)) = n + 1
          /\ Append(u, p)[n + 1] = p /\ \A i \in 1 .. n : Append(u, p)[i] = u[i]
      BY <1>4, AppendProperties
    <3>2. DOMAIN Append(u, p) = 1 .. n + 1
      BY <3>1, LenProperties
    <3> QED
      BY <2>1, <3>1, <3>2
<1>6. From(t) = [i \in 1 .. n + 1 |-> t[i].from]
  BY <1>2 DEF From
<1>7. v = [i \in 1 .. n + 1 |-> v[i]]
  BY <1>5, SeqDef
<1>8. \A i \in 1 .. n + 1 : v[i] = t[i].from
  BY <1>2, <1>3, <1>5
<1>9. From(s) = u
  BY <1>1, <1>3 DEF From
<1> QED
  BY <1>2, <1>5, <1>6, <1>7, <1>8, <1>9

\* What a task that waits has made.
LEMMA WaitingHits == Waiting => HitsInv
<1> SUFFICES ASSUME Waiting PROVE HitsInv
  OBVIOUS
<1> USE DEF Waiting
<1>1. hits \o hits_pending = << >> /\ SubSeq(output, 1, taken) = << >>
  OBVIOUS
<1>2. Keeping!Fold(dinfo, << >>) = << >>
  BY Keeping!FoldEmpty
<1>3. From(<< >>) = << >>
  BY DEF From
<1>4. From(hits \o hits_pending) = Keeping!Fold(dinfo, SubSeq(output, 1, taken))
  BY <1>1, <1>2, <1>3
<1>5. taken \in Nat /\ taken <= Len(output)
  OBVIOUS
<1>6. hits \in Seq(Made) /\ hits_pending \in Seq(Made)
  OBVIOUS
<1> QED
  BY <1>4, <1>5, <1>6 DEF HitsInv

\* So it is in the next state.
LEMMA WaitingHitsNext == Waiting' => HitsInv'
  BY WaitingHits, PTL

\* With the same table the same can be made.
LEMMA MadeStays == UNCHANGED dinfo => Made' = Made
<1> SUFFICES ASSUME UNCHANGED dinfo PROVE Made' = Made
  OBVIOUS
<1>1. ASSUME NEW p PROVE Calibrator!Calibrated(p)' = Calibrator!Calibrated(p)
  BY DEF Calibrator!Calibrated, Calibrator!Detector
<1> QED
  BY <1>1 DEF Made

\* A step of anything else.
LEMMA HitsInvOthers ==
  ASSUME HitsInv, UNCHANGED <<output, taken, dinfo>>, UNCHANGED <<hits, hits_pending>>,
         calibrator_pc' \in {"test", "pop", "push", "drain", "exited"},
         calibrator_pc' # "push" => hits_pending = << >>
  PROVE  HitsInv'
  BY MadeStays DEF HitsInv

\* The reader pushes another pointer.
LEMMA ArrivalKeeps ==
  ASSUME HitsInv, NEW p \in Pointers, output \in Seq(Pointers), output' = Append(output, p),
         UNCHANGED <<taken, dinfo, calibrator_pc, hits, hits_pending>>
  PROVE  HitsInv'
<1>1. taken \in 0 .. Len(output)
  BY DEF HitsInv
<1>2. SubSeq(output', 1, taken) = SubSeq(output, 1, taken)
  BY <1>1, PrefixStays
<1>3. taken <= Len(output')
  <2>1. Len(output') = Len(output) + 1 /\ Len(output) \in Nat
    BY AppendProperties, LenProperties
  <2> QED
    BY <1>1, <2>1
<1> QED
  BY <1>1, <1>2, <1>3, MadeStays DEF HitsInv

\* The calibrator pops a pointer, and makes a hit if it keeps the record.
LEMMA PopKeeps ==
  ASSUME TableInv, HitsInv, output \in Seq(Pointers), Calibrator!Pop, UNCHANGED dinfo
  PROVE  HitsInv'
<1>1. /\ calibrator_pc = "pop" /\ taken < Len(output) /\ taken' = taken + 1 /\ output' = output
      /\ calibrator_pc' = "push" /\ hits' = hits
      /\ hits_pending' = IF Calibrator!keep(output[taken + 1])
                           THEN <<Calibrator!Calibrated(output[taken + 1])>> ELSE << >>
  BY DEF Calibrator!Pop, Calibrator!PopNext, Calibrator!ItemWaiting, Calibrator!NextItem
<1>2. taken \in Nat /\ hits \in Seq(Made) /\ hits_pending = << >>
  BY <1>1 DEF HitsInv
<1>3. PICK s \in Seq(Pointers), p \in Pointers :
          /\ s = SubSeq(output, 1, taken) /\ p = output[taken + 1]
          /\ SubSeq(output, 1, taken + 1) = Append(s, p)
  <2>1. PICK s \in Seq(Pointers) : s = SubSeq(output, 1, taken)
    BY <1>1, <1>2, PrefixAppend
  <2>2. PICK p \in Pointers : p = output[taken + 1]
    BY <1>1, <1>2, PrefixAppend
  <2>3. SubSeq(output, 1, taken + 1) = Append(s, p)
    BY <1>1, <1>2, <2>1, <2>2, PrefixAppend
  <2> QED
    BY <2>1, <2>2, <2>3
<1>4. From(hits) = Keeping!Fold(dinfo, s)
  <2>1. hits \o << >> = hits
    BY <1>2
  <2> QED
    BY <1>2, <1>3, <2>1 DEF HitsInv
<1>5. Keeping!Fold(dinfo, Append(s, p)) =
          IF UsedIn(dinfo, p) THEN Append(Keeping!Fold(dinfo, s), p) ELSE Keeping!Fold(dinfo, s)
  BY <1>3, Keeping!FoldAppend
<1>6. Calibrator!keep(p) <=> UsedIn(dinfo, p)
  BY KeptAreUsed
<1>7. /\ hits_pending' \in Seq(Made)
      /\ From(hits \o hits_pending') = Keeping!Fold(dinfo, Append(s, p))
  <2>1. CASE UsedIn(dinfo, p)
    <3>1. PICK h \in Made : h = Calibrator!Calibrated(p)
      BY <2>1 DEF Made
    <3>2. h.from = p
      BY <3>1 DEF Calibrator!Calibrated
    <3>3. hits_pending' = <<h>>
      BY <1>1, <1>3, <1>6, <2>1, <3>1
    <3>4. <<h>> \in Seq(Made) /\ hits \o <<h>> = Append(hits, h)
      BY <1>2
    <3>5. From(Append(hits, h)) = Append(From(hits), h.from)
      BY <1>2, FromAppend
    <3> QED
      BY <1>4, <1>5, <2>1, <3>2, <3>3, <3>4, <3>5
  <2>2. CASE ~UsedIn(dinfo, p)
    <3>1. hits_pending' = << >>
      BY <1>1, <1>3, <1>6, <2>2
    <3>2. << >> \in Seq(Made) /\ hits \o << >> = hits
      BY <1>2
    <3> QED
      BY <1>4, <1>5, <2>2, <3>1, <3>2
  <2> QED
    BY <2>1, <2>2
<1>8. taken' \in Nat /\ taken' <= Len(output')
  BY <1>1, <1>2, LenProperties
<1>9. Keeping!Fold(dinfo', SubSeq(output', 1, taken')) = Keeping!Fold(dinfo, Append(s, p))
  BY <1>1, <1>3
<1> QED
  BY <1>1, <1>2, <1>7, <1>8, <1>9, MadeStays DEF HitsInv

\* A push moves a hit to the queue.
LEMMA PushKeeps ==
  ASSUME HitsInv, Calibrator!Push, UNCHANGED <<output, dinfo>>
  PROVE  HitsInv'
<1>1. /\ calibrator_pc \in {"push", "drain"} /\ hits_pending # << >>
      /\ hits' = Append(hits, Head(hits_pending)) /\ hits_pending' = Tail(hits_pending)
      /\ UNCHANGED <<calibrator_pc, taken>>
  BY DEF Calibrator!Push
<1>2. hits \in Seq(Made) /\ hits_pending \in Seq(Made)
  BY DEF HitsInv
<1>3. /\ Append(hits, Head(hits_pending)) \in Seq(Made) /\ Tail(hits_pending) \in Seq(Made)
      /\ Append(hits, Head(hits_pending)) \o Tail(hits_pending) = hits \o hits_pending
  <2>1. Head(hits_pending) \in Made /\ Tail(hits_pending) \in Seq(Made)
    BY <1>1, <1>2, HeadTailProperties
  <2>2. Append(hits, Head(hits_pending)) \in Seq(Made)
    BY <1>2, <2>1, AppendProperties
  <2> QED
    BY <1>1, <1>2, <2>1, <2>2, HeadMoves
<1>4. calibrator_pc = "push"
  BY <1>1 DEF HitsInv
<1> QED
  BY <1>1, <1>2, <1>3, <1>4, MadeStays DEF HitsInv

\* The steps of the two tasks, of the rest of the program, and of main keep it.
LEMMA HitsInvNext == ReaderInv /\ TableInv /\ HitsInv /\ [Next]_vars => HitsInv'
<1> SUFFICES ASSUME ReaderInv, TableInv, HitsInv, [Next]_vars PROVE HitsInv'
  OBVIOUS
<1>1. CASE UNCHANGED vars
  BY <1>1, HitsInvOthers DEF HitsInv, vars, frontEndVars, calibratorOnly, mainVars
<1>2. CASE ParseCLA \/ Refuse \/ ReadTable \/ ReadParameters \/ MapFile \/ Terminate \/ StartTasks
  <2>1. main # "sort" /\ UNCHANGED <<pc, entries_processed, pending, output, fno, pos, taken,
                                      calibratorOnly>>
    BY <1>2 DEF ParseCLA, Refuse, ReadTable, ReadParameters, MapFile, Terminate, StartTasks,
       frontEndVars, readerOnly, readerVars
  <2>2. Waiting'
    BY <2>1 DEF ReaderInv, Waiting, calibratorOnly
  <2> QED
    BY <2>2, WaitingHitsNext
<1>3. CASE Sort
  <2>1. FrontEndNext /\ UNCHANGED dinfo
    BY <1>3 DEF Sort, mainVars
  <2>2. output \in Seq(Pointers) /\ pending \in Seq(Pointers)
    BY DEF ReaderInv, ScanInv
  <2>3. CASE ReaderStep
    <3>1. Run /\ UNCHANGED <<calibrator_pc, hits, hits_pending>>
      BY <2>3 DEF ReaderStep, calibratorOnly
    <3>2. CASE Push
      <4>1. PICK p \in Pointers : p = Head(pending)
        BY <2>2, <3>2, HeadTailProperties DEF Push
      <4>2. output' = Append(output, p) /\ taken' = taken
        BY <3>2, <4>1 DEF Push
      <4> QED
        BY <2>1, <2>2, <3>1, <4>2, ArrivalKeeps
    <3>3. CASE ~Push
      <4>1. UNCHANGED <<output, taken>>
        BY <3>1, <3>3 DEF Run, Read, NextFile, AllFilesRead, ExitDone, Handled
      <4> QED
        BY <2>1, <3>1, <4>1, HitsInvOthers DEF HitsInv
    <3> QED
      BY <3>2, <3>3
  <2>4. CASE CalibratorStep
    <3>1. Calibrator!Run
      BY <2>4 DEF CalibratorStep
    <3>2. CASE Calibrator!Pop
      BY <2>1, <2>2, <3>2, PopKeeps
    <3>3. CASE Calibrator!Push /\ UNCHANGED <<output, crashed>>
      BY <2>1, <3>3, PushKeeps
    <3>4. ASSUME \/ Calibrator!Test /\ UNCHANGED <<hits_pending, hits, hits_taken, crashed>>
                 \/ Calibrator!TimedOut /\ UNCHANGED <<hits_pending, hits, hits_taken, crashed>>
                 \/ Calibrator!Handled /\ UNCHANGED <<output, crashed>>
                 \/ Calibrator!Throw
                 \/ Calibrator!Exit /\ UNCHANGED <<output, crashed>>
          PROVE  HitsInv'
      <4>1. UNCHANGED <<output, taken>> /\ UNCHANGED <<hits, hits_pending>>
        BY <3>4 DEF Calibrator!Test, Calibrator!TimedOut, Calibrator!Handled,
           Calibrator!Throw, Calibrator!Exit
      <4>2. /\ calibrator_pc' \in {"test", "pop", "push", "drain", "exited"}
            /\ calibrator_pc' # "push" => hits_pending = << >>
        BY <3>4 DEF HitsInv, Calibrator!Test, Calibrator!TimedOut, Calibrator!Handled,
           Calibrator!Throw, Calibrator!Exit
      <4> QED
        BY <2>1, <4>1, <4>2, HitsInvOthers
    <3> QED
      BY <3>1, <3>2, <3>3, <3>4 DEF Calibrator!Run
  <2>5. CASE TakeHit \/ FinishReader \/ FinishCalibrator
    <3>1. UNCHANGED <<output, taken>> /\ UNCHANGED <<hits, hits_pending, calibrator_pc>>
      BY <2>5 DEF TakeHit, Calibrator!Take, FinishReader, calibratorOnly, FinishCalibrator,
         Calibrator!Finish
    <3> QED
      BY <2>1, <3>1, HitsInvOthers DEF HitsInv
  <2> QED
    BY <2>1, <2>3, <2>4, <2>5 DEF FrontEndNext
<1> QED
  BY <1>1, <1>2, <1>3 DEF Next, Ended

\* In every reachable state the table is that of the file, and the hits are made of the
\* records that have been popped, of those in use.
THEOREM CalibratorInvariance == Spec => [](ReaderInv /\ TableInv /\ HitsInv)
<1>1. RunSortInit => ReaderInv /\ TableInv /\ HitsInv
  <2>1. RunSortInit => Waiting
    BY DEF RunSortInit, FrontEndInit, Init, TaskInit, OutputInit, Calibrator!Init,
       Calibrator!TaskInit, Calibrator!OutputInit, Waiting
  <2> QED
    BY <2>1, ReaderInvInit, TableInvInit, WaitingHits
<1>2. ReaderInv /\ TableInv /\ HitsInv /\ [Next]_vars => (ReaderInv /\ TableInv /\ HitsInv)'
  BY ReaderInvNext, TableInvNext, HitsInvNext
<1> QED
  BY <1>1, <1>2, PTL DEF Spec

\* A hit is made of a record whose channel is in use.
LEMMA HitsAreMade ==
  ASSUME HitsInv, NEW n \in DOMAIN Calibrator!Hits
  PROVE  \E p \in Pointers : Calibrator!Hits[n] = Calibrator!Calibrated(p) /\ UsedIn(dinfo, p)
<1>1. Calibrator!Hits \in Seq(Made)
  BY ConcatProperties DEF HitsInv, Calibrator!Hits
<1>2. Calibrator!Hits[n] \in Made
  BY <1>1, ElementOfSeq, LenProperties
<1> QED
  BY <1>2 DEF Made

\* The hits are made of the records of the channels in use, each record once and in
\* order, whatever the queues and the shutdown do, and what is copied of a record
\* lies inside of it, whatever the length of its header.
THEOREM HitsCorrect == Spec => []HitsOfTheKeptRecords
<1>1. HitsInv => HitsOfTheKeptRecords
  <2> SUFFICES ASSUME HitsInv PROVE Calibrator!HitsOfTheKeptRecords
    BY DEF HitsOfTheKeptRecords
  <2>1. Calibrator!FoldLeft(LAMBDA kept, xia : IF Calibrator!InUse(xia) THEN Append(kept, xia)
                                                                        ELSE kept,
                            << >>, Calibrator!Popped)
            = Keeping!Fold(dinfo, SubSeq(output, 1, taken))
    BY Zenon DEF Calibrator!InUse, UsedIn, Calibrator!Popped, Calibrator!FoldLeft,
       Calibrator!MapThenFoldSet, Calibrator!Max,
       Keeping!Fold, Keeping!FoldLeft, Keeping!MapThenFoldSet, Keeping!Max
  <2>2. ASSUME NEW n \in DOMAIN Calibrator!Hits
        PROVE  LET xia == RecordAt[Calibrator!Hits[n].from]
               IN  /\ Calibrator!Hits[n].qdc \subseteq 5 .. xia.headerLen
                   /\ Calibrator!Hits[n].trace \subseteq 2 * xia.headerLen + 1 .. 2 * xia.eventLen
    <3>1. PICK p \in Pointers : Calibrator!Hits[n] = Calibrator!Calibrated(p)
      BY HitsAreMade
    <3>2. PICK xia : xia = RecordAt[p]
      OBVIOUS
    <3>3. /\ Calibrator!Hits[n].from = p /\ Calibrator!Hits[n].qdc = Calibrator!getQDC(xia)
          /\ Calibrator!Hits[n].trace = Calibrator!getTrace(xia)
      BY <3>1, <3>2 DEF Calibrator!Calibrated
    <3>4. /\ xia.headerLen \in Nat /\ xia.traceLen \in Nat /\ xia.eventLen \in Nat
          /\ 2 * xia.headerLen + xia.traceLen <= 2 * xia.eventLen
      BY <3>2, RecordsAssumption DEF RecordsOK
    <3>5. Calibrator!getQDC(xia) \subseteq 5 .. xia.headerLen
      BY <3>4 DEF Calibrator!getQDC, Calibrator!QdcOffset
    <3>6. Calibrator!getTrace(xia) \subseteq 2 * xia.headerLen + 1 .. 2 * xia.eventLen
      BY <3>4 DEF Calibrator!getTrace
    <3> QED
      BY <3>2, <3>3, <3>5, <3>6
  <2>3. From(Calibrator!Hits) = Keeping!Fold(dinfo, SubSeq(output, 1, taken))
    BY DEF HitsInv, Calibrator!Hits
  <2> QED
    BY <2>1, <2>2, <2>3 DEF Calibrator!HitsOfTheKeptRecords, From
<1> QED
  BY CalibratorInvariance, <1>1, PTL

\* The slot and the channel of a place that exists have four bits.
LEMMA FourBits == \A i \in Nat : i < 16 => i \in 0 .. 15
  OBVIOUS

\* The two parts of a time shift add up to it.
LEMMA ShiftsAddUp ==
  ASSUME NEW time \in Int
  PROVE  Config!Truncated(time) * Config!Ns + (time - Config!Truncated(time) * Config!Ns) = time
<1>1. Config!Truncated(time) \in Int
  BY DEF Config!Truncated, Config!Ns
<1> QED
  BY <1>1 DEF Config!Ns

\* A hit has the type, the number, the clock and the time shift that the file lists
\* last for the place that the header of its record names, whatever other places are
\* listed before and after it, as long as the file lists places that exist.
THEOREM ConfigurationCorrect == Spec => []HitsCarryTheirConfiguration
<1>1. TableInv /\ HitsInv => HitsCarryTheirConfiguration
  <2> SUFFICES ASSUME TableInv, HitsInv PROVE HitsCarryTheirConfiguration
    BY Zenon
  <2> DEFINE Listed(l) == Configuration.listings[l]
             Same(l, xia) == <<Listed(l).crate, Listed(l).slot, Listed(l).channel>>
                                 = <<xia.crateID, xia.slotID, xia.chanID>>
  <2>1. ASSUME NEW n \in DOMAIN Calibrator!Hits,
               \A k \in DOMAIN Configuration.listings : Listed(k).slot < 16 /\ Listed(k).channel < 16
        PROVE  LET hit == Calibrator!Hits[n]
                   entry == Calibrator!Detector(hit.from)
                   listed == {k \in DOMAIN Configuration.listings : Same(k, RecordAt[hit.from])}
               IN  /\ listed # {}
                   /\ LET listing == Listed(Max(listed))
                      IN  /\ <<hit.type, hit.detectorID>> = <<listing.type, listing.detectorID>>
                          /\ entry.sfreq = Config!Speeds[listing.speed]
                          /\ entry.timestamp_shift * Config!Ns + entry.cfd_shift
                                 = Configuration.calibration[listing.type][listing.detectorID + 1]
    <3>1. PICK p \in Pointers : Calibrator!Hits[n] = Calibrator!Calibrated(p) /\ UsedIn(dinfo, p)
      BY HitsAreMade
    <3>2. PICK xia, a : xia = RecordAt[p] /\ a = Calibrator!index(xia)
      OBVIOUS
    <3>3. a \in DOMAIN dinfo
      BY <3>1, <3>2 DEF UsedIn
    <3>4. PICK k \in DOMAIN Configuration.listings :
              /\ Config!Address(Listed(k)) = a
              /\ Config!Readable(Configuration, Listed(k))
              /\ dinfo[a] = Config!Entry(Configuration, Listed(k))
              /\ \A j \in DOMAIN Configuration.listings :
                     Config!Address(Listed(j)) = a => j <= k
      BY <3>3, EntryOfListing
    <3>5. Given /\ Configuration \in {Configurations[f] : f \in DOMAIN Configurations}
      BY <3>3, EntryOfListing DEF Given, Configuration
    <3>6. /\ Configuration.listings \in Seq(ToSet(Configuration.listings))
          /\ DOMAIN Configuration.listings = 1 .. Len(Configuration.listings)
      BY <3>5, ConfigurationsAssumption, LenProperties DEF ConfigurationsOK
    <3>7. {xia.crateID, xia.slotID, xia.chanID} \subseteq 0 .. 15
      BY <3>2, RecordsAssumption DEF RecordsOK
    <3>8. ASSUME NEW j \in DOMAIN Configuration.listings
          PROVE  Config!Address(Listed(j)) = a <=> Same(j, xia)
      <4>1. Listed(j) \in ToSet(Configuration.listings)
        BY DEF ToSet
      <4>2. PICK listing : listing = Listed(j)
        OBVIOUS
      <4>3. {listing.crate, listing.slot, listing.channel} \subseteq Nat
        BY <3>5, <4>1, <4>2, ConfigurationsAssumption DEF ConfigurationsOK
      <4>4. listing.slot < 16 /\ listing.channel < 16
        BY <2>1, <4>2
      <4>5. PICK crate \in Nat, slot \in 0 .. 15, channel \in 0 .. 15 :
                crate = listing.crate /\ slot = listing.slot /\ channel = listing.channel
        <5>1. listing.slot \in Nat /\ listing.channel \in Nat
          BY <4>3
        <5>2. listing.slot \in 0 .. 15 /\ listing.channel \in 0 .. 15
          BY Zenon, <4>4, <5>1, FourBits
        <5> QED
          BY Zenon, <4>3, <5>2
      <4>6. PICK crateID \in 0 .. 15, slotID \in 0 .. 15, chanID \in 0 .. 15 :
                crateID = xia.crateID /\ slotID = xia.slotID /\ chanID = xia.chanID
        BY Zenon, <3>7
      <4>7. /\ Config!Address(listing) = crate * 256 + slot * 16 + channel
            /\ a = crateID * 256 + slotID * 16 + chanID
        BY <3>2, <4>5, <4>6 DEF Config!Address, Calibrator!index
      <4>8. Config!Address(listing) = a
                <=> crate = crateID /\ slot = slotID /\ channel = chanID
        <5>1. ASSUME crate * 256 + slot * 16 + channel = crateID * 256 + slotID * 16 + chanID
              PROVE  crate = crateID /\ slot = slotID /\ channel = chanID
          BY <5>1
        <5> QED
          BY <4>7, <5>1
      <4> QED
        BY <4>2, <4>5, <4>6, <4>8
    <3> DEFINE listed == {j \in DOMAIN Configuration.listings : Same(j, xia)}
    <3>9. k \in listed /\ Max(listed) = k
      <4>1. k \in listed /\ \A j \in listed : j <= k
        BY <3>4, <3>8
      <4>2. k \in Nat /\ listed \in SUBSET (1 .. k)
        BY <3>6, <4>1
      <4> HIDE DEF listed
      <4> QED
        BY <4>1, <4>2, MaxIsLast
    <3>10. /\ Calibrator!Hits[n].from = p /\ Calibrator!Detector(p) = dinfo[a]
           /\ Calibrator!Hits[n].type = dinfo[a].type
           /\ Calibrator!Hits[n].detectorID = dinfo[a].detectorID
      BY <3>1, <3>2, <3>3 DEF Calibrator!Calibrated, Calibrator!Detector
    <3>11. /\ dinfo[a].type = Listed(k).type /\ dinfo[a].detectorID = Listed(k).detectorID
           /\ dinfo[a].sfreq = Config!Speeds[Listed(k).speed]
      BY <3>4 DEF Config!Entry
    <3>12. PICK time : time = Configuration.calibration[Listed(k).type][Listed(k).detectorID + 1]
      OBVIOUS
    <3>13. time \in Int
      BY <3>4, <3>5, <3>12, ConfigurationsAssumption DEF ConfigurationsOK, Config!Readable, ToSet
    <3>14. dinfo[a].timestamp_shift * Config!Ns + dinfo[a].cfd_shift = time
      <4>1. /\ dinfo[a].timestamp_shift = Config!Truncated(time)
            /\ dinfo[a].cfd_shift = time - Config!Truncated(time) * Config!Ns
        BY <3>4, <3>12 DEF Config!Entry
      <4> QED
        BY <3>13, <4>1, ShiftsAddUp
    <3> QED
      BY Zenon, <3>2, <3>9, <3>10, <3>11, <3>12, <3>14
  <2> QED
    BY Zenon, <2>1 DEF HitsCarryTheirConfiguration
<1> QED
  BY CalibratorInvariance, <1>1, PTL
-----------------------------------------------------------------------------
(***************************************************************************)
(* The order of the files                                                  *)
(***************************************************************************)
\* One of finitely many numbers is not less than any other.
LEMMA GreatestOf ==
  ASSUME NEW n \in Nat, NEW f \in [1 .. n + 1 -> Nat]
  PROVE  \E m \in 1 .. n + 1 : \A i \in 1 .. n + 1 : f[i] <= f[m]
<1> DEFINE good == {k \in Nat : \A g \in [1 .. k + 1 -> Nat] :
                        \E m \in 1 .. k + 1 : \A i \in 1 .. k + 1 : g[i] <= g[m]}
<1> HIDE DEF good
<1>1. 0 \in good
  <2> SUFFICES ASSUME NEW g \in [1 .. 0 + 1 -> Nat]
               PROVE  \E m \in 1 .. 0 + 1 : \A i \in 1 .. 0 + 1 : g[i] <= g[m]
    BY DEF good
  <2>1. 1 .. 0 + 1 = {1} /\ g[1] \in Nat
    OBVIOUS
  <2> QED
    BY <2>1
<1>2. ASSUME NEW k \in Nat, k \in good PROVE k + 1 \in good
  <2> k + 1 \in Nat
    OBVIOUS
  <2> SUFFICES ASSUME NEW g \in [1 .. k + 1 + 1 -> Nat]
               PROVE  \E m \in 1 .. k + 1 + 1 : \A i \in 1 .. k + 1 + 1 : g[i] <= g[m]
    BY Zenon DEF good
  <2> DEFINE h == [i \in 1 .. k + 1 |-> g[i]]
  <2>1. h \in [1 .. k + 1 -> Nat]
    <3>1. \A i \in 1 .. k + 1 : i \in 1 .. k + 1 + 1
      OBVIOUS
    <3> QED
      BY <3>1
  <2>2. PICK m \in 1 .. k + 1 : \A i \in 1 .. k + 1 : h[i] <= h[m]
    BY <1>2, <2>1 DEF good
  <2>3. \A i \in 1 .. k + 1 : g[i] <= g[m]
    BY <2>2
  <2>4. \A i \in 1 .. k + 1 + 1 : g[i] \in Nat /\ (i \in 1 .. k + 1 \/ i = k + 1 + 1)
    OBVIOUS
  <2>5. CASE g[m] <= g[k + 1 + 1]
    <3>1. ASSUME NEW i \in 1 .. k + 1 + 1 PROVE g[i] <= g[k + 1 + 1]
      <4>1. /\ m \in 1 .. k + 1 + 1 /\ k + 1 + 1 \in 1 .. k + 1 + 1
            /\ g[i] \in Nat /\ g[m] \in Nat /\ g[k + 1 + 1] \in Nat
        BY <2>4
      <4>2. CASE i = k + 1 + 1
        BY <4>1, <4>2
      <4>3. CASE i \in 1 .. k + 1
        BY <2>3, <2>5, <4>1, <4>3
      <4> QED
        BY <2>4, <4>2, <4>3
    <3> QED
      BY <3>1
  <2>6. CASE ~(g[m] <= g[k + 1 + 1])
    <3>1. /\ m \in 1 .. k + 1 + 1 /\ g[m] \in Nat /\ g[k + 1 + 1] \in Nat
      BY <2>4
    <3>2. g[k + 1 + 1] <= g[m]
      BY <2>6, <3>1
    <3> QED
      BY <2>3, <2>4, <3>1, <3>2
  <2> QED
    BY <2>5, <2>6
<1>3. Nat \subseteq good
  BY <1>1, <1>2, SetInduction
<1> QED
  BY <1>3 DEF good

\* So there is always a way to put them in order.
LEMMA SortingExists ==
  ASSUME NEW n \in Nat, NEW f \in [1 .. n -> Nat]
  PROVE  \E p \in Bijection(1 .. n, 1 .. n) : \A i, j \in 1 .. n : i < j => f[p[i]] <= f[p[j]]
<1> DEFINE good == {k \in Nat : \A g \in [1 .. k -> Nat] : \E p \in [1 .. k -> 1 .. k] :
                        /\ \A i, j \in 1 .. k : p[i] = p[j] => i = j
                        /\ \A y \in 1 .. k : \E x \in 1 .. k : p[x] = y
                        /\ \A i, j \in 1 .. k : i < j => g[p[i]] <= g[p[j]]}
<1> HIDE DEF good
<1>1. 0 \in good
  <2> SUFFICES ASSUME NEW g \in [1 .. 0 -> Nat]
               PROVE  \E p \in [1 .. 0 -> 1 .. 0] :
                          /\ \A i, j \in 1 .. 0 : p[i] = p[j] => i = j
                          /\ \A y \in 1 .. 0 : \E x \in 1 .. 0 : p[x] = y
                          /\ \A i, j \in 1 .. 0 : i < j => g[p[i]] <= g[p[j]]
    BY DEF good
  <2>1. [i \in 1 .. 0 |-> i] \in [1 .. 0 -> 1 .. 0] /\ 1 .. 0 = {}
    OBVIOUS
  <2> QED
    BY <2>1
<1>2. ASSUME NEW k \in Nat, k \in good PROVE k + 1 \in good
  <2> k + 1 \in Nat
    OBVIOUS
  <2> SUFFICES ASSUME NEW g \in [1 .. k + 1 -> Nat]
               PROVE  \E p \in [1 .. k + 1 -> 1 .. k + 1] :
                          /\ \A i, j \in 1 .. k + 1 : p[i] = p[j] => i = j
                          /\ \A y \in 1 .. k + 1 : \E x \in 1 .. k + 1 : p[x] = y
                          /\ \A i, j \in 1 .. k + 1 : i < j => g[p[i]] <= g[p[j]]
    BY Zenon DEF good
  <2>1. PICK m \in 1 .. k + 1 : \A i \in 1 .. k + 1 : g[i] <= g[m]
    BY GreatestOf
  <2>2. PICK h \in [1 .. k -> Nat] :
            \A i \in 1 .. k : h[i] = IF i = m THEN g[k + 1] ELSE g[i]
    <3> DEFINE h == [i \in 1 .. k |-> IF i = m THEN g[k + 1] ELSE g[i]]
    <3>1. \A i \in 1 .. k : i \in 1 .. k + 1 /\ k + 1 \in 1 .. k + 1
      OBVIOUS
    <3>2. h \in [1 .. k -> Nat]
      BY <3>1
    <3>3. \A i \in 1 .. k : h[i] = IF i = m THEN g[k + 1] ELSE g[i]
      OBVIOUS
    <3> HIDE DEF h
    <3> QED
      BY <3>2, <3>3
  <2>3. PICK q \in [1 .. k -> 1 .. k] :
            /\ \A i, j \in 1 .. k : q[i] = q[j] => i = j
            /\ \A y \in 1 .. k : \E x \in 1 .. k : q[x] = y
            /\ \A i, j \in 1 .. k : i < j => h[q[i]] <= h[q[j]]
    BY <1>2, <2>2 DEF good
  <2>4. PICK p \in [1 .. k + 1 -> 1 .. k + 1] :
            /\ p[k + 1] = m
            /\ \A i \in 1 .. k : p[i] = IF q[i] = m THEN k + 1 ELSE q[i]
    <3> DEFINE p == [i \in 1 .. k + 1 |-> IF i = k + 1 THEN m
                                          ELSE IF q[i] = m THEN k + 1 ELSE q[i]]
    <3>1. \A i \in 1 .. k : i \in 1 .. k + 1 /\ i # k + 1 /\ q[i] \in 1 .. k + 1
      BY <2>3
    <3>2. \A i \in 1 .. k + 1 : (i \in 1 .. k \/ i = k + 1) /\ k + 1 \in 1 .. k + 1
      OBVIOUS
    <3>3. p \in [1 .. k + 1 -> 1 .. k + 1]
      <4>1. \A i \in 1 .. k + 1 : (IF i = k + 1 THEN m ELSE IF q[i] = m THEN k + 1 ELSE q[i])
                                        \in 1 .. k + 1
        BY Zenon, <3>1, <3>2
      <4> QED
        BY Zenon, <4>1
    <3>4. p[k + 1] = m /\ \A i \in 1 .. k : p[i] = IF q[i] = m THEN k + 1 ELSE q[i]
      BY <3>1, <3>2
    <3> HIDE DEF p
    <3> QED
      BY <3>3, <3>4
  <2>5. \A i \in 1 .. k : q[i] \in 1 .. k /\ q[i] # k + 1 /\ p[i] # m /\ p[i] \in 1 .. k + 1
    <3>1. \A i \in 1 .. k : i \in 1 .. k + 1 /\ i # k + 1
      OBVIOUS
    <3>2. \A i \in 1 .. k : q[i] \in 1 .. k /\ q[i] # k + 1 /\ p[i] \in 1 .. k + 1
      BY <3>1
    <3>3. ASSUME NEW i \in 1 .. k PROVE p[i] # m
      BY Zenon, <2>4, <3>2
    <3> QED
      BY Zenon, <3>2, <3>3
  <2>6. \A i \in 1 .. k + 1 : i \in 1 .. k \/ i = k + 1
    OBVIOUS
  <2>7. ASSUME NEW i \in 1 .. k + 1, NEW j \in 1 .. k + 1, p[i] = p[j] PROVE i = j
    <3>1. CASE i \in 1 .. k /\ j \in 1 .. k
      <4>1. q[i] = q[j]
        BY <2>4, <2>5, <2>7, <3>1
      <4> QED
        BY <2>3, <3>1, <4>1
    <3> QED
      BY Zenon, <2>4, <2>5, <2>6, <2>7, <3>1
  <2>8. ASSUME NEW y \in 1 .. k + 1 PROVE \E x \in 1 .. k + 1 : p[x] = y
    <3>1. CASE y = m
      BY <2>4, <3>1
    <3>2. CASE y # m /\ y = k + 1
      <4>1. m \in 1 .. k
        BY <2>6, <3>2
      <4>2. PICK x \in 1 .. k : q[x] = m
        BY <2>3, <4>1
      <4> QED
        BY <2>4, <3>2, <4>2
    <3>3. CASE y # m /\ y \in 1 .. k
      <4>1. PICK x \in 1 .. k : q[x] = y
        BY <2>3, <3>3
      <4> QED
        BY <2>4, <3>3, <4>1
    <3> QED
      BY Zenon, <2>6, <3>1, <3>2, <3>3
  <2>9. \A i \in 1 .. k : g[p[i]] = h[q[i]]
    BY <2>2, <2>4, <2>5
  <2>10. ASSUME NEW i \in 1 .. k + 1, NEW j \in 1 .. k + 1, i < j PROVE g[p[i]] <= g[p[j]]
    <3>1. i \in 1 .. k
      BY <2>10
    <3>2. CASE j \in 1 .. k
      <4>1. h[q[i]] <= h[q[j]]
        BY <2>3, <2>10, <3>1, <3>2
      <4> QED
        BY Zenon, <2>9, <3>1, <3>2, <4>1
    <3>3. CASE j = k + 1
      BY <2>1, <2>4, <2>5, <3>1, <3>3
    <3> QED
      BY <2>6, <3>2, <3>3
  <2> QED
    BY Zenon, <2>7, <2>8, <2>10
<1>3. Nat \subseteq good
  BY <1>1, <1>2, SetInduction
<1>4. PICK p \in [1 .. n -> 1 .. n] :
          /\ \A i, j \in 1 .. n : p[i] = p[j] => i = j
          /\ \A y \in 1 .. n : \E x \in 1 .. n : p[x] = y
          /\ \A i, j \in 1 .. n : i < j => f[p[i]] <= f[p[j]]
  BY <1>3 DEF good
<1>5. p \in Bijection(1 .. n, 1 .. n)
  BY <1>4 DEF Bijection, Injection, Surjection, IsInjective
<1> QED
  BY <1>4, <1>5
\* Every name has a place in the order, and no two names have the same.
LEMMA RankOfName ==
  ASSUME NEW name \in ToSet(Alphabetical)
  PROVE  Rank(name) \in Nat /\ Alphabetical[Rank(name)] = name
<1>1. PICK n \in DOMAIN Alphabetical : Alphabetical[n] = name
  BY DEF ToSet
<1>2. Rank(name) \in DOMAIN Alphabetical /\ Alphabetical[Rank(name)] = name
  BY <1>1 DEF Rank
<1>3. DOMAIN Alphabetical \subseteq Nat
  BY AlphabeticalAssumption, LenProperties
<1> QED
  BY <1>2, <1>3

\* Names as the command line or a run has them.
SomeNames == Seq(ToSet(Alphabetical))

\* What is required of the names once they are in order: the greatest is the first,
\* and the others do not decrease.
InOrder(names) ==
    \A i, j \in DOMAIN names :
        /\ Rank(names[i]) <= Rank(names[1])
        /\ 1 < i /\ i < j => Rank(names[i]) <= Rank(names[j])

\* Sorting keeps the number of the names and puts them in order.
LEMMA SortedNames ==
  ASSUME NEW names \in SomeNames
  PROVE  /\ Sorted(names) \in SomeNames /\ Len(Sorted(names)) = Len(names)
         /\ \A i, j \in 1 .. Len(names) :
                i < j => Rank(Sorted(names)[i]) <= Rank(Sorted(names)[j])
<1>1. PICK n \in Nat : n = Len(names) /\ DOMAIN names = 1 .. n
  BY LenProperties DEF SomeNames
<1>2. \A i \in 1 .. n : names[i] \in ToSet(Alphabetical)
  BY <1>1, ElementOfSeq DEF SomeNames
<1>3. PICK f \in [1 .. n -> Nat] : \A i \in 1 .. n : f[i] = Rank(names[i])
  <2> DEFINE f == [i \in 1 .. n |-> Rank(names[i])]
  <2>1. \A i \in 1 .. n : Rank(names[i]) \in Nat
    BY <1>2, RankOfName
  <2>2. f \in [1 .. n -> Nat]
    BY Zenon, <2>1
  <2>3. \A i \in 1 .. n : f[i] = Rank(names[i])
    OBVIOUS
  <2> HIDE DEF f
  <2> QED
    BY <2>2, <2>3
<1> DEFINE Sorts(p) == \A i, j \in DOMAIN names : i < j => Rank(names[p[i]]) <= Rank(names[p[j]])
           perm == CHOOSE p \in Bijection(DOMAIN names, DOMAIN names) : Sorts(p)
<1>4. \E p \in Bijection(DOMAIN names, DOMAIN names) : Sorts(p)
  <2>1. PICK p \in Bijection(1 .. n, 1 .. n) : \A i, j \in 1 .. n : i < j => f[p[i]] <= f[p[j]]
    BY SortingExists
  <2>2. p \in [1 .. n -> 1 .. n]
    BY <2>1 DEF Bijection, Injection
  <2>3. \A i \in 1 .. n : p[i] \in 1 .. n /\ f[p[i]] = Rank(names[p[i]])
    BY <1>3, <2>2
  <2>4. ASSUME NEW i \in 1 .. n, NEW j \in 1 .. n, i < j
        PROVE  Rank(names[p[i]]) <= Rank(names[p[j]])
    <3>1. f[p[i]] <= f[p[j]]
      BY Zenon, <2>1, <2>4
    <3> QED
      BY <2>3, <3>1
  <2>5. Sorts(p)
    BY Zenon, <1>1, <2>4
  <2> QED
    BY Zenon, <1>1, <2>1, <2>5
<1>5. perm \in Bijection(DOMAIN names, DOMAIN names) /\ Sorts(perm)
  BY Zenon, <1>4
<1>6. PICK p \in [1 .. n -> 1 .. n] :
          /\ Sorted(names) = [i \in 1 .. n |-> names[p[i]]]
          /\ \A i, j \in 1 .. n : i < j => Rank(names[p[i]]) <= Rank(names[p[j]])
  <2>1. Sorted(names) = [i \in 1 .. n |-> names[perm[i]]]
    BY Zenon, <1>1 DEF Sorted
  <2>2. perm \in [1 .. n -> 1 .. n]
    BY <1>1, <1>5 DEF Bijection, Injection
  <2>3. \A i, j \in 1 .. n : i < j => Rank(names[perm[i]]) <= Rank(names[perm[j]])
    BY Zenon, <1>1, <1>5
  <2> QED
    BY Zenon, <2>1, <2>2, <2>3
<1>7. \A i \in 1 .. n : p[i] \in 1 .. n /\ names[p[i]] \in ToSet(Alphabetical)
  BY <1>2, <1>6
<1>8. Sorted(names) \in SomeNames
  <2>1. \A i \in 1 .. n : Sorted(names)[i] \in ToSet(Alphabetical)
    BY <1>6, <1>7
  <2>2. Sorted(names) \in [1 .. n -> ToSet(Alphabetical)]
    BY Zenon, <1>6, <1>7
  <2> QED
    BY <2>2 DEF SomeNames
<1>9. Len(Sorted(names)) = n
  <2>1. DOMAIN Sorted(names) = 1 .. n
    BY <1>6
  <2>2. Len(Sorted(names)) \in Nat /\ DOMAIN Sorted(names) = 1 .. Len(Sorted(names))
    BY <1>8, LenProperties DEF SomeNames
  <2> QED
    BY <2>1, <2>2
<1>10. \A i \in 1 .. n : Sorted(names)[i] = names[p[i]]
  BY <1>6
<1>11. ASSUME NEW i \in 1 .. n, NEW j \in 1 .. n, i < j
       PROVE  Rank(Sorted(names)[i]) <= Rank(Sorted(names)[j])
  <2>1. Rank(names[p[i]]) <= Rank(names[p[j]])
    BY Zenon, <1>6, <1>11
  <2> QED
    BY <1>10, <2>1
<1> QED
  BY Zenon, <1>1, <1>8, <1>9, <1>11

\* Rotation makes the last name the first, and moves the others behind it.
LEMMA RotatedNames ==
  ASSUME NEW names \in SomeNames, NEW n \in Nat, n = Len(names), n > 0
  PROVE  /\ Rotated(names) \in SomeNames /\ Len(Rotated(names)) = n
         /\ Rotated(names)[1] = names[n]
         /\ \A i \in 2 .. n : Rotated(names)[i] = names[i - 1]
<1>1. \A i \in 1 .. n : names[i] \in ToSet(Alphabetical)
  BY ElementOfSeq DEF SomeNames
<1>2. PICK front \in SomeNames : front = Front(names)
  <2>1. \A i \in 1 .. n - 1 : names[i] \in ToSet(Alphabetical)
    BY <1>1
  <2>2. 1 \in Int /\ n - 1 \in Int
    OBVIOUS
  <2>3. SubSeq(names, 1, n - 1) \in SomeNames
    BY <2>1, <2>2, SubSeqProperties DEF SomeNames
  <2> QED
    BY <2>3 DEF Front
<1>3. Len(front) = n - 1 /\ \A i \in 1 .. n - 1 : front[i] = names[i]
  <2>1. \A i \in 1 .. n - 1 : names[i] \in ToSet(Alphabetical)
    BY <1>1
  <2>2. 1 \in Int /\ n - 1 \in Int
    OBVIOUS
  <2>3. front = SubSeq(names, 1, n - 1)
    BY <1>2 DEF Front
  <2>4. /\ Len(front) = IF 1 <= n - 1 THEN n - 1 - 1 + 1 ELSE 0
        /\ \A i \in 1 .. n - 1 - 1 + 1 : front[i] = names[1 + i - 1]
    BY <2>1, <2>2, <2>3, SubSeqProperties
  <2> QED
    BY <2>4
<1>4. PICK last \in ToSet(Alphabetical) : last = names[n]
  BY <1>1
<1>5. <<last>> \in SomeNames /\ Len(<<last>>) = 1
  BY <1>4 DEF SomeNames
<1>6. Rotated(names) = <<last>> \o front
  BY <1>2, <1>4 DEF Rotated, Last
<1>7. /\ <<last>> \o front \in SomeNames /\ Len(<<last>> \o front) = 1 + Len(front)
      /\ \A i \in 1 .. 1 + Len(front) :
             (<<last>> \o front)[i] = IF i <= 1 THEN <<last>>[i] ELSE front[i - 1]
  BY <1>2, <1>5, ConcatProperties DEF SomeNames
<1>8. \A i \in 1 .. n : Rotated(names)[i] = IF i <= 1 THEN <<last>>[i] ELSE front[i - 1]
  BY <1>3, <1>6, <1>7
<1>9. Rotated(names)[1] = last
  BY <1>8
<1>10. \A i \in 2 .. n : Rotated(names)[i] = names[i - 1]
  BY <1>3, <1>8
<1>11. Len(Rotated(names)) = n
  BY <1>3, <1>6, <1>7
<1> QED
  BY <1>4, <1>6, <1>7, <1>9, <1>10, <1>11

\* What ParseCLA makes of the names is in order.
LEMMA ParsedInOrder ==
  ASSUME NEW names \in SomeNames, names # << >>
  PROVE  Rotated(Sorted(names)) \in SomeNames /\ InOrder(Rotated(Sorted(names)))
<1>1. PICK s \in SomeNames : s = Sorted(names)
  BY SortedNames
<1>2. PICK n \in Nat : n = Len(names) /\ n > 0
  BY EmptySeq DEF SomeNames
<1>3. /\ Len(s) = n
      /\ \A i, j \in 1 .. n : i < j => Rank(s[i]) <= Rank(s[j])
  BY <1>1, <1>2, SortedNames
<1>4. PICK t \in SomeNames : t = Rotated(s)
  BY <1>1, <1>2, <1>3, RotatedNames
<1>5. Len(t) = n /\ t[1] = s[n] /\ \A i \in 2 .. n : t[i] = s[i - 1]
  BY <1>2, <1>3, <1>4, RotatedNames
<1>6. DOMAIN t = 1 .. n
  BY <1>5, LenProperties DEF SomeNames
<1>7. ASSUME NEW i \in 1 .. n PROVE Rank(t[i]) <= Rank(t[1])
  <2>1. CASE i = 1
    <3>1. t[1] \in ToSet(Alphabetical)
      BY <1>2, <1>5, ElementOfSeq DEF SomeNames
    <3>2. Rank(t[1]) \in Nat
      BY <3>1, RankOfName
    <3>3. \A a \in Nat : a <= a
      OBVIOUS
    <3> QED
      BY Zenon, <2>1, <3>2, <3>3
  <2>2. CASE i # 1
    <3>1. i - 1 \in 1 .. n /\ n \in 1 .. n /\ i - 1 < n /\ i \in 2 .. n
      BY <1>2, <2>2
    <3> QED
      BY Zenon, <1>3, <1>5, <3>1
  <2> QED
    BY <2>1, <2>2
<1>8. ASSUME NEW i \in 1 .. n, NEW j \in 1 .. n, 1 < i, i < j PROVE Rank(t[i]) <= Rank(t[j])
  <2>1. /\ i - 1 \in 1 .. n /\ j - 1 \in 1 .. n /\ i - 1 < j - 1
        /\ i \in 2 .. n /\ j \in 2 .. n
    BY <1>8
  <2> QED
    BY Zenon, <1>3, <1>5, <2>1
<1>9. InOrder(t)
  BY Zenon, <1>6, <1>7, <1>8 DEF InOrder
<1> QED
  BY <1>1, <1>4, <1>9

\* The files are mapped in the order that ParseCLA has given the names, from the first.
OrderInv ==
    /\ main = "parse" => options \in CommandLines
    /\ main \in {"parse", "table", "parameters", "returned"} => mapped_files = << >>
    /\ mapped_files # << >> => InOrder(options.input)
    /\ main = "map" => InOrder(options.input)
    /\ main \in {"table", "parameters"} => InOrder(options.input)
    /\ options.input \in SomeNames /\ mapped_files \in SomeNames
    /\ Len(mapped_files) <= Len(options.input)
    /\ \A n \in 1 .. Len(mapped_files) : mapped_files[n] = options.input[n]

\* Nothing is mapped at first.
LEMMA OrderInvInit == RunSortInit => OrderInv
<1> SUFFICES ASSUME RunSortInit PROVE OrderInv
  OBVIOUS
<1>1. main = "parse" /\ options \in CommandLines /\ mapped_files = << >>
  BY DEF RunSortInit
<1>2. options.input \in SomeNames
  BY <1>1, CommandLinesAssumption DEF SomeNames
<1>3. << >> \in SomeNames /\ Len(<< >>) = 0
  BY EmptySeq DEF SomeNames
<1>4. Len(options.input) \in Nat
  BY <1>2, LenProperties DEF SomeNames
<1>5. 1 .. 0 = {} /\ 0 <= Len(options.input)
  BY <1>4
<1> QED
  BY <1>1, <1>2, <1>3, <1>5 DEF OrderInv

\* Neither a task nor main, but for MapFile, maps a file.
LEMMA OthersMapNothing == Sort => UNCHANGED <<main, options, mapped_files>>
<1> SUFFICES ASSUME Sort PROVE UNCHANGED <<main, options, mapped_files>>
  OBVIOUS
<1>1. FrontEndNext /\ UNCHANGED <<main, options>>
  BY DEF Sort, mainVars
<1>2. CASE ReaderStep
  BY <1>1, <1>2 DEF ReaderStep, Run, Read, NextFile, AllFilesRead, ExitDone, readerVars
<1>3. CASE CalibratorStep
  BY <1>1, <1>3 DEF CalibratorStep, readerOnly, readerVars
<1>4. CASE TakeHit
  BY <1>1, <1>4 DEF TakeHit, readerOnly, readerVars
<1>5. CASE FinishReader
  BY <1>1, <1>5 DEF FinishReader, readerVars
<1>6. CASE FinishCalibrator
  BY <1>1, <1>6 DEF FinishCalibrator, readerOnly, readerVars
<1> QED
  BY <1>1, <1>2, <1>3, <1>4, <1>5, <1>6 DEF FrontEndNext

\* ParseCLA puts the names in order before a file is mapped, and MapFile maps the
\* next of them.
LEMMA OrderInvNext == OrderInv /\ [Next]_vars => OrderInv'
<1> SUFFICES ASSUME OrderInv, [Next]_vars PROVE OrderInv'
  OBVIOUS
<1>1. ASSUME UNCHANGED <<options, mapped_files>>,
             \/ main' = main
             \/ main = "table" /\ main' \in {"parameters", "returned", "terminated"}
             \/ main = "parameters" /\ main' = "map"
      PROVE  OrderInv'
  BY <1>1 DEF OrderInv
<1>2. CASE ParseCLA
  <2>1. /\ main = "parse" /\ Complete /\ main' = "table" /\ mapped_files' = mapped_files
        /\ options' = [options EXCEPT !.input = Rotated(Sorted(@))]
    BY <1>2 DEF ParseCLA, frontEndVars, readerOnly, readerVars
  <2>2. options \in CommandLines /\ mapped_files = << >>
    BY <2>1 DEF OrderInv
  <2>3. options'.input = Rotated(Sorted(options.input))
    BY <2>1, <2>2, CommandLinesAssumption
  <2>4. options.input \in SomeNames /\ options.input # << >>
    BY <2>1 DEF OrderInv, Complete
  <2>5. options'.input \in SomeNames /\ InOrder(options'.input)
    BY <2>3, <2>4, ParsedInOrder
  <2>6. Len(options'.input) \in Nat
    BY <2>5, LenProperties DEF SomeNames
  <2>7. << >> \in SomeNames /\ Len(<< >>) = 0
    BY EmptySeq DEF SomeNames
  <2>8. 1 .. 0 = {} /\ 0 <= Len(options'.input)
    BY <2>6
  <2> QED
    BY <2>1, <2>2, <2>5, <2>7, <2>8 DEF OrderInv
<1>3. CASE Refuse
  <2>1. CASE main = "parse"
    BY <1>3, <2>1 DEF Refuse, OrderInv, frontEndVars, readerOnly, readerVars
  <2> QED
    BY <1>1, <1>3, <2>1 DEF Refuse, frontEndVars, readerOnly, readerVars
<1>4. CASE ReadTable
  BY <1>1, <1>4 DEF ReadTable, frontEndVars, readerOnly, readerVars
<1>5. CASE ReadParameters
  BY <1>1, <1>5 DEF ReadParameters, frontEndVars, readerOnly, readerVars
<1>6. CASE MapFile
  <2>1. /\ main = "map" /\ main' = main /\ options' = options
        /\ mapped_files' = Append(mapped_files, NextName) /\ ~AllMapped
    BY <1>6 DEF MapFile, mainVars
  <2>2. /\ InOrder(options.input) /\ options.input \in SomeNames /\ mapped_files \in SomeNames
        /\ \A n \in 1 .. Len(mapped_files) : mapped_files[n] = options.input[n]
    BY <2>1 DEF OrderInv
  <2>3. PICK m \in Nat : m = Len(mapped_files) /\ m + 1 <= Len(options.input)
    <3>1. Len(mapped_files) \in Nat /\ Len(options.input) \in Nat
      BY <2>2, LenProperties DEF SomeNames
    <3>2. Len(mapped_files) <= Len(options.input) /\ Len(mapped_files) # Len(options.input)
      BY <2>1 DEF OrderInv, AllMapped
    <3>3. \A a, b \in Nat : a <= b /\ a # b => a + 1 <= b
      OBVIOUS
    <3> QED
      BY Zenon, <3>1, <3>2, <3>3
  <2>4. m + 1 \in 1 .. Len(options.input)
    <3>1. Len(options.input) \in Nat
      BY <2>2, LenProperties DEF SomeNames
    <3> QED
      BY <2>3, <3>1
  <2>5. PICK name \in ToSet(Alphabetical) : name = NextName /\ name = options.input[m + 1]
    BY <2>2, <2>3, <2>4, ElementOfSeq DEF SomeNames, NextName
  <2>6. /\ mapped_files' \in SomeNames /\ Len(mapped_files') = m + 1
        /\ \A i \in 1 .. m : mapped_files'[i] = mapped_files[i]
        /\ mapped_files'[m + 1] = name
    BY <2>1, <2>2, <2>3, <2>5, AppendProperties DEF SomeNames
  <2>7. \A i \in 1 .. m + 1 : i \in 1 .. m \/ i = m + 1
    OBVIOUS
  <2>8. \A n \in 1 .. Len(mapped_files') : mapped_files'[n] = options.input[n]
    BY Zenon, <2>2, <2>3, <2>5, <2>6, <2>7
  <2> QED
    BY <2>1, <2>2, <2>3, <2>6, <2>8 DEF OrderInv
<1>7. CASE Terminate
  BY <1>7 DEF Terminate, OrderInv, frontEndVars, readerOnly, readerVars
<1>8. CASE StartTasks
  BY <1>8 DEF StartTasks, OrderInv, frontEndVars, readerOnly, readerVars
<1>9. CASE Sort
  BY <1>1, <1>9, OthersMapNothing
<1>10. CASE UNCHANGED vars
  BY <1>1, <1>10 DEF vars, mainVars, frontEndVars, readerOnly, readerVars
<1> QED
  BY <1>2, <1>3, <1>4, <1>5, <1>6, <1>7, <1>8, <1>9, <1>10 DEF Next, Ended

\* The ranks of the files of a run tell which of those given is the first and in which
\* order the others come.
LEMMA RanksOfARun ==
  ASSUME NEW run \in Runs
  PROVE  /\ \A i \in GivenOf(run) : i \in Nat /\ Rank(run[i]) \in Nat
         /\ \A i, j \in GivenOf(run) : i # j /\ First(run, i) => Rank(run[j]) < Rank(run[i])
         /\ \A i, j \in GivenOf(run) :
                i < j /\ ~First(run, i) /\ ~First(run, j) => Rank(run[i]) < Rank(run[j])
         /\ \A j \in GivenOf(run) :
                ~First(run, j) => \E i \in GivenOf(run) : Rank(run[j]) < Rank(run[i])
<1>1. run \in SomeNames /\ DOMAIN run = 1 .. Len(run) /\ Len(run) \in Nat
  BY RunsAssumption, LenProperties DEF RunsOK, SomeNames
<1>2. \A i \in GivenOf(run) : i \in DOMAIN run /\ i \in Nat /\ i >= 1
  BY <1>1 DEF GivenOf
<1>3. \A i \in GivenOf(run) : Rank(run[i]) \in Nat
  <2>1. \A i \in GivenOf(run) : run[i] \in ToSet(Alphabetical)
    BY <1>1, <1>2, ElementOfSeq DEF SomeNames
  <2> QED
    BY <2>1, RankOfName
<1>4. \A i, j \in GivenOf(run) :
          i < j /\ ~(i = 1 /\ Unnumbered(run)) => Rank(run[i]) < Rank(run[j])
  BY Zenon, <1>2, RunsAssumption DEF RunsOK
<1>5. CASE Unnumbered(run) /\ 1 \in GivenOf(run)
  <2>1. \A i \in GivenOf(run) : First(run, i) <=> i = 1
    BY <1>5 DEF First
  <2>2. \A j \in GivenOf(run) : j # 1 => Rank(run[j]) < Rank(run[1])
    BY <1>2, <1>5 DEF Unnumbered
  <2> QED
    BY Zenon, <1>2, <1>3, <1>4, <1>5, <2>1, <2>2
<1>6. CASE ~(Unnumbered(run) /\ 1 \in GivenOf(run))
  <2>1. \A i \in GivenOf(run) : First(run, i) <=> \A j \in GivenOf(run) : j <= i
    BY <1>6 DEF First
  <2>2. \A i, j \in GivenOf(run) : i < j => Rank(run[i]) < Rank(run[j])
    BY Zenon, <1>4, <1>6
  <2>3. \A i, j \in Nat : ~(j <= i) => i < j
    OBVIOUS
  <2>4. \A i, j \in Nat : i # j /\ j <= i => j < i
    OBVIOUS
  <2>5. \A j \in GivenOf(run) :
            ~First(run, j) => \E i \in GivenOf(run) : Rank(run[j]) < Rank(run[i])
    BY Zenon, <1>2, <2>1, <2>2, <2>3
  <2> QED
    BY Zenon, <1>2, <1>3, <2>1, <2>2, <2>4, <2>5
<1> QED
  BY Zenon, <1>5, <1>6

\* Of the files of a run that are given, in whatever order the command line has them, the
\* first to be read is the one without a number, or else the one recorded last; the
\* others follow in the order in which they were recorded.
THEOREM OrderCorrect == Spec => []LastNameIsReadFirst
<1>1. OrderInv => LastNameIsReadFirst
  <2> DEFINE input == options.input
  <2> SUFFICES ASSUME OrderInv, NEW run \in Runs, ToSet(input) \subseteq ToSet(run),
                      NEW n \in DOMAIN mapped_files,
                      NEW i \in GivenOf(run), NEW j \in GivenOf(run),
                      Before(run, i, j), run[j] = mapped_files[n]
               PROVE  \E k \in 1 .. n - 1 : mapped_files[k] = run[i]
    BY Zenon DEF LastNameIsReadFirst
  <2>1. PICK mapped \in Nat, given \in Nat :
            /\ mapped = Len(mapped_files) /\ given = Len(input) /\ mapped <= given
            /\ DOMAIN mapped_files = 1 .. mapped /\ DOMAIN input = 1 .. given
    BY LenProperties DEF OrderInv, SomeNames
  <2>2. n \in 1 .. mapped /\ n \in 1 .. given /\ 1 \in 1 .. given
    BY <2>1
  <2>3. InOrder(input) /\ mapped_files[n] = input[n]
    <3>1. mapped_files # << >>
      BY <2>1, <2>2
    <3> QED
      BY <2>1, <2>2, <3>1 DEF OrderInv
  <2>4. /\ \A a, b \in Nat : a <= b => ~(b < a)
        /\ \A a, b \in Nat : a < b => ~(b < a)
        /\ \A a \in Nat : ~(a < a)
    OBVIOUS
  <2>5. PICK m \in 1 .. given : input[m] = run[i]
    BY <2>1 DEF GivenOf, ToSet
  <2>6. \A a \in GivenOf(run) : Rank(run[a]) <= Rank(input[1])
    <3>1. ASSUME NEW a \in GivenOf(run)
          PROVE  \E f \in 1 .. given : input[f] = run[a]
      BY <2>1 DEF GivenOf, ToSet
    <3> QED
      BY Zenon, <2>1, <2>2, <2>3, <3>1 DEF InOrder
  <2>7. PICK l \in GivenOf(run) : input[1] = run[l]
    <3>1. input[1] \in ToSet(input)
      BY Zenon, <2>1, <2>2 DEF ToSet
    <3>2. PICK l \in DOMAIN run : input[1] = run[l]
      BY Zenon, <3>1 DEF ToSet
    <3> QED
      BY Zenon, <3>1, <3>2 DEF GivenOf
  <2>8. First(run, l)
    BY Zenon, <2>4, <2>6, <2>7, RanksOfARun
  <2>9. ~First(run, j) /\ Rank(run[j]) < Rank(run[l])
    <3>1. ~First(run, j)
      <4>1. CASE i # j /\ First(run, i)
        BY Zenon, <4>1, <2>4, RanksOfARun
      <4> QED
        BY <4>1 DEF Before
    <3> QED
      BY Zenon, <2>8, <3>1, RanksOfARun
  <2>10. n # 1
    <3> SUFFICES ASSUME n = 1 PROVE FALSE
      OBVIOUS
    <3>1. run[j] = run[l]
      BY <2>3, <2>7
    <3>2. Rank(run[l]) < Rank(run[l])
      BY <2>9, <3>1
    <3> QED
      BY Zenon, <2>4, <3>2, RanksOfARun
  <2>11. CASE First(run, i)
    <3>1. i = l
      BY Zenon, <2>4, <2>8, <2>11, RanksOfARun
    <3>2. 1 \in 1 .. n - 1 /\ 1 \in 1 .. mapped
      BY <2>1, <2>2, <2>10
    <3> QED
      BY <2>1, <2>7, <3>1, <3>2 DEF OrderInv
  <2>12. CASE ~First(run, i)
    <3>1. Rank(run[i]) < Rank(run[j])
      BY Zenon, <2>9, <2>12, RanksOfARun DEF Before
    <3>2. m # n
      BY Zenon, <2>3, <2>4, <2>5, <3>1, RanksOfARun
    <3>3. ~(n < m)
      <4> SUFFICES ASSUME n < m PROVE FALSE
        OBVIOUS
      <4>1. 1 < n
        BY <2>2, <2>10
      <4>2. Rank(run[j]) <= Rank(run[i])
        BY Zenon, <2>1, <2>2, <2>3, <2>5, <4>1 DEF InOrder
      <4> QED
        BY Zenon, <2>4, <3>1, <4>2, RanksOfARun
    <3>4. m \in 1 .. n - 1 /\ m \in 1 .. mapped
      BY <2>1, <2>2, <3>2, <3>3
    <3> QED
      BY <2>1, <2>5, <3>4 DEF OrderInv
  <2> QED
    BY <2>11, <2>12
<1> QED
  BY OrderInvInit, OrderInvNext, <1>1, PTL DEF Spec
=============================================================================
