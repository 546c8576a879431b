------------------------------ MODULE Pipeline ------------------------------
(***************************************************************************)
(* RunSort of main.cpp: the six tasks, each reading the output queue of    *)
(* the one before it, their threads, ThreadPool::Wait() on the main thread *)
(* and the output that is written when it has returned.                    *)
(*                                                                         *)
(* The tasks are instances of their modules.  The items a task has pushed  *)
(* are the input of the next one, and the items the next one has counted   *)
(* are those taken from the queue.                                         *)
(***************************************************************************)
EXTENDS Integers, FiniteSets, SequencesExt

CONSTANTS Files, Inputs,                 \* the list mode files, and the lists of them to sort
          dinfo, Entries, TimeWord,      \* the detector table, as RunSort has read it
          Capacity, Size,                \* of the queues and of the buffer
          Gap, CoincidenceTime, DeadTime, \* in ns
          SortTypes, Triggers, WithTree, \* the options the user may give
          Records                        \* bound: the most records a list of files has

ASSUME QueueAssumption == Capacity \in Nat \ {0} /\ Size \in Nat /\ Records \in Nat
ASSUME TimesAssumption == Gap \in Nat /\ CoincidenceTime \in Nat /\ DeadTime \in Nat
ASSUME OptionsAssumption ==
    SortTypes \subseteq {"coincidence", "time", "gap"} /\ WithTree \subseteq BOOLEAN

VARIABLES reader_pc, reader_done, reader_count, reader_pending, reader_output,
          mapped_files, fno, pos
VARIABLES calibrator_pc, calibrator_done, calibrator_count, calibrator_pending,
          calibrator_output, crashed
VARIABLES buffer_pc, buffer_done, buffer_count, buffer_pending, buffer_output, buffer
VARIABLES splitter_pc, splitter_done, splitter_count, splitter_pending,
          splitter_output, entries
VARIABLES trigger_pc, trigger_done, trigger_count, trigger_pending, trigger_output,
          sort_type, trigger
VARIABLES sorter_pc, sorter_done, sorter_count, userSort, spectra, chargeIntegrator,
          tree, tree_events
VARIABLES main, next,   \* the statement of the main thread, and the task it is at
          written,      \* the histograms in the output file, << >> before
          metadata      \* the counters in the output file, << >> before

readerVars == <<reader_pc, reader_done, reader_count, reader_pending, reader_output,
                mapped_files, fno, pos>>
calibratorVars == <<calibrator_pc, calibrator_done, calibrator_count,
                    calibrator_pending, calibrator_output, crashed>>
bufferVars == <<buffer_pc, buffer_done, buffer_count, buffer_pending, buffer_output,
                buffer>>
splitterVars == <<splitter_pc, splitter_done, splitter_count, splitter_pending,
                  splitter_output, entries>>
triggerVars == <<trigger_pc, trigger_done, trigger_count, trigger_pending,
                 trigger_output, sort_type, trigger>>
sorterVars == <<sorter_pc, sorter_done, sorter_count, userSort, spectra,
                chargeIntegrator, tree, tree_events>>
mainVars == <<main, next, written, metadata>>
vars == <<readerVars, calibratorVars, bufferVars, splitterVars, triggerVars,
          sorterVars, mainVars>>
-----------------------------------------------------------------------------
(***************************************************************************)
(* The tasks                                                               *)
(***************************************************************************)
Reader == INSTANCE XIAReader WITH
    pc <- reader_pc, done <- reader_done, entries_processed <- reader_count,
    pending <- reader_pending, output <- reader_output, taken <- calibrator_count

raw == Reader!RecordAt

Table == INSTANCE DetectorTable

Calibrator == INSTANCE Calibrator WITH
    raw <- raw,
    pc <- calibrator_pc, done <- calibrator_done, entries_processed <- calibrator_count,
    input <- reader_output, pending <- calibrator_pending, output <- calibrator_output,
    taken <- buffer_count

Buffer == INSTANCE Buffer WITH
    pc <- buffer_pc, done <- buffer_done, entries_processed <- buffer_count,
    input <- calibrator_output, pending <- buffer_pending, output <- buffer_output,
    taken <- splitter_count

Ns == 16384   \* one ns in the unit of the times of hits

Splitter == INSTANCE Splitter WITH
    Gap <- Gap * Ns,
    pc <- splitter_pc, done <- splitter_done, entries_processed <- splitter_count,
    input <- buffer_output, pending <- splitter_pending, output <- splitter_output,
    taken <- trigger_count

Trigger == INSTANCE Trigger WITH
    CoincidenceTime <- CoincidenceTime * Ns, DeadTime <- DeadTime * Ns,
    pc <- trigger_pc, done <- trigger_done, entries_processed <- trigger_count,
    input <- splitter_output, pending <- trigger_pending, output <- trigger_output,
    taken <- sorter_count

Sorter == INSTANCE Sorter WITH
    pc <- sorter_pc, done <- sorter_done, entries_processed <- sorter_count,
    input <- trigger_output

\* The files are as the digitiser wrote them, with numbers in the headers and in the
\* table, and the lists name some of them, none of them twice.
ASSUME FilesAssumption == Reader!FilesOK
ASSUME InputsAssumption ==
    \A names \in Inputs : /\ names \in Seq(ToSet(names)) /\ ToSet(names) \subseteq DOMAIN Files
                          /\ IsInjective(names)
                          /\ Reader!RecordsOf(names) <= Records
ASSUME RecordsAssumption ==
    \A p \in Reader!Pointers :
        LET xia == Reader!RecordAt[p]
        IN  {xia.crateID, xia.slotID, xia.chanID, xia.event_time_high, xia.event_time_low,
             xia.cfd_result} \subseteq Nat
ASSUME TableAssumption ==
    /\ TimeWord \in Nat
    /\ \A c \in DOMAIN dinfo : {dinfo[c].timestamp_shift, dinfo[c].cfd_shift} \subseteq Int

Init == /\ mapped_files \in Inputs
        /\ Reader!Init /\ Calibrator!Init /\ Buffer!Init /\ Splitter!Init
        /\ Trigger!Init /\ Sorter!Init
        /\ main = "add" /\ next = 1
        /\ written = << >> /\ metadata = << >>

\* AddTask has started the thread of the i-th task, and no exception was thrown.
Runs(i) == ~crashed /\ (main = "add" => i < next)

ReaderStep ==
    /\ Runs(1) /\ Reader!Run
    /\ UNCHANGED <<calibratorVars, bufferVars, splitterVars, triggerVars, sorterVars, mainVars>>
CalibratorStep ==
    /\ Runs(2) /\ Calibrator!Run
    /\ UNCHANGED <<readerVars, bufferVars, splitterVars, triggerVars, sorterVars, mainVars>>
BufferStep ==
    /\ Runs(3) /\ Buffer!Run
    /\ UNCHANGED <<readerVars, calibratorVars, splitterVars, triggerVars, sorterVars, mainVars>>
SplitterStep ==
    /\ Runs(4) /\ Splitter!Run
    /\ UNCHANGED <<readerVars, calibratorVars, bufferVars, triggerVars, sorterVars, mainVars>>
TriggerStep ==
    /\ Runs(5) /\ Trigger!Run
    /\ UNCHANGED <<readerVars, calibratorVars, bufferVars, splitterVars, sorterVars, mainVars>>
SorterStep ==
    /\ Runs(6) /\ Sorter!Run
    /\ UNCHANGED <<readerVars, calibratorVars, bufferVars, splitterVars, triggerVars, mainVars>>
-----------------------------------------------------------------------------
(***************************************************************************)
(* The main thread                                                         *)
(***************************************************************************)
N == 6
pc == <<reader_pc, calibrator_pc, buffer_pc, splitter_pc, trigger_pc, sorter_pc>>
entries_processed == <<reader_count, calibrator_count, buffer_count, splitter_count,
                       trigger_count, sorter_count>>

tasksUnchanged == UNCHANGED <<readerVars, calibratorVars, bufferVars, splitterVars,
                              triggerVars, sorterVars>>

AddTask ==
    /\ main = "add"
    /\ IF next < N THEN next' = next + 1 /\ UNCHANGED main
                   ELSE next' = 1 /\ main' = "join_source"
    /\ UNCHANGED <<written, metadata>> /\ tasksUnchanged

JoinSource ==
    /\ main = "join_source" /\ reader_pc = "exited"
    /\ main' = "finish"
    /\ UNCHANGED <<next, written, metadata>> /\ tasksUnchanged

\* tasks[next]->Finish()
FinishNext ==
    /\ main = "finish"
    /\ main' = "join"
    /\ reader_done' = (reader_done \/ next = 1)
    /\ calibrator_done' = (calibrator_done \/ next = 2)
    /\ buffer_done' = (buffer_done \/ next = 3)
    /\ splitter_done' = (splitter_done \/ next = 4)
    /\ trigger_done' = (trigger_done \/ next = 5)
    /\ sorter_done' = (sorter_done \/ next = 6)
    /\ UNCHANGED <<next, written, metadata>>
    /\ UNCHANGED <<reader_pc, reader_count, reader_pending, reader_output,
                   mapped_files, fno, pos>>
    /\ UNCHANGED <<calibrator_pc, calibrator_count, calibrator_pending,
                   calibrator_output, crashed>>
    /\ UNCHANGED <<buffer_pc, buffer_count, buffer_pending, buffer_output, buffer>>
    /\ UNCHANGED <<splitter_pc, splitter_count, splitter_pending, splitter_output, entries>>
    /\ UNCHANGED <<trigger_pc, trigger_count, trigger_pending, trigger_output,
                   sort_type, trigger>>
    /\ UNCHANGED <<sorter_pc, sorter_count, userSort, spectra, chargeIntegrator,
                   tree, tree_events>>

\* Seeded fault: Wait() does not join the last task.
JoinAllButLast ==
    /\ main = "join" /\ (next < N => pc[next] = "exited")
    /\ IF next < N THEN next' = next + 1 /\ main' = "finish"
                   ELSE next' = next /\ main' = "returned"
    /\ UNCHANGED <<written, metadata>> /\ tasksUnchanged

JoinNext ==
    /\ main = "join" /\ pc[next] = "exited"
    /\ IF next < N THEN next' = next + 1 /\ main' = "finish"
                   ELSE next' = next /\ main' = "returned"
    /\ UNCHANGED <<written, metadata>> /\ tasksUnchanged

\* RootWriter::Write, with "UPDATE" when there is a tree in the file
WriteHistograms ==
    /\ main = "returned"
    /\ main' = "written"
    /\ written' = [userSort |-> userSort, spectra |-> spectra,
                   chargeIntegrator |-> chargeIntegrator, tree |-> tree]
    /\ UNCHANGED <<next, metadata>> /\ tasksUnchanged

\* MetadataWriter with the counters of ThreadPool::GetProcessedData
WriteMetadata ==
    /\ main = "written"
    /\ main' = "end"
    /\ metadata' = [RawEntries |-> reader_count,
                    DroppedEvents |-> buffer_count - calibrator_count,
                    EventsFound |-> trigger_count,
                    TriggeredEvents |-> sorter_count]
    /\ UNCHANGED <<next, written>> /\ tasksUnchanged

MainStep ==
    /\ ~crashed
    /\ AddTask \/ JoinSource \/ FinishNext \/ JoinNext \/ WriteHistograms \/ WriteMetadata

\* Not a deadlock: the program has ended.
Terminated == (main = "end" \/ crashed) /\ UNCHANGED vars

Next == \/ ReaderStep \/ CalibratorStep \/ BufferStep
        \/ SplitterStep \/ TriggerStep \/ SorterStep
        \/ MainStep \/ Terminated

Spec == Init /\ [][Next]_vars

\* Every thread is scheduled.
FairSpec == /\ Spec
            /\ WF_vars(ReaderStep) /\ WF_vars(CalibratorStep) /\ WF_vars(BufferStep)
            /\ WF_vars(SplitterStep) /\ WF_vars(TriggerStep) /\ WF_vars(SorterStep)
            /\ WF_vars(MainStep)
-----------------------------------------------------------------------------
(***************************************************************************)
(* The threads and queues are those of ThreadPool                          *)
(***************************************************************************)
poolPc == [i \in 1 .. N |-> IF main = "add" /\ i >= next THEN "new" ELSE pc[i]]
done == <<reader_done, calibrator_done, buffer_done, splitter_done, trigger_done,
          sorter_done>>
owed == <<Len(reader_pending), Len(calibrator_pending), Len(buffer_pending),
          Len(splitter_pending), Len(trigger_pending), 0>>
queue == <<Len(reader_output) - calibrator_count, Len(calibrator_output) - buffer_count,
           Len(buffer_output) - splitter_count, Len(splitter_output) - trigger_count,
           Len(trigger_output) - sorter_count>>
pushed == <<Len(reader_output), Len(calibrator_output), Len(buffer_output),
            Len(splitter_output), Len(trigger_output)>>
remaining == Reader!RecordsOfAllFiles - reader_count
poolMain == IF main \in {"written", "end"} THEN "returned" ELSE main

Pool == INSTANCE ThreadPool WITH
    MaxEmit <- Records, MaxDrain <- Size, Drivers <- {"Wait"}, Throwing <- {2},
    pc <- poolPc, main <- poolMain, driver <- "Wait"

\* The six tasks with their real states and items behave as the pool of threads
\* of ThreadPool does: what is proved of the pool holds for the program.
ImplementsThreadPool == Pool!Spec
-----------------------------------------------------------------------------
(***************************************************************************)
(* Properties                                                              *)
(***************************************************************************)
\* The hits of the complete records of the channels in use.
HitsOf(names) ==
    FoldLeft(LAMBDA hits, p : IF Table!keep(p) THEN Append(hits, Table!Calibrated(p))
                                                    ELSE hits,
             << >>, Reader!CompleteRecordsOf(names))
HitsOfFiles == [names \in Inputs |-> HitsOf(names)]

\* For each list of files and each number of hits the clusters of that many hits in
\* order of time, whichever comes first of two at the same time.
ClustersOfFiles ==
    [names \in Inputs |-> [n \in 0 .. Len(HitsOfFiles[names]) |->
        LET hits == ToSet(SubSeq(HitsOfFiles[names], 1, n))
        IN  {Splitter!ClosedClusters(order) : order \in Buffer!Orders(hits)}]]

EventsOf(clusters) == FlattenSeq([n \in DOMAIN clusters |-> Trigger!Events(clusters[n])])

\* The hits that have come as far as the buffer: of those of the files the first ones.
Came == SubSeq(HitsOfFiles[mapped_files], 1, buffer_count)

\* No hit comes after more than Size later ones: the disorder the buffer can undo.
DisorderWithinSize(hits) ==
    \A i \in DOMAIN hits : Cardinality({j \in 1 .. i - 1 : hits[i].t < hits[j].t}) <= Size

\* When their disorder is within the size of the buffer, the events analysed are the
\* first ones of those that the hits that came hold in order of time, each of them
\* whole, whatever six tasks, a reordering buffer and a shutdown that leaves items
\* behind in five queues do.  A hit that is left behind in the queue of the buffer is
\* missing from its event, although the buffer would have put it in its place.
AnalysedEventsAreAPrefix ==
    DisorderWithinSize(Came) =>
        \E clusters \in ClustersOfFiles[mapped_files][buffer_count] :
            IsPrefix(userSort, EventsOf(clusters))

\* What main writes is final, and agrees with itself: all tasks have exited, the
\* file of the tree has been closed before it is opened for the histograms, the
\* histograms have the events of the tree, and the number of triggered events
\* is the number of events in them.
OutputIsConsistent ==
    /\ written # << >> =>
         /\ written.userSort = userSort /\ written.spectra = spectra
         /\ written.chargeIntegrator = chargeIntegrator
         /\ written.tree # "open"
         /\ written.tree = "closed" => tree_events = written.userSort
    /\ metadata # << >> =>
         /\ metadata.RawEntries = Reader!RecordsOfAllFiles
         /\ metadata.TriggeredEvents = Len(written.userSort)

\* The sort ends, unless a record of an unknown channel has ended the process.
SortEnds == <>(main = "end" \/ crashed)
=============================================================================
