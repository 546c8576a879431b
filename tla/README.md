# XIA2tree in TLA+

XIA2tree sorts the list mode files of XIA Pixie-16 digitisers: it reads raw records,
calibrates them, orders them in time, groups them into events and fills ROOT histograms
and, on request, a ROOT tree. `RunSort` in `main.cpp` does this with six tasks, each in
a thread of its own, joined into a chain by lock-free bounded queues; the main thread
starts them, waits for the first to come to the end of its files, tells the others to
finish one by one, and then writes the output.

This directory holds the specifications of that program, the configurations with which
TLC checks them, and proofs that TLAPS checks. Paths below are relative to the root of
the repository.

    tlc -config MCThreadPool.cfg MCThreadPool       # any run: MC module and cfg
    tlapm SPSCQueueProofs.tla                       # and ThreadPoolProofs, SequenceLemmas,
                                                    # GroupingProofs, AnalysisProofs,
                                                    # XIAReaderProofs, RunSortProofs,
                                                    # PipelineProofs (half an hour)

`PROJECT.json` lists the components, the runs, for every definition the lines it models,
for every property a seeded fault that breaks it, the hazards of the code with the
properties that cover them, and the theorems.

## 1. Inventory

First `main` reads the command line and `RunSort` the configuration and the files; then
the chain, from left to right; `=>` is a queue:

    XIAReader => Calibrator => Buffer => Splitter => Trigger => Sorter
                             main: ThreadPool::Wait(), RootWriter, MetadataWriter

| Component | State | Operations | What makes it correct |
|---|---|---|---|
| `SPSCBlockingQueue` (`include/Tasks/SPSCQueue.h`) | ring of slots, atomics `head_`, `tail_`, `is_finish`; caches `head_cache_`, `tail_cache_` of the two threads | `push`, `pop`, `try_pop`, `wait_and_pop` with and without timeout, `mark_as_finish`, `empty` | a bounded FIFO; no slot written while it is read; no thread asleep on a value that has changed; a timed wait ends |
| `Base`, `ThreadPool` (`Task.h`, `ThreadPool.hpp`) | atomic `done`, plain `is_done`, `entries_processed` of each task; the list of threads, source first | `AddTask`, `Wait`, `DoEnd`, `GetProcessedData`; `Finish`, `ConstructThread` | nobody waits for a consumer that has gone; counters are read when they are final; an exception is recorded |
| `main`, `RunSort`, `CommandLineInterface` | the options | `ParseCLA`, the order of the files, the readings, the start of the tasks | which file of a run is read first, in whatever order they are given; nothing starts with half of what it needs |
| `ConfigManager`, `UserConfiguration` | the detector table, the analysis parameters | the two `FromFile`, `convert_array` | a hit has the configuration of its channel; the parameters have one source |
| `XIAReader`, `MemoryMap` | mapped files, position of the scan | map a file, one turn of the scan, next file, end | each complete record once, in order; nothing but headers is read as a header |
| `Calibrator`, `xiaformat.h`, `XIA_CFD` | the detector table, constant by then | `keep`, `operator()`, the decoding of the CFD word, the place of the sums and the trace | the hits of the channels in use, on one axis of time, from inside their records |
| `Buffer` | priority queue of at most `size` hits | insert and emit the earliest; drain at the end | no hit lost or doubled; order restored within `size` |
| `Splitter` | the cluster being collected | add a hit, or push the cluster and begin the next | clusters partition the hits, cut at every gap |
| `Trigger` | the kind of sort and the trigger type (constant) | the events of a cluster, in three ways | an event holds the hits within the coincidence time, its index points at its trigger, the dead time is that of an accepted trigger |
| `Sorter`, plugin | what it holds of the others | fill with an event; close the file at the end | spectra and tree get the right events; the file is closed before main opens it again |
| `HistManager` (`Sort.cpp`) | the histograms | `AddEntry` | what is behind a gate comes from an unambiguous particle; no gamma is counted twice; all hits but the trigger are timed |
| `TTreeManager` | the members the branches point at | `Fill` | a row has its own event and nothing older |
| `UserSortManager`, `DynamicLibrary` | the object of the plugin, or none | load, `FillEvent` | a missing plugin ends nothing |
| `ParticleCoincidenceSort`, `Co60_coincidence_sort`, `TimingInvestigation` | their histograms; the last dE hit; a range of their own | `FillEvent` | what one histogram has of an event agrees with what the others have |
| `ThreadPool`, `RootWriter`, `MetadataWriter` as `RunSort` uses them | the output file | start, wait, write | what is written is final and agrees with itself |
| `Triggered_event` (`event.cpp`) | index of the hits by type and telescope | construct, `GetDetector`, `GetRing`, `GetTrap` | each range has all hits of its type or telescope and no other |
| `ParticleRange` | the interpolated ranges | `Read`, `GetRange` | the range grows with the energy and agrees with the file |
| `SPMCQueue` | ring with several consumers | `push`, `pop` | no task uses it; not modelled |
| progress bars, system information, `FileInspector` | | | output only; not modelled |

Shared between threads are the queues, the flags `done` (written by main, read by the
task) and, unprotected, the counters (written by a task, read by main). Everything else
belongs to one thread.

The behaviours that are hard to test are these; `PROJECT.json` gives each its line and
its properties.

* Two threads at the atomics of a queue, with cached copies of the other side's cursor
  and with `std::atomic::wait` on values that may change between the load and the wait.
* The shutdown: who is told to finish when, while queues are full and tasks are still
  holding items, and what is left in the queues.
* An exception in one task while five run.
* Disorder: hits arrive out of order and are put in order only within the size of the
  buffer, and each later task takes the order for granted.
* Input that is half right: a configuration with lists missing, too short or too long, a
  channel number that is the address of another channel, a file that is empty or not
  there, and the order of files that a shell does not give in the order of the run.
* Boundaries: cut-off records, channels beyond the table, the sign of the CFD
  correction, distances of exactly the gap, the coincidence time or the dead time, the
  index of a trigger relative to its window.
* State that outlives an event: the members behind the branches of the tree, and what
  the plugins remember.
* Histograms of one event filled in many places, behind nested conditions and returns.
* Output opened twice: the tree is written by the thread of the sorter, the histograms
  afterwards by main, in the same file.

## 2. Modules

    BoundedFifo   <-implements-  SPSCQueue    (MCSPSCQueue, SPSCQueueProofs)
    ThreadPool    <-implements-  Pipeline     (MCThreadPool, ThreadPoolProofs; MCPipeline,
                                               PipelineProofs)

    Task <- TaskInput, TaskOutput             the loop and the queues all tasks share
    TaskOutput <- XIAReader
    TaskInput, TaskOutput <- Calibrator (with DetectorTable), Buffer, Splitter, Trigger
    DetectorTable = ConfigManager as the calibrator uses it, with XIA_CFD and xiaformat
    TaskInput <- Sorter

    FrontEnd = XIAReader + Calibrator
    RunSort = main + ConfigManager + FrontEnd (MCFrontEnd, RunSortProofs)
    Grouping = Buffer + Splitter              (MCGrouping, GroupingProofs)
    Analysis = Trigger + Sorter               (MCAnalysis, AnalysisProofs)
    HistManager = TriggeredEvent + ParticleRange + the histograms
    UserSort = HistManager with ParticleCoincidenceSort, Co60_coincidence_sort or
               TimingInvestigation, or no plugin
    EventOutput = UserSort + TTreeManager     (MCEventOutput)
    Pipeline = all six + the main thread      (MCPipeline)

    SequenceLemmas: facts about sequences and folds, which all proofs but those of the
    queue and of the pool rest on
    XIAReaderProofs <- RunSortProofs, PipelineProofs        the scan, proved once
    ThreadPoolProofs <- PipelineProofs

The layers rest on each other. `SPSCQueue` shows at the grain of single atomic accesses
that a queue is a `BoundedFifo`. The modules above use queues as `BoundedFifo` has them:
a history of all items pushed and the number of those popped, which is the consumer's
`entries_processed` because every task counts an entry right after a successful pop.
`ThreadPool` has the threads with all data removed; `Pipeline` has the six tasks with
their data and is checked and proved to implement `ThreadPool`, so that what is proved
of the pool for every length of chain, capacity and number of records holds for the
program.

### SPSCQueue, BoundedFifo

One action per atomic access. The producer: `PushCall` (load of its own cursor and the
test against `head_cache_`), `PushLoad` (load of `head_`), `PushWait` (`head_.wait`),
`PushWrite` (the slot), `PushStore` (`tail_`), `PushNotify`; then `MarkAsFinish` and
`FinishNotify`. The consumer: `Call` chooses an operation, then `PopLoad`,
`CheckFinish`, `DeadlinePassed`, `SleepSlice`, `PopWait`, `PopTake`, `PopStore`,
`PopNotify`. Acquire loads and release stores of one writer per variable are taken as
sequentially consistent: each cursor has one writer and the plain data are ordered by
its release and acquire. Cursors count items and the slot is the count modulo the
capacity; the code keeps 64-bit counts in the same way (`mask`).

`std::atomic::wait(old)` sleeps only if the value is still `old`, and returns from a
notification only if the value has changed: this is how `mark_as_finish()`, which
notifies without changing `tail_`, fails to wake an untimed `wait_and_pop()`. No task
makes the untimed call.

### ThreadPool

`pc[i]` is the statement of task i, `owed[i]` the items it has still to push, `queue[i]`
the number of items in its output queue. The main thread goes through `AddTask`, then
either `Wait()` (`JoinSource`, then `FinishNext` and `JoinNext` for each thread) or
`DoEnd()` (`EndNext`, `EndJoinNext`). `Throw` ends the process, because
`ConstructThread` starts the thread with `Base::Run` and not with `Base::DoRun`, which
would catch.

### XIAReader, Calibrator, DetectorTable, xiaformat, XIA_CFD, FrontEnd

A file is a sequence of records with lengths and a size in words, smaller than the sum
of the lengths if the last record is cut off. `Read` is a turn of the scan; the payload
read as a header would give any length, so that a scan that has lost its way is seen by
`ReadsTheRecords`. `DetectorTable` says which records the calibrator keeps and what hit
it makes of one (`keep`, `Calibrated`), as operators only: `Pipeline` uses them too, to
say what the hits of a list of files are. The calibrator's hit has a time that is the exact sum of time stamp,
CFD fraction and shifts, in units of 1/16384 ns, which all the fractions of the three
layouts are multiples of. The values of energies, QDC sums and traces are payload;
`xiaformat` has where in a record the sums and the samples are taken from, by the eight
lengths a header may have, so that `HitsOfTheKeptRecords` can ask whether they are
inside of it. A time stamp is its two words, of `TimeWord` values each. `FrontEnd` joins
the two so that the pointers the reader pushes are the ones the calibrator follows, and
`RunSort` adds how they come to their input.

### RunSort, ConfigManager

The statements of `main` are `parse`, `table`, `parameters`, `map` and `sort`.
`ParseCLA` puts the names of the files in the order of `std::sort` and rotates the last
one to the front. That is right for `run.pixie16` and `run-001.pixie16`, because a hyphen
sorts before a period. The code rotates whether or not there is such a file without a
number: of `run1.data run2.data run3.data` (`docs/usage.md:60`) the third is read first,
and so is the last file given of a run whose file without a number is left out.
`LastNameIsReadFirst` says so for every order and selection. `ReadTable`
and `ReadParameters` are the two readings of the same configuration, each with its own
way to fail: the first throws and ends the process (`Terminate`), the second goes on
with numbers of its own. What yaml-cpp makes of the text is the input: sections that are
there or not, lists with elements that are numbers or not. The table is written by the
address of a channel, without a look at the range of its parts, so that channel 16 of
slot 2 is channel 0 of slot 3 (`Address`), and without a look at the size of the table:
what a write beyond it does is a choice between nothing and the end of the process. The
parameters are told apart by where they come from: `"file"`, `"fallback"` or
`"uninitialised"`, the rest of an array that the list was too short for. `MapFile` maps
one file after the other, and an empty or missing one ends the process. From `sort` on
the tasks run as in `FrontEnd`, over the files in that order and the table as it was
written.

### Buffer, Splitter, Grouping

`Buffer` keeps the set of hits in the priority queue; equal times come out in any order,
as `std::priority_queue` may. `Splitter` keeps the cluster; the time differences are
signed, as in the code. `Grouping` joins the two: the splitter looks at neighbours only,
so its clusters depend on the order the buffer made. `AllClusters` is the reference: the
clusters of a whole sequence of hits, of which the splitter pushes all but the last
(`ClosedClusters`).

### Trigger, Sorter, Analysis

`Trigger!Events` maps a cluster to the events of a coincidence, a time or a gap run.
`Sorter` takes the events; histograms are represented by the list of events they were
filled with, so that the order of the plugin, the charge integrator, the return for a
bad CFD and the tree can be told apart. `Analysis` joins the two.

### EventOutput: TriggeredEvent, HistManager, ParticleRange, TTreeManager

`Analysis` has when an event is handled and `EventOutput` what is made of it. `Handle`
is the body of the loop of `Sorter::Run`: the event is indexed, in any of the orders the
unstable `std::sort` may leave (`Indexed`), then `HistManager::AddEntry` calls the plugin
(`FillEvent`) and fills the histograms (`AddTo`), and `FillTree` is `TTreeManager::Fill`.
If the plugin ends the process (`HandleNoMore`) the event is in no histogram and no row.

A histogram is the bag of the points it was filled with; bins are left out, and a raw
and a calibrated spectrum with the same points are one bag. `Filled` has the returns of
`AddEntry` from the first to the last. `ParticleRange` reads the lines of a file and
interpolates them as the two nested loops of `Read` do, in integers, rounded down.
`TTreeManager` has the members the branches point at, which stay from one event to the
next, and a row is what the branches take from them: the traces of a type are rows of
`MAX_ENTRIES` samples in memory, and the branch takes rows of `TRACE_MAX_LENGTH`. The
copy of the trigger's trace is `memccpy` with two arguments swapped (`Copied`): the byte
it stops behind is that of `2 * TRACE_MAX_LENGTH`, which is zero, and the number of
bytes is that of the samples. The column `time` is computed, but no branch points at it.

### UserSort and the three plugins

`UserSort` loads a plugin, or none, when the library is missing or has no `NewUserSort`.
It gets each event first, whatever the histograms make of it afterwards.
`ParticlePoints`, `Co60Fill` and `TimingFill` are what one event adds to the histograms
of the plugin, bags of points as in `HistManager`. Energies are in keV and times in ns,
as the plugins compare with constants; times of a fraction of a nanosecond are rounded
away. `Co60` keeps the last dE hit from one event to the next, and reads an
uninitialised one before the first; of an event without a dE hit it reads the places
next to an empty range, which are a hit of another type or no hit at all (`Garbage`,
`NextLast`). `TimingInvestigation` returns early unless there is exactly one dE hit,
which makes its loops over two of them unreachable, and they are not modelled.
`ParticleCoincidenceSort` follows the trigger without a check, and a gap run has none:
the process ends (`crashed`).

### Pipeline

All six tasks as instances with their state, the main thread with `AddTask`, `Wait()`,
the writing of the histograms and of the metadata. The refinement mapping `Pool` takes
the counters and the lengths of the histories to the variables of `ThreadPool`
(`poolPc`, `done`, `owed`, `queue`, `pushed`, `remaining`, `poolMain`).

## 3. Runs

| Run | What it shows | Distinct states |
|---|---|---|
| `spsc` | every operation of the queue, at every interleaving: no slot written while it is read, no lost wakeup, `is_finish` seen only of a drained queue after one more call, implements `BoundedFifo`; pushes complete, items are delivered, a timed wait ends | 60,727 |
| `pool` | start, `Wait` and `DoEnd`, a throwing task: consumers outlive producers, all records are read, counters are final, `Wait` returns | 401,131 |
| `pool_exception` | *violated:* an exception is recorded and the sort ends | |
| `front_end` | from the command line to calibrated hits: options, orders of files, configurations, whole, cut-off, empty and missing files, clocks of 8 and 10 ns, all three CFD layouts, unused and unknown channels, every length of header, shutdown at any time | 12,813 |
| `front_end_excitation` | *violated:* coefficients under `analysis.excitation` are used | |
| `grouping` | five hits, their times in every order, through a priority queue smaller than the disorder or not, and their clusters | 161,140 |
| `grouping_last` | *violated:* every hit ends up in a cluster that is pushed | |
| `analysis` | the three kinds of sort over clusters of one and three hits, with a plugin, histograms and a tree: indices, windows, dead time, and the events of each output | 161,852 |
| `analysis_triggers` | *violated:* one event per trigger hit | |
| `event_output` | two events of every composition within the bound, in every order of their index, without a plugin and with each one, with range files or none: ranges, gates, spectra and rows; cascades carry the excitation energy, pairs come in both directions, the times of gated triples close | 15,549 |
| `event_output_traces` | *violated:* every trace is in the row of its event | |
| `pipeline` | the whole program: the events analysed are the first ones of the hits that came to the buffer, put in order of time, and each of them is whole; the output is final and consistent; implements `ThreadPool`; the sort ends | 106,294 |

What the violated runs contradict:

* `Task.h:44` and `ThreadPool.hpp:53` check for an exception of a task after the join.
  Nothing stores one: the thread runs `Base::Run`, so the process ends in
  `std::terminate()`.
* `docs/architecture.md:134` says that each cluster is emitted. The cluster in hand when
  the splitter is told to finish is not.
* `docs/usage.md:106` has an event for each trigger hit, and `docs/architecture.md:154`
  one `Triggered_event` per trigger candidate. `GetTriggersExclusive` (`Trigger.cpp:66`) passes over hits of the trigger type
  within 500 ns of the last one it accepted.
* `docs/usage.md:249-256` puts the coefficients of the excitation energy under
  `analysis.excitation`. The code (`ConfigManager.cpp:99`) looks for `analysis.a0`, one
  level up, and goes on with coefficients of its own.
* `docs/usage.md:88-89` says that `--keep_traces` puts the traces into the tree.
  `DetectorEntries` writes them to `trace[MAX_ENTRIES][MAX_ENTRIES]`, rows of 128
  samples, while the branch (`TTreeManager.cpp:96`) reads rows of 8192, so that only the
  trace of the first hit of a type is at its place. (Of the trigger's own trace, the
  swapped `memccpy`, `TTreeManager.h:57`, copies half at most.)

Other differences between code and text, met on the way and not made into runs:
`docs/architecture.md:232-233` and `docs/plugins.md:9`, `49` have the plugin called after
the built-in histograms and with the events that pass the core analysis, and it is called
first, also with the events that the histograms discard for a bad CFD (`Sort.cpp:182`); no
property takes the one order or the other for right; `docs/usage.md:129` gives
`deDet` as the default of `--Trigger`, which is `eDet` (`CommandLineInterface.h:39`);
`UserSortManager` is documented to flush before the histograms are written
(`docs/architecture.md:198-199`, `238`; `docs/plugins.md:14`), and no such call exists;
the comment on the 500 MHz layout (`include/PhysicalParam/XIA_CFD.h:61`) subtracts the
source of the trigger where the code adds it. Nothing in the repository says which of
the two the digitiser means, so `OneTimeAxis` is about the layouts of 100 and 250 MHz, of
which code and comment agree, and about the pulses of 500 MHz whose CFD has failed and
adds nothing.

Two consequences of the shutdown, visible in `ThreadPool`: a task tests `done` before it
looks at its queue, so that up to `Capacity` items of each queue are left behind at the
end of a sort; and `DoEnd()` tells
a consumer to finish while its producer may be waiting for space, which is a deadlock.
Nothing calls `DoEnd()`.

What is left behind is not only the end of the data. `AnalysedEventsAreAPrefix` compares
the events analysed with those of the hits that came as far as the buffer (`Came`), and
not with those of all hits of the files, for a reason the run shows: the last hit of a
file may be earlier than hits before it, and if it is left in the queue of the buffer
the event it belongs to is made without it, although its disorder is within the size of
the buffer. `docs/architecture.md:153` says that an event has all hits within the
coincidence window. With `Came` replaced by all hits of the files TLC finds such a sort,
in the second list of files of `MCPipeline`. What is left behind further down the chain
is left out whole: clusters and events, from the end.

### Bounds, and why they are enough

* Queue: 2 slots, 5 pushes, two values. Every slot is used more than twice, so that each
  cached cursor is stale by a whole turn at some time. Values matter only for being
  equal or not.
* Pool: 4 tasks, so that there are a source, a sink and two between, one of which has
  neighbours of the same kind; capacity 1, two records, at most one item out per item
  in, and two items to drain, so that a drain overfills a queue. The proofs have no
  bounds.
* Front end: all pairs out of six files and a name of none, the file without a number of
  a run with two that have one in every order, three with numbers in every order, and one file with each of fifteen configurations, or with none.
  A file has up to three records, so that each kind comes first, last and after each
  other kind. A configuration is the good one with one thing wrong: no section, a list
  missing, not numeric, too short or too long, a channel listed twice through its
  address, a crate beyond the table, an impossible speed or detector. The table has its
  512 entries; arrays of three coefficients and two rings in place of 64 and 8, so that
  a list can be shorter than the rings, longer, and too long; time stamps with words of
  8 values; capacity 1.
* Grouping: buffer of size 1 and gap 1, five hits at three times, so that the disorder
  is within the size or beyond it, and what the splitter gets has distances from -2 to
  2; capacity 1. Each hit is of another record; neither task looks at the record, so
  that the records are a symmetry set.
* Analysis: coincidence time 3 and dead time 5, in the ratio of 300 ns to 500 ns, times
  0, 3, 4, 8: distances below, at and above both; clusters of one or three of six hits;
  one cluster per behaviour, as neither task keeps anything but histories from one
  cluster to the next.
* Event output: two events, the second of which finds what the first left, without a
  plugin (none named, no such file, no `NewUserSort`) and with each of the three.
  Without one: dE hits of one detector, of the next in its telescope and of one in the
  next telescope; the two gates overlap; hits before,
  at and after the trigger, two of them of one detector at different times; a hit in none,
  one or both of the gates. Range files are in rising order; there are three, of no line,
  and beginning at and below the first step. With a plugin, which compares with energies
  of its own: one or two dE hits, an E hit of the same telescope or another, gammas before,
  at and after the particle in detectors that the plugins single out and in others, hits
  with a bad CFD, and events with no particle; both triggers, and gap runs without. The
  energies let a cascade of two, of three, or of none of its gammas take up the
  excitation energy. The range is that of a file, or that of none. 4 entries and traces
  of 8 samples in place of 128 and 8192: the memory of the traces is two rows of the
  branch (128 * 128 = 2 * 8192) in both, and `ArrayAssumption` says so. Of a type an
  event has at most one hit more than half the entries, as many as there is room for;
  the code has no check for more.
* Pipeline: two lists of files; the first has a cluster with two events and a hit that
  closes it, the second a cut-off record, a channel not in use, an unknown one, and in
  its second file a late hit that a buffer of size 1 can put in order, in the event of a
  trigger of the first file. Capacity and buffer of 1.

### Fairness

`spsc`, `pool` and `pipeline` check liveness, under weak fairness of the steps of each
thread: an operating system schedules every one of them. The environment may stop
delivering at any time and is never fair, except for the task behind a producer, which
keeps popping: `ConsumerOutlivesProducer` shows that of the pool. One assumption is
strong fairness: that of `DeadlinePassed` in `SPSCQueue`. A timed wait alternates
between the test of the clock and a slice of sleep, so the test is enabled again and
again and not all the time; the clock goes on meanwhile, and a call that keeps sleeping
meets its deadline. Untimed waits get no such assumption, and are woken by a
notification or not at all.

## 4. Proofs

`SPSCQueueProofs` proves for every capacity and every number of items that the inductive
invariant `IInv` holds, from it `TypeOK`, `FifoOrder`, `NoSlotRace`, `NoLostWakeup`,
`NoMutualSleep` and `FinishSeenMeansDrained`, and that the queue implements
`BoundedFifo`. `FifoOrder` is not inductive: it says nothing of the caches. `IInv` adds
that each cache is a past value of the cursor it copies (`Cursors`), what is known at
each statement of the producer and of the consumer (`ProducerAt`, `ConsumerAt`), for
instance that a producer about to write has seen a head that leaves its slot free, and
that the slots between the cursors hold the items pushed last (`Contents`). The lemmas
on remainders say that two counts less than the capacity apart are in different slots.

`ThreadPoolProofs` proves for every number of tasks of at least two, every capacity and
every bound that `IInv` holds, and from it `TypeOK`, `ConsumerOutlivesProducer`,
`SourceReadsEverything`, `CountersReadAfterExit` and `CountersAgree`. `IInv` adds what
main has joined (`Joined`), that under `Wait` a task is told only when all before it
were joined (`NotToldEarly`), and that a worker leaves its loop only when told
(`LoopEndsWhenTold`): without them the order of the shutdown does not follow from the
state of two neighbours.

`XIAReaderProofs` proves of the scan, for every list of files, what `ReadsTheRecords` and
the refinement of the pool rest on. `ScanInv` has where the scan stands: there are a file
and a record of it (`ScanAt`) such that what is pushed and pending is the complete
records before that place, and the counter is the number of all records before it, the
cut-off ones too. `ReadsTheRecords` alone says nothing of the position, and a scan one
word off would keep it until the next header. That the place exists takes that the record
starts are sums of lengths and increase (`StartsIncrease`), that what a file lacks is at
its end (`CompleteAreFirst`), and what comes after the last record of a file
(`PassedFile`). After `Finish` the reader may still move on, so the place is the
position of the scan only while the reader has not been told.

`RunSortProofs` has the front end, with main before it and the configuration.

* `ParametersOfOneSource`, for every set of options, configurations and files. What is
  inductive is that the parameters are none, or those that `AnalysisParameters` makes of
  the configuration the options name, and that the options name the same one from
  `ReadParameters` on, whatever the tasks do; `ReadingOfOneSource` is the lemma about the
  reading itself, by cases of which list fails.
* `ReadsTheRecords`, from `ScanInv` and that the tasks wait for main (`Waiting`): main
  maps the files behind the back of the reader.
* `HitsOfTheKeptRecords`, from `HitsInv`: the hits pushed and pending are made of the
  popped records of the channels in use, a fold over what was popped; a record lies
  inside of its file, and the sums and the trace inside of the record.
* `HitsCarryTheirConfiguration`, from `TableInv`: the table is that of the file
  (`TableHolds`, an induction over the listings: the entry at an address is that of the
  last listing with it), and addresses of places with slots and channels below 16 are
  equal only for the same place.
* `LastNameIsReadFirst`, for every command line and set of runs, whatever files of a run
  are given and in whatever order, and whether or not it has one without a number.
  `OrderInv` says that the files mapped are the first of the names, and that these are in
  order from `ParseCLA` on: the last name of all first, and the others behind it not
  decreasing (`InOrder`). `RanksOfARun` has how the places of the names of a run compare,
  so that the last name given is the one that `First` names. That
  `std::sort`, which the model has as the choice of a permutation, has one to choose is
  `SortingExists`, an induction over the number of names.

`GroupingProofs` proves the four properties of `grouping` for every size of the buffer,
gap, capacity, and sequence of hits. None of the four is inductive.

* `HitsConserved` needs that the hits are distinct, which is that each knows its place
  in the input (`BufferState`): a set of hits loses none when one is added.
* `OrderedWithinSize` rests on `LeftLate`: a hit that left before the drain left at
  least `Size` hits behind, none of them earlier, and itself, so that more than `Size`
  of the hits so far are not earlier than it. A hit that comes afterwards and is earlier
  is earlier than all of these, which is more disorder than the buffer undoes.
  `TopIsLate` counts them, by an injection of the hits in the full buffer into their
  numbers. With it `Ordered` is inductive: what has left is in order and no hit in the
  buffer is earlier.
* `ClustersPartitionTheHits` is inductive with the state of the splitter, through what
  flattening does when a sequence is appended (`FlattenAppend`).
* `CutAtEveryGap` needs that the hit popped last is the last of the cluster in hand
  (`LastOfCluster`), and that no cluster begins behind it (`StartsBehind`).

`ClustersInOrder` joins the two tasks: within that disorder the hits of the clusters are
in order of time from the first cluster to the last, so that a cluster is what lies
between two gaps. No run states it; it follows from the invariant.

`ClustersOfAnOrderCorrect` says which clusters these are: put the hits popped in order
of time, in one of the orders there are when two have the same time, and divide them at
the gaps; the clusters pushed are the first of the closed ones (`ClosedClusters`). What
is still in the buffer and in the queue makes no difference: the rest of the order is
any order of what has not left (`WholeOrder`), and a cluster that was closed stays what
it is when hits are added behind it.

`AnalysisProofs` proves the four properties of `analysis` for every cluster, kind of sort,
coincidence time and dead time, and `GivenInOrderCorrect`: what the plugin has been
given is the first part of the events of the clusters that came, one cluster after the
other. The events made are those of the clusters popped (`TheyAreTheEvents`, `BuiltInv`,
a list of lists that grows at its end), and each task takes them in turn.

* `TriggerInv` says of every event made so far that it is one of a cluster popped, with
  what it promises (`EventOf`), and of every cluster popped that its triggers have been
  answered. `IndexPointsAtTrigger`, `EventHoldsTheCoincidentHits` and
  `DeadTimeIsNotExtended` follow from it. What is hard is in the lemmas about the selection:
  the accepted triggers of a cluster are a fold, and `AllAnswered` holds of every prefix
  of it, that each hit of the trigger type is accepted or in the dead time of an accepted
  one; the window of a trigger has the trigger in it, at the index.
* `SpectraAreTheGoodEvents` follows from `SorterInv`, which has each of the four outputs
  of the sorter as a fold over the events handled. Without the
  plugin, which is one ahead of the others while an event is in hand, it is not inductive.

`PipelineProofs` proves that the program implements `ThreadPool` (`ImplementsThreadPool`),
`OutputIsConsistent` and `AnalysedEventsAreAPrefix`, for all files, tables, options, and
sizes of the queues and of the buffer.

* `TasksInv` bounds how many items each task may hold: what it has pushed and what it has
  still to push are together no more than what it has popped, and that no more than what
  the task before it has pushed. Without these the mapped state is none of the pool: the
  pool has at most one item out per item in, `MaxDrain` items to drain, and no queue of
  negative length. Clusters and events must be of their kinds, because what `Trigger`
  makes of a cluster with no hits or with one that has no time says nothing of how many
  events it makes (`EventsOfCluster`: no more than the cluster has hits, and no cluster
  has more than the files have records).
* `TaskOfPool` is the refinement of one step, once for all tasks: from what a step does
  to the label and to the four numbers of a task (`TaskMoves`) follows which step of the
  pool it is. `ReaderSteps` to `SorterSteps` are the six uses of it, `MainMoves` is that
  of main, whose writing at the end is none of the pool's steps. `StepOfPool` joins them,
  and `PoolImplemented` is the refinement.
* `PoolInvariance` is what the program inherits: the invariant of `ThreadPoolProofs` of
  the mapped state. `OutputIsConsistent` needs of it that all have exited when `Wait`
  returns (`Joined`) and that the reader has then counted all records
  (`SourceReadsEverything`); `OutputInv` adds what main has written, and `TasksInv` that
  the tree has the events of the plugin and is closed by then.
* `AnalysedEventsCorrect` joins what is proved of the parts. The records pushed are the
  first of the complete ones (`ScanInv` of `XIAReaderProofs`, by instance), the hits
  pushed and pending are those of the records counted (`CalibratedInv`), so the hits the
  buffer popped are the `Came` of the property. A step of the program is one of `Grouping`
  and one of `Analysis`, or a stutter (`GroupingSteps`, `AnalysisSteps`), so that
  `ClustersOfAnOrder` and `GivenInOrder` hold of its tasks. What is needed of the rest of
  the program is that nobody hands over anything after its consumer was told to finish,
  which is in the invariant of the pool, and that no hit comes twice. `DisorderIsOvertaking` has that the two ways to
  count the disorder agree, and a prefix of clusters has a prefix of the events.

Definitions by recursion and folds. The provers have no induction over data, and cannot
instantiate a theorem with an operator. `SequenceLemmas` does induction by the least
element of a set of numbers (`SetInduction`), for a set that is given in place of a
predicate, and proves with it what is needed of `FlattenSeq` and of `FoldLeft`. For a fold
it has a constant operator `Op` in place of the step and `Holds` in place of the
predicate, and `FoldInduction`: what holds of the first value and is kept by each step
holds of the fold. A proof instantiates the module with its own step and predicate
(`INSTANCE SequenceLemmas WITH`).

Assumptions. The proofs use what the modules assume of their constants and nothing else,
and TLC evaluates it on the instances of the runs:

* `Capacity` at least one, at least two tasks, `Size`, `Gap` and the times of the trigger
  natural numbers, times of hits integers, no more rings than the arrays have elements.
* `FilesOK`: the records of a file have lengths of at least one word, and the file ends
  inside of its last record or with it. The digitiser writes records so; a length of zero
  is in section 5.
* `RecordsOK`: crate, slot and channel have four bits each in the header, and the lengths
  of the header and of the trace fit into that of the record, as the digitiser writes
  them. `Pipeline` needs less (`RecordsAssumption`): unsigned fields are natural numbers.
* `ConfigurationsOK`, `TableAssumption`: what `ConfigManager` converts to numbers is
  numbers, and time shifts are integers in their units.
* `AlphabeticalAssumption`, `RunsAssumption`, `CommandLinesAssumption`: no two names have
  the same place in the order; the names of a run are in it as they were recorded, except
  for the one without a number, if there is one, which is last; and the options are names
  of files.
* `HitsAssumption` of `Grouping` and of `Analysis`: the times of hits are integers.
* `ClustersAssumption`: the clusters `Analysis` gets are sequences of hits, and none is
  empty: the splitter pushes a cluster when it has a hit.
* `OptionsAssumption` of `Pipeline`: the kinds of sort are the three the code has.
* `InputsAssumption` of `Pipeline`: the lists name some of the files, none of them
  twice, with at most `Records` records. `Records` may be any number, so that this bounds
  nothing; the pool has it as the bound of what a task pushes for an item (`MaxEmit`).

Model-checked only, on the instances above: everything under fairness (`PushCompletes`,
`EverythingDelivered`, `TimedWaitReturns`, `WaitReturns`, `SortEnds`), which is beyond the
provers with `ENABLED`; the properties of the output of one event and of the plugins
(`event_output`), where the bags of points and the orders `std::sort` may leave are what
matters; and `OneTimeAxis`, which compares with the times at which the pulses were when
`MCFrontEnd` encoded them, and for all values of the constants would need an assumption
that says what the property says. Two of the queue's theorems (`FifoCorrect`,
`NoMutualSleepCorrect`) are proved and not run: the first follows from `ImplementsFifo`, which is.

## 5. What is abstracted or left out

* Records carry what decides control: lengths, channel, time stamp, CFD word. The values
  of energies, traces and QDC sums are payload in the front end; `UserSort` and
  `EventOutput` give hits energies.
* Times are integers, in `Calibrator` and behind it in units of 1/16384 ns and exact;
  rounding of `double` is not modelled, nor which overload of `abs` `Trigger` uses.
* Histograms have points and not bins; names, axes and the files of ROOT are left out,
  and of the tree the columns that are copied like the others (ADC value, pile-up flag,
  QDC).
* More hits of a type than the arrays of the tree hold, and dE detectors numbered 64 and
  more, for which `GetPart` (`Sort.h:80`) gives a null pointer that `AddEntry` follows:
  both are undefined in the code and excluded by the inputs of `EventOutput`.
* `ParticleRange::Read` for arrays, and `zrange.h`, which no file includes.
  `docs/usage.md:75` has the range file as YAML; the code reads the columns that zrange
  writes.
* An `eventLen` of zero, which would stop the scan from advancing; the digitiser writes
  none.
* Options that only change output (`--help`, names, progress bars), the parsing of the
  command line and of YAML, which libraries do, and the names, titles and binning of
  histograms.
* `MergeFiles`, which gets one file always; `FileInspector`, a program of its own;
  `GetNumDetectors` and the helpers of `Trigger` that nothing calls.
* The branches of `TimingInvestigation` for two dE hits, which its first test excludes.
* `SPMCQueue`. Its `pop` advances `read_index` before the value is moved out, so that a
  producer could overwrite it; `Queue.h` gives every task the queue with one consumer,
  so nothing in the program shows it.

Weaknesses of the code that the model has and no property forbids, because nothing
promises otherwise or nothing reaches them: an untimed `wait_and_pop` is not woken by
`mark_as_finish`, which notifies without a change of `tail_` (no task makes the call);
`DoEnd()` can deadlock (nothing calls it); `mult_ex` is filled with multiplicity 0
always, as `coinc` is never counted up (`Sort.cpp:248`); `DroppedEvents` of the metadata
is never positive (`MetadataWriter.cpp:25`); `ParticleCoincidenceSort` ends the process
in a gap run; `Co60` reads what was never written.

## 6. Plan

Done: the queue and its proofs, the pool and its proofs, `main` up to the start of the
tasks with the configuration, the six tasks in three joined pairs with their proofs, the
output of an event, the plugins, the whole program, that it implements the pool and that its events are
those of the hits that came.

What is left of the model: `SPMCQueue` on its own, and events with more hits of a type
than the tree has entries, as the choice a build can make.

What is left to prove, in this order:

1. The rows of `TTreeManager` (`TreeRowsAreTheEvents`), and the ranges of
   `TriggeredEvent`.
2. The decoding of the CFD word of 100 and of 250 MHz: that each gives the fraction the
   module has encoded, which is the part of `OneTimeAxis` that is about the code.
