----------------------------- MODULE ThreadPool -----------------------------
(***************************************************************************)
(* The threads of a sort: ThreadPool (include/Tools/ThreadPool.hpp) starts *)
(* one thread per task, the tasks form a chain joined by bounded queues,   *)
(* and the main thread ends them with Wait() or with DoEnd().  A task is   *)
(* reduced to the loop all of them share, and an item to one token of a    *)
(* queue: task 1 is the source (XIAReader), task N the sink (Sorter).      *)
(*                                                                         *)
(* A queue is what SPSCQueue was shown to implement.  wait_and_pop() with  *)
(* a timeout returns false only after it has found the queue empty, at its *)
(* deadline or because the producer is finished, so is_finish needs no     *)
(* variable here.                                                          *)
(***************************************************************************)
EXTENDS Integers

CONSTANTS N,         \* the number of tasks of the pool, six in main.cpp
          Capacity,  \* of every queue, SIZE in Queue.h
          Records,   \* bound: the most records the files of the source have
          MaxEmit,   \* bound: the items a task pushes for one it has popped
          MaxDrain,  \* bound: the items a task still holds when its loop ends
          Drivers,   \* how the main thread ends the pool
          Throwing   \* the tasks whose processing of an item may throw

ASSUME NAssumption == N \in Nat /\ N >= 2
ASSUME CapacityAssumption == Capacity \in Nat \ {0}
ASSUME BoundsAssumption == Records \in Nat /\ MaxEmit \in Nat /\ MaxDrain \in Nat
ASSUME DriversAssumption == Drivers \subseteq {"Wait", "DoEnd"}
ASSUME ThrowingAssumption == Throwing \subseteq 1 .. N

Tasks == 1 .. N
Queues == 1 .. N - 1     \* queue i is the output queue of task i

VARIABLES pc,                 \* the statement each task is at
          done,               \* Base::done of each task
          owed,               \* the items a task has yet to push before it goes on
          queue,              \* the number of items in each queue
          entries_processed,  \* Base::entries_processed of each task
          remaining,          \* the records the source has not read yet
          pushed,             \* history: the items ever pushed into each queue
          main, next,         \* the main thread's statement and loop index
          driver,             \* the function main calls to end the pool
          crashed             \* std::terminate() has been called

taskVars == <<owed, queue, entries_processed, remaining, pushed>>
mainVars == <<main, next, driver>>
vars == <<pc, done, taskVars, mainVars, crashed>>

Init == /\ pc = [i \in Tasks |-> "new"]
        /\ done = [i \in Tasks |-> FALSE]
        /\ owed = [i \in Tasks |-> 0]
        /\ queue = [i \in Queues |-> 0]
        /\ entries_processed = [i \in Tasks |-> 0]
        /\ remaining \in 0 .. Records
        /\ pushed = [i \in Queues |-> 0]
        /\ main = "add" /\ next = 1
        /\ driver \in Drivers
        /\ crashed = FALSE
-----------------------------------------------------------------------------
(***************************************************************************)
(* The tasks.  "test" is the condition of the loop, "pop" the call of      *)
(* wait_and_pop, "push" the body after a successful pop, "drain" what      *)
(* follows the loop.                                                       *)
(***************************************************************************)
Goto(i, label) == pc' = [pc EXCEPT ![i] = label]

\* while ( pos < end && !done ): one record, pushed unless it is truncated
Read ==
    /\ pc[1] = "test" /\ ~done[1] /\ remaining > 0
    /\ remaining' = remaining - 1
    /\ entries_processed' = [entries_processed EXCEPT ![1] = @ + 1]
    /\ \E n \in {0, 1} : owed' = [owed EXCEPT ![1] = n]
    /\ Goto(1, "push")
    /\ UNCHANGED <<done, queue, pushed, mainVars, crashed>>

SourceEnds ==
    /\ pc[1] = "test" /\ (done[1] \/ remaining = 0)
    /\ Goto(1, "drain")
    /\ UNCHANGED <<done, taskVars, mainVars, crashed>>

\* while ( !done ); Buffer still holds items when its loop ends
Test(i) ==
    /\ pc[i] = "test" /\ i > 1
    /\ \/ /\ done[i]
          /\ \E n \in 0 .. MaxDrain : owed' = [owed EXCEPT ![i] = IF i < N THEN n ELSE 0]
          /\ Goto(i, "drain")
       \/ /\ ~done[i]
          /\ Goto(i, "pop")
          /\ UNCHANGED owed
    /\ UNCHANGED <<done, queue, entries_processed, remaining, pushed, mainVars, crashed>>

Pop(i) ==
    /\ pc[i] = "pop" /\ queue[i - 1] > 0
    /\ queue' = [queue EXCEPT ![i - 1] = @ - 1]
    /\ entries_processed' = [entries_processed EXCEPT ![i] = @ + 1]
    /\ \E n \in 0 .. MaxEmit : owed' = [owed EXCEPT ![i] = IF i < N THEN n ELSE 0]
    /\ Goto(i, "push")
    /\ UNCHANGED <<done, remaining, pushed, mainVars, crashed>>

\* Seeded fault: wait_and_pop() has no timeout.
WaitForItem(i) ==
    /\ pc[i] = "pop" /\ queue[i - 1] = 0
    /\ UNCHANGED vars

\* wait_and_pop() returns false and the loop continues
TimedOut(i) ==
    /\ pc[i] = "pop" /\ queue[i - 1] = 0
    /\ Goto(i, "test")
    /\ UNCHANGED <<done, taskVars, mainVars, crashed>>

\* Seeded fault: push does not wait for a free slot.
PushOverfull(i) ==
    /\ pc[i] \in {"push", "drain"} /\ owed[i] > 0
    /\ owed' = [owed EXCEPT ![i] = @ - 1]
    /\ pushed' = [pushed EXCEPT ![i] = @ + 1]
    /\ queue' = [queue EXCEPT ![i] = @ + 1]
    /\ UNCHANGED <<pc, done, entries_processed, remaining, mainVars, crashed>>

\* output_queue.push(), which waits while the queue is full
Push(i) ==
    /\ pc[i] \in {"push", "drain"} /\ owed[i] > 0
    /\ queue[i] < Capacity
    /\ owed' = [owed EXCEPT ![i] = @ - 1]
    /\ queue' = [queue EXCEPT ![i] = @ + 1]
    /\ pushed' = [pushed EXCEPT ![i] = @ + 1]
    /\ UNCHANGED <<pc, done, entries_processed, remaining, mainVars, crashed>>

Handled(i) ==
    /\ pc[i] = "push" /\ owed[i] = 0
    /\ Goto(i, "test")
    /\ UNCHANGED <<done, taskVars, mainVars, crashed>>

\* Run() returns; the source has set its own done
Exit(i) ==
    /\ pc[i] = "drain" /\ owed[i] = 0
    /\ Goto(i, "exited")
    /\ done' = [done EXCEPT ![i] = @ \/ i = 1]
    /\ UNCHANGED <<taskVars, mainVars, crashed>>

\* The thread runs Base::Run and not Base::DoRun, so nothing catches an
\* exception and the runtime calls std::terminate().
Throw(i) ==
    /\ pc[i] = "push" /\ i \in Throwing
    /\ crashed' = TRUE
    /\ UNCHANGED <<pc, done, taskVars, mainVars>>

SourceStep == Read \/ SourceEnds \/ Push(1) \/ Handled(1) \/ Exit(1)
WorkerStep(i) == Test(i) \/ Pop(i) \/ TimedOut(i) \/ Push(i) \/ Handled(i) \/ Exit(i)
-----------------------------------------------------------------------------
(***************************************************************************)
(* The main thread.                                                        *)
(***************************************************************************)
\* tasks.push_back(task->ConstructThread()): the thread runs at once
AddTask ==
    /\ main = "add"
    /\ Goto(next, "test")
    /\ IF next < N
         THEN next' = next + 1 /\ UNCHANGED main
         ELSE next' = 1 /\ main' = IF driver = "Wait" THEN "join_source" ELSE "end"
    /\ UNCHANGED <<done, taskVars, driver, crashed>>

\* Seeded fault: Wait does not join the source first.
JoinNoSource ==
    /\ main = "join_source"
    /\ main' = "finish"
    /\ UNCHANGED <<pc, done, taskVars, next, driver, crashed>>

\* source->first.join()
JoinSource ==
    /\ main = "join_source" /\ pc[1] = "exited"
    /\ main' = "finish"
    /\ UNCHANGED <<pc, done, taskVars, next, driver, crashed>>

\* thread.second->Finish() in the loop of Wait
FinishNext ==
    /\ main = "finish"
    /\ done' = [done EXCEPT ![next] = TRUE]
    /\ main' = "join"
    /\ UNCHANGED <<pc, taskVars, next, driver, crashed>>

\* Seeded fault: the loop of Wait tells a task to finish and goes on.
JoinNobody ==
    /\ main = "join"
    /\ IF next < N
         THEN next' = next + 1 /\ main' = "finish"
         ELSE next' = next /\ main' = "returned"
    /\ UNCHANGED <<pc, done, taskVars, driver, crashed>>

\* thread.first.join() in the loop of Wait
JoinNext ==
    /\ main = "join" /\ pc[next] = "exited"
    /\ IF next < N
         THEN next' = next + 1 /\ main' = "finish"
         ELSE next' = next /\ main' = "returned"
    /\ UNCHANGED <<pc, done, taskVars, driver, crashed>>

\* the first loop of end_all
EndNext ==
    /\ main = "end"
    /\ done' = [done EXCEPT ![next] = TRUE]
    /\ IF next < N
         THEN next' = next + 1 /\ UNCHANGED main
         ELSE next' = 1 /\ main' = "end_join"
    /\ UNCHANGED <<pc, taskVars, driver, crashed>>

\* the second loop of end_all
EndJoinNext ==
    /\ main = "end_join" /\ pc[next] = "exited"
    /\ IF next < N
         THEN next' = next + 1 /\ UNCHANGED main
         ELSE next' = next /\ main' = "returned"
    /\ UNCHANGED <<pc, done, taskVars, driver, crashed>>

MainStep == AddTask \/ JoinSource \/ FinishNext \/ JoinNext \/ EndNext \/ EndJoinNext

\* Not a deadlock: the pool has ended, or the process has.
Terminated == (main = "returned" \/ crashed) /\ UNCHANGED vars
-----------------------------------------------------------------------------
Running == \/ SourceStep
           \/ \E i \in Tasks \ {1} : WorkerStep(i)
           \/ \E i \in Tasks : Throw(i)
           \/ MainStep

Next == \/ ~crashed /\ Running
        \/ Terminated

Spec == Init /\ [][Next]_vars

\* Every thread is scheduled.
Fairness == /\ WF_vars(~crashed /\ SourceStep)
            /\ \A i \in Tasks \ {1} : WF_vars(~crashed /\ WorkerStep(i))
            /\ WF_vars(~crashed /\ MainStep)
FairSpec == Spec /\ Fairness
-----------------------------------------------------------------------------
(***************************************************************************)
(* Properties                                                              *)
(***************************************************************************)
Labels == {"new", "test", "pop", "push", "drain", "exited"}

TypeOK ==
    /\ pc \in [Tasks -> Labels]
    /\ done \in [Tasks -> BOOLEAN]
    /\ owed \in [Tasks -> Nat] /\ owed[N] = 0     \* the sink has no output queue
    /\ queue \in [Queues -> 0 .. Capacity]
    /\ entries_processed \in [Tasks -> Nat]
    /\ remaining \in 0 .. Records
    /\ pushed \in [Queues -> Nat]
    /\ main \in {"add", "join_source", "finish", "join", "end", "end_join", "returned"}
    /\ next \in Tasks
    /\ driver \in Drivers
    /\ crashed \in BOOLEAN

\* Under Wait a task is told to finish only when every task before it has
\* exited, so a task that is still pushing always has a consumer that keeps
\* emptying the queue: this is why push may block without a timeout.
ConsumerOutlivesProducer ==
    driver = "Wait" =>
        \A i \in Queues : pc[i] # "exited" => ~done[i + 1] /\ pc[i + 1] \notin {"drain", "exited"}

\* Under Wait the source reads its files to the end.
SourceReadsEverything ==
    driver = "Wait" /\ pc[1] \in {"drain", "exited"} => remaining = 0

\* entries_processed is a plain integer of each task: main reads it only when
\* all of the tasks have exited.
CountersReadAfterExit == main = "returned" => \A i \in Tasks : pc[i] = "exited"

\* The counters of neighbouring tasks differ by what is in the queue between
\* them: no item is lost or counted twice while the tasks run.
CountersAgree ==
    \A i \in Queues : pushed[i] = entries_processed[i + 1] + queue[i]

\* The invariant that is inductive.  What main has joined has exited, a task
\* was told to finish only after those before it were joined, and no task but
\* the source leaves its loop untold.
Joined ==
    /\ main = "add" => \A j \in Tasks : j >= next => pc[j] = "new"
    /\ main \in {"finish", "join"} => pc[1] = "exited"
    /\ main \in {"finish", "join", "end_join"} =>
           \A j \in Tasks : j < next => pc[j] = "exited"
    /\ main = "join_source" => next = 1
    /\ main = "returned" => \A j \in Tasks : pc[j] = "exited"
NotToldEarly ==
    driver = "Wait" =>
        /\ main \notin {"end", "end_join"}
        /\ done[1] => pc[1] = "exited"
        /\ \A i \in Tasks \ {1} : done[i] => \/ main = "finish" /\ i < next
                                             \/ main = "join" /\ i <= next
                                             \/ main = "returned"
LoopEndsWhenTold == \A i \in Tasks \ {1} : pc[i] \in {"drain", "exited"} => done[i]
IInv == /\ TypeOK /\ Joined /\ NotToldEarly /\ LoopEndsWhenTold
        /\ SourceReadsEverything /\ CountersAgree

\* Wait() returns, unless an exception has ended the process.
WaitReturns == driver = "Wait" ~> (main = "returned" \/ crashed)

\* ThreadPool.hpp:53 and Task.h:44: an exception of a task is checked for after
\* the task has been joined, and the pool ends as usual.
ExceptionsLeadToReturn == main = "add" ~> main = "returned"
=============================================================================
