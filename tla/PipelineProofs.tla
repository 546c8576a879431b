--------------------------- MODULE PipelineProofs ---------------------------
(***************************************************************************)
(* Proofs about Pipeline for all files, detector tables, options and sizes *)
(* of the queues and of the buffer: the six tasks and the main thread are  *)
(* the pool of threads of ThreadPool, the output is final and agrees with  *)
(* itself, and the events analysed are the first ones of those of the hits *)
(* that came to the buffer.                                                *)
(***************************************************************************)
EXTENDS Pipeline, SequenceLemmas

-----------------------------------------------------------------------------
(***************************************************************************)
(* The six tasks as the tasks of the pool                                  *)
(***************************************************************************)
PoolProofs == INSTANCE ThreadPoolProofs WITH
    MaxEmit <- Records, MaxDrain <- Size, Drivers <- {"Wait"}, Throwing <- {2},
    pc <- poolPc, main <- poolMain, driver <- "Wait"

\* Task k is at label with items to push, and has counted and pushed so many.
At(k, label, items, counted, out) ==
    /\ pc[k] = label /\ owed[k] = items /\ entries_processed[k] = counted
    /\ k < N => pushed[k] = out

\* It goes there, and nothing else changes.
GoesTo(k, label, items, counted, out) ==
    /\ pc' = [pc EXCEPT ![k] = label] /\ owed' = [owed EXCEPT ![k] = items]
    /\ entries_processed' = [entries_processed EXCEPT ![k] = counted]
    /\ pushed' = [pushed EXCEPT ![k] = out]
    /\ UNCHANGED <<done, remaining, main, next, crashed>>

\* The numbers of the pool are numbers.
PoolTypes ==
    /\ entries_processed \in [1 .. N -> Nat] /\ pushed \in [1 .. N - 1 -> Nat]
    /\ owed \in [1 .. N -> Nat] /\ done \in [1 .. N -> BOOLEAN]
    /\ next \in 1 .. N

\* Replacing one entry of a tuple.
LEMMA SixTuple ==
  ASSUME NEW a1, NEW a2, NEW a3, NEW a4, NEW a5, NEW a6, NEW v
  PROVE  LET t == <<a1, a2, a3, a4, a5, a6>> IN
         /\ [t EXCEPT ![1] = v] = <<v, a2, a3, a4, a5, a6>>
         /\ [t EXCEPT ![2] = v] = <<a1, v, a3, a4, a5, a6>>
         /\ [t EXCEPT ![3] = v] = <<a1, a2, v, a4, a5, a6>>
         /\ [t EXCEPT ![4] = v] = <<a1, a2, a3, v, a5, a6>>
         /\ [t EXCEPT ![5] = v] = <<a1, a2, a3, a4, v, a6>>
         /\ [t EXCEPT ![6] = v] = <<a1, a2, a3, a4, a5, v>>
  OBVIOUS

\* There is no sixth queue.
LEMMA FiveTuple ==
  ASSUME NEW a1, NEW a2, NEW a3, NEW a4, NEW a5, NEW v
  PROVE  LET t == <<a1, a2, a3, a4, a5>> IN
         /\ [t EXCEPT ![1] = v] = <<v, a2, a3, a4, a5>>
         /\ [t EXCEPT ![2] = v] = <<a1, v, a3, a4, a5>>
         /\ [t EXCEPT ![3] = v] = <<a1, a2, v, a4, a5>>
         /\ [t EXCEPT ![4] = v] = <<a1, a2, a3, v, a5>>
         /\ [t EXCEPT ![5] = v] = <<a1, a2, a3, a4, v>>
         /\ [t EXCEPT ![6] = v] = <<a1, a2, a3, a4, a5>>
  OBVIOUS

\* A queue has what was pushed and has not been counted yet.
LEMMA QueueIs == queue = [i \in 1 .. 5 |-> pushed[i] - entries_processed[i + 1]]
  BY DEF queue, pushed, entries_processed

\* And after a step.
LEMMA QueueIsNext == queue' = [i \in 1 .. 5 |-> pushed'[i] - entries_processed'[i + 1]]
  BY DEF queue, pushed, entries_processed

\* A thread that has been started is in the pool where its task is.
LEMMA PcOfTask ==
  ASSUME NEW k \in 1 .. N, Runs(k), next \in 1 .. N
  PROVE  /\ poolPc[k] = pc[k] /\ poolPc = [i \in 1 .. N |-> poolPc[i]]
         /\ \A label : UNCHANGED <<main, next>> /\ pc' = [pc EXCEPT ![k] = label]
                           => poolPc' = [poolPc EXCEPT ![k] = label]
<1> DEFINE idle(i) == main = "add" /\ i >= next
<1>1. ~idle(k)
  BY DEF Runs, N
<1>2. poolPc = [i \in 1 .. N |-> IF idle(i) THEN "new" ELSE pc[i]]
  BY DEF poolPc
<1>3. poolPc[k] = pc[k] /\ poolPc = [i \in 1 .. N |-> poolPc[i]]
  BY <1>1, <1>2
<1>4. ASSUME NEW label, UNCHANGED <<main, next>>, pc' = [pc EXCEPT ![k] = label]
      PROVE  poolPc' = [poolPc EXCEPT ![k] = label]
  <2>1. poolPc' = [i \in 1 .. N |-> IF idle(i)' THEN "new" ELSE pc'[i]]
    BY DEF poolPc, N
  <2>2. \A i \in 1 .. N : pc'[i] = IF i = k THEN label ELSE pc[i]
    <3>1. DOMAIN pc = 1 .. N
      BY DEF pc, N
    <3> QED
      BY <1>4, <3>1
  <2>3. \A i : idle(i)' <=> idle(i)
    BY <1>4
  <2> HIDE DEF idle
  <2> QED
    BY <1>1, <1>2, <2>1, <2>2, <2>3
<1> QED
  BY <1>3, <1>4

\* What a task does in one step, as the pool sees it: it tests done, pops an item or
\* finds none, pushes an item it owes, or is done with the item or with all of them.
TaskMoves(k, label, items, counted, out, label2, items2, counted2, out2) ==
    \/ /\ k > 1 /\ label = "test" /\ ~done[k] /\ label2 = "pop"
       /\ items2 = items /\ counted2 = counted /\ out2 = out
    \/ /\ k > 1 /\ label = "test" /\ done[k] /\ label2 = "drain"
       /\ items2 <= Size /\ counted2 = counted /\ out2 = out
    \/ /\ k > 1 /\ label = "pop" /\ counted < pushed[k - 1] /\ label2 = "push"
       /\ items2 <= Records /\ counted2 = counted + 1 /\ out2 = out
    \/ /\ k > 1 /\ label = "pop" /\ counted = pushed[k - 1] /\ label2 = "test"
       /\ items2 = items /\ counted2 = counted /\ out2 = out
    \/ /\ label \in {"push", "drain"} /\ label2 = label /\ k < N /\ items > 0
       /\ out - entries_processed[k + 1] < Capacity
       /\ items2 = items - 1 /\ counted2 = counted /\ out2 = out + 1
    \/ /\ label = "push" /\ items = 0 /\ label2 = "test"
       /\ items2 = items /\ counted2 = counted /\ out2 = out
    \/ /\ k > 1 /\ label = "drain" /\ items = 0 /\ label2 = "exited"
       /\ items2 = items /\ counted2 = counted /\ out2 = out

\* And the pool has that step.
LEMMA TaskOfPool ==
  ASSUME PoolTypes, NEW k \in 1 .. N, Runs(k),
         NEW label, NEW items \in Nat, NEW counted \in Nat, NEW out \in Nat,
         NEW label2, NEW items2 \in Nat, NEW counted2 \in Nat, NEW out2 \in Nat,
         At(k, label, items, counted, out), GoesTo(k, label2, items2, counted2, out2),
         k = N => items2 = 0,
         TaskMoves(k, label, items, counted, out, label2, items2, counted2, out2)
  PROVE  ~crashed /\ PoolProofs!Running
<1>1. k \in 1 .. N /\ k \in 1 .. 6 /\ N = 6 /\ ~crashed
  BY DEF N, Runs
<1>2. /\ poolPc[k] = label /\ poolPc' = [poolPc EXCEPT ![k] = label2]
      /\ poolPc = [i \in 1 .. N |-> poolPc[i]]
  BY Zenon, <1>1, PcOfTask DEF PoolTypes, At, GoesTo
<1>3. /\ owed[k] = items /\ entries_processed[k] = counted /\ (k < 6 => pushed[k] = out)
      /\ owed' = [owed EXCEPT ![k] = items2]
      /\ entries_processed' = [entries_processed EXCEPT ![k] = counted2]
      /\ pushed' = [pushed EXCEPT ![k] = out2]
      /\ UNCHANGED <<done, remaining, next, crashed, poolMain>>
  BY <1>1 DEF At, GoesTo, poolMain
<1>4. /\ queue = [i \in 1 .. 5 |-> pushed[i] - entries_processed[i + 1]]
      /\ queue' = [i \in 1 .. 5 |-> pushed'[i] - entries_processed'[i + 1]]
  BY QueueIs, QueueIsNext
<1>5. /\ entries_processed \in [1 .. 6 -> Nat] /\ pushed \in [1 .. 5 -> Nat]
      /\ owed \in [1 .. 6 -> Nat]
  BY <1>1 DEF PoolTypes
<1>6. items2 = items => owed' = owed
  BY <1>1, <1>3, <1>5
<1>7. counted2 = counted => entries_processed' = entries_processed
  BY <1>1, <1>3, <1>5
<1>8. out2 = out => pushed' = pushed
  BY <1>1, <1>3, <1>5
<1>9. counted2 = counted /\ out2 = out => queue' = queue
  BY Zenon, <1>4, <1>7, <1>8
<1>10. label2 = label => poolPc' = poolPc
  BY <1>1, <1>2
<1>11. PoolProofs!WorkerStep(k) /\ k > 1 => ~crashed /\ PoolProofs!Running
  BY <1>1 DEF PoolProofs!Running, PoolProofs!Tasks
<1>12. (PoolProofs!Push(k) \/ PoolProofs!Handled(k)) => ~crashed /\ PoolProofs!Running
  BY <1>1 DEF PoolProofs!Running, PoolProofs!Tasks, PoolProofs!WorkerStep,
     PoolProofs!SourceStep
<1>13. CASE /\ k > 1 /\ label = "test" /\ ~done[k] /\ label2 = "pop"
            /\ items2 = items /\ counted2 = counted /\ out2 = out
  <2>1. PoolProofs!Test(k)
    BY <1>1, <1>2, <1>3, <1>6, <1>7, <1>8, <1>9, <1>13
       DEF PoolProofs!Test, PoolProofs!Goto, PoolProofs!mainVars
  <2> QED
    BY <1>11, <1>13, <2>1 DEF PoolProofs!WorkerStep
<1>14. CASE /\ k > 1 /\ label = "test" /\ done[k] /\ label2 = "drain"
            /\ items2 <= Size /\ counted2 = counted /\ out2 = out
  <2>1. \E n \in 0 .. Size : owed' = [owed EXCEPT ![k] = IF k < N THEN n ELSE 0]
    <3>1. items2 \in 0 .. Size /\ (k < N \/ items2 = 0)
      BY <1>1, <1>14, QueueAssumption
    <3>2. items2 = IF k < N THEN items2 ELSE 0
      BY <3>1
    <3> QED
      BY <1>3, <3>1, <3>2
  <2>2. /\ poolPc[k] = "test" /\ k > 1 /\ done[k] /\ PoolProofs!Goto(k, "drain")
        /\ UNCHANGED <<done, queue, entries_processed, remaining, pushed,
                       PoolProofs!mainVars, crashed>>
    BY <1>1, <1>2, <1>3, <1>7, <1>8, <1>9, <1>14 DEF PoolProofs!Goto, PoolProofs!mainVars
  <2>3. PoolProofs!Test(k)
    BY Zenon, <2>1, <2>2 DEF PoolProofs!Test
  <2> QED
    BY <1>11, <1>14, <2>3 DEF PoolProofs!WorkerStep
<1>15. CASE /\ k > 1 /\ label = "pop" /\ counted < pushed[k - 1] /\ label2 = "push"
            /\ items2 <= Records /\ counted2 = counted + 1 /\ out2 = out
  <2>1. \E n \in 0 .. Records : owed' = [owed EXCEPT ![k] = IF k < N THEN n ELSE 0]
    <3>1. items2 \in 0 .. Records /\ (k < N \/ items2 = 0)
      BY <1>1, <1>15, QueueAssumption
    <3>2. items2 = IF k < N THEN items2 ELSE 0
      BY <3>1
    <3> QED
      BY <1>3, <3>1, <3>2
  <2>2. queue[k - 1] = pushed[k - 1] - counted /\ queue[k - 1] > 0
    BY <1>1, <1>3, <1>4, <1>5, <1>15
  <2>3. queue' = [queue EXCEPT ![k - 1] = @ - 1]
    <3>1. \A i \in 1 .. 5 : queue'[i] = IF i = k - 1 THEN queue[i] - 1 ELSE queue[i]
      <4>1. entries_processed'[k] = entries_processed[k] + 1
        BY <1>1, <1>3, <1>5, <1>15
      <4>2. \A i \in 1 .. 6 \ {k} : entries_processed'[i] = entries_processed[i]
        BY <1>1, <1>3, <1>5
      <4>3. \A i \in 1 .. 5 : pushed'[i] = pushed[i]
        BY <1>8, <1>15
      <4> TAKE i \in 1 .. 5
      <4>4. /\ queue'[i] = pushed[i] - entries_processed'[i + 1]
            /\ queue[i] = pushed[i] - entries_processed[i + 1]
            /\ pushed[i] \in Nat /\ entries_processed[i + 1] \in Nat
        BY <1>4, <1>5, <4>3
      <4>5. CASE i = k - 1
        BY <1>1, <4>1, <4>4, <4>5
      <4>6. CASE i # k - 1
        <5>1. i + 1 \in 1 .. 6 \ {k}
          BY <1>1, <4>6
        <5> QED
          BY <4>2, <4>4, <4>6, <5>1
      <4> QED
        BY <4>5, <4>6
    <3>2. queue' = [i \in 1 .. 5 |-> queue'[i]] /\ DOMAIN queue = 1 .. 5
      BY <1>4
    <3> QED
      BY <1>1, <3>1, <3>2
  <2>4. entries_processed' = [entries_processed EXCEPT ![k] = @ + 1]
    BY <1>3, <1>15
  <2>5. PoolProofs!Pop(k)
    BY <1>1, <1>2, <1>3, <1>8, <1>15, <2>1, <2>2, <2>3, <2>4
       DEF PoolProofs!Pop, PoolProofs!Goto, PoolProofs!mainVars
  <2> QED
    BY <1>11, <1>15, <2>5 DEF PoolProofs!WorkerStep
<1>16. CASE /\ k > 1 /\ label = "pop" /\ counted = pushed[k - 1] /\ label2 = "test"
            /\ items2 = items /\ counted2 = counted /\ out2 = out
  <2>1. queue[k - 1] = 0
    BY <1>1, <1>3, <1>4, <1>5, <1>16
  <2>2. PoolProofs!TimedOut(k)
    BY <1>1, <1>2, <1>3, <1>6, <1>7, <1>8, <1>9, <1>16, <2>1
       DEF PoolProofs!TimedOut, PoolProofs!Goto, PoolProofs!mainVars, PoolProofs!taskVars
  <2> QED
    BY <1>11, <1>16, <2>2 DEF PoolProofs!WorkerStep
<1>17. CASE /\ label \in {"push", "drain"} /\ label2 = label /\ k < N /\ items > 0
            /\ out - entries_processed[k + 1] < Capacity
            /\ items2 = items - 1 /\ counted2 = counted /\ out2 = out + 1
  <2>1. queue[k] = out - entries_processed[k + 1] /\ queue[k] < Capacity
    BY <1>1, <1>3, <1>4, <1>17
  <2>2. queue' = [queue EXCEPT ![k] = @ + 1]
    <3>1. \A i \in 1 .. 5 : queue'[i] = IF i = k THEN queue[i] + 1 ELSE queue[i]
      BY <1>1, <1>3, <1>4, <1>5, <1>7, <1>17
    <3> QED
      BY <1>1, <1>4, <3>1
  <2>3. owed' = [owed EXCEPT ![k] = @ - 1] /\ pushed' = [pushed EXCEPT ![k] = @ + 1]
    BY <1>1, <1>3, <1>17
  <2>4. PoolProofs!Push(k)
    BY <1>1, <1>2, <1>3, <1>7, <1>10, <1>17, <2>1, <2>2, <2>3
       DEF PoolProofs!Push, PoolProofs!mainVars
  <2> QED
    BY Zenon, <1>12, <2>4
<1>18. CASE /\ label = "push" /\ items = 0 /\ label2 = "test"
            /\ items2 = items /\ counted2 = counted /\ out2 = out
  <2>1. PoolProofs!Handled(k)
    BY <1>1, <1>2, <1>3, <1>6, <1>7, <1>8, <1>9, <1>18
       DEF PoolProofs!Handled, PoolProofs!Goto, PoolProofs!mainVars, PoolProofs!taskVars
  <2> QED
    BY Zenon, <1>12, <2>1
<1>19. CASE /\ k > 1 /\ label = "drain" /\ items = 0 /\ label2 = "exited"
            /\ items2 = items /\ counted2 = counted /\ out2 = out
  <2>1. done' = [done EXCEPT ![k] = @ \/ k = 1]
    <3>1. done \in [1 .. 6 -> BOOLEAN] /\ k # 1 /\ done' = done
      BY <1>1, <1>3, <1>19 DEF PoolTypes
    <3>2. done[k] \in BOOLEAN /\ (k = 1 <=> FALSE)
      BY <1>1, <3>1
    <3>3. (done[k] \/ k = 1) = done[k]
      BY Zenon, <3>2
    <3>4. done = [done EXCEPT ![k] = done[k]]
      BY <3>1
    <3> QED
      BY Zenon, <3>1, <3>3, <3>4
  <2>2. PoolProofs!Exit(k)
    BY <1>1, <1>2, <1>3, <1>6, <1>7, <1>8, <1>9, <1>19, <2>1
       DEF PoolProofs!Exit, PoolProofs!Goto, PoolProofs!mainVars, PoolProofs!taskVars
  <2> QED
    BY <1>11, <1>19, <2>2 DEF PoolProofs!WorkerStep
<1> QED
  BY <1>13, <1>14, <1>15, <1>16, <1>17, <1>18, <1>19 DEF TaskMoves

\* Where the tasks are.
LEMMA AtTasks ==
  /\ At(1, reader_pc, Len(reader_pending), reader_count, Len(reader_output))
  /\ At(2, calibrator_pc, Len(calibrator_pending), calibrator_count, Len(calibrator_output))
  /\ At(3, buffer_pc, Len(buffer_pending), buffer_count, Len(buffer_output))
  /\ At(4, splitter_pc, Len(splitter_pending), splitter_count, Len(splitter_output))
  /\ At(5, trigger_pc, Len(trigger_pending), trigger_count, Len(trigger_output))
  /\ \A out : At(6, sorter_pc, 0, sorter_count, out)
<1>1. /\ pc[1] = reader_pc /\ pc[2] = calibrator_pc /\ pc[3] = buffer_pc
      /\ pc[4] = splitter_pc /\ pc[5] = trigger_pc /\ pc[6] = sorter_pc
  BY DEF pc
<1>2. /\ owed[1] = Len(reader_pending) /\ owed[2] = Len(calibrator_pending)
      /\ owed[3] = Len(buffer_pending) /\ owed[4] = Len(splitter_pending)
      /\ owed[5] = Len(trigger_pending) /\ owed[6] = 0
  BY DEF owed
<1>3. /\ entries_processed[1] = reader_count /\ entries_processed[2] = calibrator_count
      /\ entries_processed[3] = buffer_count /\ entries_processed[4] = splitter_count
      /\ entries_processed[5] = trigger_count /\ entries_processed[6] = sorter_count
  BY DEF entries_processed
<1>4. /\ pushed[1] = Len(reader_output) /\ pushed[2] = Len(calibrator_output)
      /\ pushed[3] = Len(buffer_output) /\ pushed[4] = Len(splitter_output)
      /\ pushed[5] = Len(trigger_output)
  BY DEF pushed
<1> QED
  BY <1>1, <1>2, <1>3, <1>4 DEF At, N

\* The reader moves, and the others stay where they are.
LEMMA ReaderGoes ==
  ASSUME UNCHANGED <<calibratorVars, bufferVars, splitterVars, triggerVars, sorterVars,
                     mainVars>>,
         reader_done' = reader_done, UNCHANGED remaining
  PROVE  GoesTo(1, reader_pc', Len(reader_pending'), reader_count', Len(reader_output'))
<1> USE DEF calibratorVars, bufferVars, splitterVars, triggerVars, sorterVars, mainVars
<1>1. pc' = [pc EXCEPT ![1] = reader_pc']
  BY SixTuple DEF pc
<1>2. owed' = [owed EXCEPT ![1] = Len(reader_pending')]
  BY SixTuple DEF owed
<1>3. entries_processed' = [entries_processed EXCEPT ![1] = reader_count']
  BY SixTuple DEF entries_processed
<1>4. pushed' = [pushed EXCEPT ![1] = Len(reader_output')]
  BY FiveTuple DEF pushed
<1>5. UNCHANGED <<done, main, next, crashed>>
  BY DEF done
<1>6. remaining' = remaining
  BY DEF remaining, Reader!RecordsOfAllFiles
<1> QED
  BY <1>1, <1>2, <1>3, <1>4, <1>5, <1>6 DEF GoesTo

\* The calibrator moves, and the others stay where they are.
LEMMA CalibratorGoes ==
  ASSUME UNCHANGED <<readerVars, bufferVars, splitterVars, triggerVars, sorterVars, mainVars>>,
         calibrator_done' = calibrator_done, crashed' = crashed
  PROVE  GoesTo(2, calibrator_pc', Len(calibrator_pending'), calibrator_count',
                Len(calibrator_output'))
<1> USE DEF readerVars, bufferVars, splitterVars, triggerVars, sorterVars, mainVars
<1>1. pc' = [pc EXCEPT ![2] = calibrator_pc']
  BY SixTuple DEF pc
<1>2. owed' = [owed EXCEPT ![2] = Len(calibrator_pending')]
  BY SixTuple DEF owed
<1>3. entries_processed' = [entries_processed EXCEPT ![2] = calibrator_count']
  BY SixTuple DEF entries_processed
<1>4. pushed' = [pushed EXCEPT ![2] = Len(calibrator_output')]
  BY FiveTuple DEF pushed
<1>5. UNCHANGED <<done, main, next, crashed>>
  BY DEF done
<1>6. remaining' = remaining
  BY DEF remaining, Reader!RecordsOfAllFiles
<1> QED
  BY <1>1, <1>2, <1>3, <1>4, <1>5, <1>6 DEF GoesTo

\* The buffer moves, and the others stay where they are.
LEMMA BufferGoes ==
  ASSUME UNCHANGED <<readerVars, calibratorVars, splitterVars, triggerVars, sorterVars,
                     mainVars>>,
         buffer_done' = buffer_done
  PROVE  GoesTo(3, buffer_pc', Len(buffer_pending'), buffer_count', Len(buffer_output'))
<1> USE DEF readerVars, calibratorVars, splitterVars, triggerVars, sorterVars, mainVars
<1>1. pc' = [pc EXCEPT ![3] = buffer_pc']
  BY SixTuple DEF pc
<1>2. owed' = [owed EXCEPT ![3] = Len(buffer_pending')]
  BY SixTuple DEF owed
<1>3. entries_processed' = [entries_processed EXCEPT ![3] = buffer_count']
  BY SixTuple DEF entries_processed
<1>4. pushed' = [pushed EXCEPT ![3] = Len(buffer_output')]
  BY FiveTuple DEF pushed
<1>5. UNCHANGED <<done, main, next, crashed>>
  BY DEF done
<1>6. remaining' = remaining
  BY DEF remaining, Reader!RecordsOfAllFiles
<1> QED
  BY <1>1, <1>2, <1>3, <1>4, <1>5, <1>6 DEF GoesTo

\* The splitter moves, and the others stay where they are.
LEMMA SplitterGoes ==
  ASSUME UNCHANGED <<readerVars, calibratorVars, bufferVars, triggerVars, sorterVars,
                     mainVars>>,
         splitter_done' = splitter_done
  PROVE  GoesTo(4, splitter_pc', Len(splitter_pending'), splitter_count', Len(splitter_output'))
<1> USE DEF readerVars, calibratorVars, bufferVars, triggerVars, sorterVars, mainVars
<1>1. pc' = [pc EXCEPT ![4] = splitter_pc']
  BY SixTuple DEF pc
<1>2. owed' = [owed EXCEPT ![4] = Len(splitter_pending')]
  BY SixTuple DEF owed
<1>3. entries_processed' = [entries_processed EXCEPT ![4] = splitter_count']
  BY SixTuple DEF entries_processed
<1>4. pushed' = [pushed EXCEPT ![4] = Len(splitter_output')]
  BY FiveTuple DEF pushed
<1>5. UNCHANGED <<done, main, next, crashed>>
  BY DEF done
<1>6. remaining' = remaining
  BY DEF remaining, Reader!RecordsOfAllFiles
<1> QED
  BY <1>1, <1>2, <1>3, <1>4, <1>5, <1>6 DEF GoesTo

\* The trigger moves, and the others stay where they are.
LEMMA TriggerGoes ==
  ASSUME UNCHANGED <<readerVars, calibratorVars, bufferVars, splitterVars, sorterVars,
                     mainVars>>,
         trigger_done' = trigger_done
  PROVE  GoesTo(5, trigger_pc', Len(trigger_pending'), trigger_count', Len(trigger_output'))
<1> USE DEF readerVars, calibratorVars, bufferVars, splitterVars, sorterVars, mainVars
<1>1. pc' = [pc EXCEPT ![5] = trigger_pc']
  BY SixTuple DEF pc
<1>2. owed' = [owed EXCEPT ![5] = Len(trigger_pending')]
  BY SixTuple DEF owed
<1>3. entries_processed' = [entries_processed EXCEPT ![5] = trigger_count']
  BY SixTuple DEF entries_processed
<1>4. pushed' = [pushed EXCEPT ![5] = Len(trigger_output')]
  BY FiveTuple DEF pushed
<1>5. UNCHANGED <<done, main, next, crashed>>
  BY DEF done
<1>6. remaining' = remaining
  BY DEF remaining, Reader!RecordsOfAllFiles
<1> QED
  BY <1>1, <1>2, <1>3, <1>4, <1>5, <1>6 DEF GoesTo

\* The sorter moves, and the others stay where they are.
LEMMA SorterGoes ==
  ASSUME UNCHANGED <<readerVars, calibratorVars, bufferVars, splitterVars, triggerVars,
                     mainVars>>,
         sorter_done' = sorter_done
  PROVE  \A out : GoesTo(6, sorter_pc', 0, sorter_count', out)
<1> USE DEF readerVars, calibratorVars, bufferVars, splitterVars, triggerVars, mainVars
<1>1. pc' = [pc EXCEPT ![6] = sorter_pc']
  BY SixTuple DEF pc
<1>2. owed' = [owed EXCEPT ![6] = 0]
  BY SixTuple DEF owed
<1>3. entries_processed' = [entries_processed EXCEPT ![6] = sorter_count']
  BY SixTuple DEF entries_processed
<1>4. \A out : pushed' = [pushed EXCEPT ![6] = out]
  BY FiveTuple DEF pushed
<1>5. UNCHANGED <<done, main, next, crashed>>
  BY DEF done
<1>6. remaining' = remaining
  BY DEF remaining, Reader!RecordsOfAllFiles
<1> QED
  BY <1>1, <1>2, <1>3, <1>4, <1>5, <1>6 DEF GoesTo

-----------------------------------------------------------------------------
(***************************************************************************)
(* The invariant                                                           *)
(***************************************************************************)
Hit == {Table!Calibrated(p) : p \in Reader!Pointers}

\* The table of the calibrator is the one of the properties.
LEMMA SameHits ==
    \A p : /\ Calibrator!keep(p) <=> Table!keep(p)
           /\ Calibrator!Calibrated(p) = Table!Calibrated(p)
<1>1. \A p : Calibrator!Detector(p) = Table!Detector(p)
  BY Zenon DEF Calibrator!Detector, Table!Detector, Calibrator!NotInUse, Table!NotInUse,
     Calibrator!index, Table!index
<1>2. \A p : Calibrator!keep(p) <=> Table!keep(p)
  BY Zenon, <1>1 DEF Calibrator!keep, Table!keep, Calibrator!Known, Table!Known,
     Calibrator!Kept, Table!Kept, Calibrator!index, Table!index
<1>3. Calibrator!Ns = Table!Ns
  BY DEF Calibrator!Ns, Table!Ns
<1>4. ASSUME NEW w
      PROVE  /\ Calibrator!Decode100MHz(w) = Table!Decode100MHz(w)
             /\ Calibrator!Decode250MHz(w) = Table!Decode250MHz(w)
             /\ Calibrator!Decode500MHz(w) = Table!Decode500MHz(w)
  <2>1. Calibrator!Decode100MHz(w) = Table!Decode100MHz(w)
    BY DEF Calibrator!Decode100MHz, Table!Decode100MHz, Calibrator!Bits, Table!Bits
  <2>2. Calibrator!Decode250MHz(w) = Table!Decode250MHz(w)
    BY DEF Calibrator!Decode250MHz, Table!Decode250MHz, Calibrator!Bits, Table!Bits,
       Calibrator!Ns, Table!Ns
  <2>3. Calibrator!Decode500MHz(w) = Table!Decode500MHz(w)
    BY DEF Calibrator!Decode500MHz, Table!Decode500MHz, Calibrator!Bits, Table!Bits,
       Calibrator!Ns, Table!Ns
  <2> QED
    BY Zenon, <2>1, <2>2, <2>3
<1>5. \A sfreq, w : Calibrator!Decode(sfreq, w) = Table!Decode(sfreq, w)
  BY <1>4 DEF Calibrator!Decode, Table!Decode
<1>6. /\ \A xia : Calibrator!timestamp(xia) = Table!timestamp(xia)
      /\ \A f : Calibrator!Tick(f) = Table!Tick(f)
      /\ \A xia : Calibrator!getTrace(xia) = Table!getTrace(xia)
  BY Zenon DEF Calibrator!timestamp, Table!timestamp, Calibrator!Tick, Table!Tick,
     Calibrator!getTrace, Table!getTrace, Calibrator!HeaderLengths, Table!HeaderLengths
<1>7. \A xia : Calibrator!getQDC(xia) = Table!getQDC(xia)
  BY Zenon DEF Calibrator!getQDC, Table!getQDC, Calibrator!QdcOffset, Table!QdcOffset
<1>8. \A p : Calibrator!Calibrated(p) = Table!Calibrated(p)
  BY Zenon, <1>1, <1>3, <1>5, <1>6, <1>7 DEF Calibrator!Calibrated, Table!Calibrated
<1> QED
  BY Zenon, <1>2, <1>8

Cluster == {c \in Seq(Hit) : c # << >> /\ Len(c) <= Records}

\* An event has hits, and in a gap run no trigger.
EventOf(st) ==
    {e \in [hits : Seq(Hit), index : Int] : e.hits # << >> /\ (st = "gap" => e.index = -1)}

\* What a task owes is of its kind, and it owes nothing outside of the statements
\* that push.
TaskState(Item, label, isdone, counted, pend, out) ==
    /\ isdone \in BOOLEAN /\ counted \in Nat
    /\ pend \in Seq(Item) /\ out \in Seq(Item)
    /\ label \notin {"push", "drain"} => pend = << >>

\* How far the reader is, and how many items each task may have at most: not more
\* than it has popped, nor more than the task before it has pushed.  So there are
\* never more hits in a cluster than records in the files.
ReaderInv ==
    /\ mapped_files \in Inputs /\ reader_done \in BOOLEAN
    /\ reader_count \in Nat /\ Reader!RecordsOfAllFiles \in Nat
    /\ reader_count <= Reader!RecordsOfAllFiles
    /\ reader_pending \in Seq(Reader!Pointers) /\ reader_output \in Seq(Reader!Pointers)
    /\ Len(reader_output) + Len(reader_pending) <= reader_count

CalibratorInv ==
    /\ TaskState(Hit, calibrator_pc, calibrator_done, calibrator_count,
                 calibrator_pending, calibrator_output)
    /\ calibrator_count <= Len(reader_output)
    /\ Len(calibrator_output) + Len(calibrator_pending) <= calibrator_count

BufferInv ==
    /\ TaskState(Hit, buffer_pc, buffer_done, buffer_count, buffer_pending, buffer_output)
    /\ buffer_count <= Len(calibrator_output)
    /\ buffer \in SUBSET Hit /\ IsFiniteSet(buffer) /\ Cardinality(buffer) <= Size
    /\ Len(buffer_output) + Len(buffer_pending) + Cardinality(buffer) <= buffer_count

SplitterInv ==
    /\ TaskState(Cluster, splitter_pc, splitter_done, splitter_count,
                 splitter_pending, splitter_output)
    /\ splitter_count <= Len(buffer_output)
    /\ entries \in Seq(Hit) /\ Len(entries) <= splitter_count
    /\ Len(splitter_output) + Len(splitter_pending) <= splitter_count

TriggerInv ==
    /\ TaskState(EventOf(sort_type), trigger_pc, trigger_done, trigger_count,
                 trigger_pending, trigger_output)
    /\ trigger_count <= Len(splitter_output)

\* The sorter skips no event, and the tree has the events the plugin has seen, but
\* for the one in hand.
SorterInv ==
    /\ sorter_done \in BOOLEAN /\ sorter_count \in Nat
    /\ sorter_count <= Len(trigger_output)
    /\ userSort \in Seq(EventOf(sort_type)) /\ Len(userSort) = sorter_count
    /\ sorter_pc = "push" => sorter_count > 0
    /\ tree = "open" /\ sorter_pc = "push" =>
         userSort = Append(tree_events, trigger_output[sorter_count])
    /\ tree = "open" /\ sorter_pc # "push" => tree_events = userSort
    /\ tree = "closed" => tree_events = userSort
    /\ sorter_pc = "exited" => tree # "open"
    /\ tree = "closed" => sorter_pc = "exited"

\* The threads that AddTask has not started are where they will start.
StartInv ==
    /\ next \in 1 .. N
    /\ main = "add" => \A i \in 1 .. N : i >= next => pc[i] = "test"

TasksInv == /\ ReaderInv /\ CalibratorInv /\ BufferInv /\ SplitterInv
            /\ TriggerInv /\ SorterInv /\ StartInv

\* The numbers of the pool are numbers.
LEMMA TasksAreTyped == ASSUME TasksInv PROVE PoolTypes
<1>1. /\ Len(reader_pending) \in Nat /\ Len(reader_output) \in Nat /\ reader_count \in Nat
  BY LenProperties DEF TasksInv, ReaderInv
<1>2. /\ Len(calibrator_pending) \in Nat /\ Len(calibrator_output) \in Nat
      /\ Len(buffer_pending) \in Nat /\ Len(buffer_output) \in Nat
      /\ Len(splitter_pending) \in Nat /\ Len(splitter_output) \in Nat
      /\ Len(trigger_pending) \in Nat /\ Len(trigger_output) \in Nat
  BY LenProperties DEF TasksInv, CalibratorInv, BufferInv, SplitterInv, TriggerInv,
     TaskState
<1>3. /\ calibrator_count \in Nat /\ buffer_count \in Nat /\ splitter_count \in Nat
      /\ trigger_count \in Nat /\ sorter_count \in Nat
  BY DEF TasksInv, CalibratorInv, BufferInv, SplitterInv, TriggerInv, SorterInv, TaskState
<1>4. entries_processed \in [1 .. 6 -> Nat]
  BY <1>1, <1>3 DEF entries_processed
<1>5. pushed \in [1 .. 5 -> Nat]
  BY <1>1, <1>2 DEF pushed
<1>6. owed \in [1 .. 6 -> Nat]
  <2>1. \A a, b, c, d, e, f \in Nat : <<a, b, c, d, e, f>> \in [1 .. 6 -> Nat]
    OBVIOUS
  <2>2. 0 \in Nat
    OBVIOUS
  <2> QED
    BY Zenon, <1>1, <1>2, <2>1, <2>2 DEF owed
<1>7. done \in [1 .. 6 -> BOOLEAN]
  BY DEF done, TasksInv, ReaderInv, CalibratorInv, BufferInv, SplitterInv, TriggerInv,
     SorterInv,
     TaskState
<1> QED
  BY <1>4, <1>5, <1>6, <1>7 DEF PoolTypes, N, TasksInv, StartInv

\* No task has more items than the files have records, up to the splitter.
LEMMA CountsBounded ==
  ASSUME TasksInv
  PROVE  /\ Len(reader_output) \in 0 .. Records /\ Len(calibrator_output) \in 0 .. Records
         /\ Len(buffer_output) \in 0 .. Records
<1>1. /\ Len(reader_output) \in Nat /\ reader_count <= Reader!RecordsOfAllFiles
      /\ Len(reader_output) <= reader_count /\ reader_count \in Nat
      /\ Reader!RecordsOfAllFiles \in Nat
  <2>1. Len(reader_pending) \in Nat /\ Len(reader_output) \in Nat
    BY LenProperties DEF TasksInv, ReaderInv
  <2> QED
    BY <2>1 DEF TasksInv, ReaderInv
<1>2. Reader!RecordsOfAllFiles <= Records /\ Records \in Nat
  BY InputsAssumption, QueueAssumption DEF TasksInv, ReaderInv, Reader!RecordsOfAllFiles
<1>3. /\ Len(calibrator_output) \in Nat /\ Len(calibrator_pending) \in Nat
      /\ calibrator_count \in Nat /\ calibrator_count <= Len(reader_output)
      /\ Len(calibrator_output) + Len(calibrator_pending) <= calibrator_count
  BY LenProperties DEF TasksInv, CalibratorInv, TaskState
<1>4. /\ Len(buffer_output) \in Nat
      /\ Len(buffer_pending) \in Nat
      /\ Cardinality(buffer) \in Nat
      /\ buffer_count \in Nat /\ buffer_count <= Len(calibrator_output)
      /\ Len(buffer_output) + Len(buffer_pending) + Cardinality(buffer) <= buffer_count
  BY LenProperties, FS_CardinalityType DEF TasksInv, BufferInv, TaskState
<1>5. Len(reader_output) <= Records
  BY <1>1, <1>2
<1>6. Len(calibrator_output) <= Records
  BY <1>1, <1>2, <1>3, <1>5
<1>7. Len(buffer_output) <= Records
  BY <1>2, <1>3, <1>4, <1>6
<1> QED
  BY <1>1, <1>3, <1>4, <1>5, <1>6, <1>7

\* The lengths of the queues' histories are numbers.
LEMMA LengthsAreNumbers ==
  ASSUME TasksInv
  PROVE  /\ Len(reader_output) \in Nat /\ Len(calibrator_output) \in Nat
         /\ Len(buffer_output) \in Nat /\ Len(splitter_output) \in Nat
         /\ Len(trigger_output) \in Nat
         /\ {reader_done, calibrator_done, buffer_done, splitter_done, trigger_done,
             sorter_done} \subseteq BOOLEAN
<1>1. Len(reader_output) \in Nat
  BY LenProperties DEF TasksInv, ReaderInv
<1>2. /\ Len(calibrator_output) \in Nat
      /\ Len(buffer_output) \in Nat /\ Len(splitter_output) \in Nat
      /\ Len(trigger_output) \in Nat
  BY LenProperties DEF TasksInv, CalibratorInv, BufferInv, SplitterInv, TriggerInv,
     TaskState
<1>3. {reader_done, calibrator_done, buffer_done, splitter_done, trigger_done,
             sorter_done} \subseteq BOOLEAN
  BY DEF TasksInv, ReaderInv, CalibratorInv, BufferInv, SplitterInv, TriggerInv,
     SorterInv, TaskState
<1> QED
  BY <1>1, <1>2, <1>3

-----------------------------------------------------------------------------
(***************************************************************************)
(* What a step of a task does                                              *)
(***************************************************************************)
\* One item moves into the queue.
LEMMA PushMoves ==
  ASSUME NEW Item, NEW pend \in Seq(Item), NEW out \in Seq(Item), pend # << >>
  PROVE  /\ Tail(pend) \in Seq(Item) /\ Append(out, Head(pend)) \in Seq(Item)
         /\ Len(Append(out, Head(pend))) = Len(out) + 1 /\ Len(Tail(pend)) = Len(pend) - 1
         /\ Len(pend) \in Nat /\ Len(out) \in Nat /\ Len(pend) > 0
<1>1. /\ Head(pend) \in Item /\ Tail(pend) \in Seq(Item) /\ Len(Tail(pend)) = Len(pend) - 1
      /\ Len(pend) \in Nat /\ Len(out) \in Nat
  BY HeadTailProperties, LenProperties
<1>2. Len(pend) # 0
  BY EmptySeq
<1> QED
  BY <1>1, <1>2, AppendProperties

\* The steps that the tasks between the reader and the sorter share: the test of done,
\* with nothing left to push, a queue found empty, a push, and what follows the pushes.
Shared(label, isdone, counted, pend, out, arrived, taken, label2, pend2, out2) ==
    \/ /\ label = "test" /\ label2 = (IF isdone THEN "drain" ELSE "pop")
       /\ pend2 = pend /\ out2 = out
    \/ /\ label = "pop" /\ label2 = "test" /\ ~(counted < arrived)
       /\ pend2 = pend /\ out2 = out
    \/ /\ label \in {"push", "drain"} /\ label2 = label /\ pend # << >>
       /\ Len(out) - taken < Capacity
       /\ pend2 = Tail(pend) /\ out2 = Append(out, Head(pend))
    \/ /\ pend = << >> /\ pend2 = pend /\ out2 = out
       /\ \/ label = "push" /\ label2 = "test"
          \/ label = "drain" /\ label2 = "exited"

\* They keep what is said of a task, and move items only from what it owes to its queue.
LEMMA SharedSteps ==
  ASSUME NEW k \in 2 .. 5, NEW Item, NEW label, NEW isdone, NEW counted, NEW pend, NEW out,
         NEW arrived \in Nat, NEW taken, NEW label2, NEW pend2, NEW out2,
         TaskState(Item, label, isdone, counted, pend, out), counted <= arrived,
         done[k] = isdone, pushed[k - 1] = arrived, entries_processed[k + 1] = taken,
         Shared(label, isdone, counted, pend, out, arrived, taken, label2, pend2, out2)
  PROVE  /\ TaskState(Item, label2, isdone, counted, pend2, out2)
         /\ Len(out) <= Len(out2) /\ Len(out2) + Len(pend2) = Len(out) + Len(pend)
         /\ TaskMoves(k, label, Len(pend), counted, Len(out), label2, Len(pend2), counted,
                      Len(out2))
<1>1. /\ isdone \in BOOLEAN /\ counted \in Nat /\ pend \in Seq(Item) /\ out \in Seq(Item)
      /\ label \notin {"push", "drain"} => pend = << >>
  BY DEF TaskState
<1>2. Len(pend) \in Nat /\ Len(out) \in Nat /\ Len(<< >>) = 0
  BY <1>1, LenProperties
<1>3. CASE /\ label \in {"push", "drain"} /\ label2 = label /\ pend # << >>
           /\ Len(out) - taken < Capacity
           /\ pend2 = Tail(pend) /\ out2 = Append(out, Head(pend))
  <2>1. /\ pend2 \in Seq(Item) /\ out2 \in Seq(Item)
        /\ Len(out2) = Len(out) + 1 /\ Len(pend2) = Len(pend) - 1 /\ Len(pend) > 0
    BY <1>1, <1>3, PushMoves
  <2>2. PICK a \in Nat, b \in Nat : a = Len(out) /\ b = Len(pend)
    BY <1>2
  <2>3. TaskState(Item, label2, isdone, counted, pend2, out2)
    BY <1>1, <1>3, <2>1 DEF TaskState
  <2>4. TaskMoves(k, label, Len(pend), counted, Len(out), label2, Len(pend2), counted,
                  Len(out2))
    <3>1. k < N /\ taken = entries_processed[k + 1]
      BY DEF N
    <3>2. Len(out) - entries_processed[k + 1] < Capacity
      BY Zenon, <1>3, <3>1
    <3> QED
      BY Zenon, <1>3, <2>1, <3>1, <3>2 DEF TaskMoves
  <2>5. Len(out) <= Len(out2) /\ Len(out2) + Len(pend2) = Len(out) + Len(pend)
    BY <2>1, <2>2
  <2> QED
    BY <2>3, <2>4, <2>5
<1>4. CASE /\ label = "test" /\ label2 = (IF isdone THEN "drain" ELSE "pop")
           /\ pend2 = pend /\ out2 = out
  <2>1. TaskMoves(k, label, Len(pend), counted, Len(out), label2, Len(pend2), counted,
                  Len(out2))
    BY <1>1, <1>2, <1>4, QueueAssumption DEF TaskMoves
  <2> QED
    BY <1>1, <1>2, <1>4, <2>1 DEF TaskState
<1>5. CASE /\ label = "pop" /\ label2 = "test" /\ ~(counted < arrived)
           /\ pend2 = pend /\ out2 = out
  <2>1. counted = arrived
    BY <1>1, <1>5
  <2>2. TaskMoves(k, label, Len(pend), counted, Len(out), label2, Len(pend2), counted,
                  Len(out2))
    BY <1>5, <2>1 DEF TaskMoves
  <2> QED
    BY <1>1, <1>2, <1>5, <2>2 DEF TaskState
<1>6. CASE /\ pend = << >> /\ pend2 = pend /\ out2 = out
           /\ \/ label = "push" /\ label2 = "test"
              \/ label = "drain" /\ label2 = "exited"
  <2>1. TaskMoves(k, label, Len(pend), counted, Len(out), label2, Len(pend2), counted,
                  Len(out2))
    BY <1>2, <1>6 DEF TaskMoves
  <2> QED
    BY <1>1, <1>2, <1>6, <2>1 DEF TaskState
<1> QED
  BY <1>3, <1>4, <1>5, <1>6 DEF Shared

\* The calibrator.
LEMMA CalibratorSteps ==
  ASSUME TasksInv, CalibratorStep
  PROVE  /\ CalibratorInv' /\ Len(calibrator_output) <= Len(calibrator_output')
         /\ ~crashed /\ PoolProofs!Running
<1> DEFINE moves == TaskMoves(2, calibrator_pc, Len(calibrator_pending), calibrator_count,
                              Len(calibrator_output), calibrator_pc', Len(calibrator_pending'),
                              calibrator_count', Len(calibrator_output'))
<1>1. /\ CalibratorInv /\ PoolTypes /\ Runs(2) /\ Calibrator!Run
      /\ UNCHANGED <<readerVars, bufferVars, splitterVars, triggerVars, sorterVars, mainVars>>
  BY TasksAreTyped DEF TasksInv, CalibratorStep
<1>2. /\ calibrator_count \in Nat
      /\ calibrator_pending \in Seq(Hit)
      /\ calibrator_output \in Seq(Hit)
      /\ Len(calibrator_pending) \in Nat /\ Len(calibrator_output) \in Nat
      /\ calibrator_count <= Len(reader_output) /\ calibrator_done \in BOOLEAN
  BY <1>1, LenProperties DEF CalibratorInv, TaskState
<1>3. UNCHANGED <<reader_output, buffer_count>>
  BY <1>1 DEF readerVars, bufferVars
<1>4. done[2] = calibrator_done /\ pushed[1] = Len(reader_output) /\ Len(reader_output) \in Nat
  BY <1>1 DEF done, pushed, PoolTypes
<1>5. ASSUME moves, CalibratorInv', calibrator_done' = calibrator_done, crashed' = crashed,
             Len(calibrator_output) <= Len(calibrator_output')
      PROVE  /\ CalibratorInv' /\ Len(calibrator_output) <= Len(calibrator_output')
             /\ ~crashed /\ PoolProofs!Running
  <2>1. /\ Len(calibrator_pending') \in Nat /\ calibrator_count' \in Nat
        /\ Len(calibrator_output') \in Nat
    BY <1>5, LenProperties DEF CalibratorInv, TaskState
  <2>2. 2 \in 1 .. N /\ (2 = N => Len(calibrator_pending') = 0)
    BY DEF N
  <2> QED
    BY Zenon, <1>1, <1>2, <1>5, <2>1, <2>2, AtTasks, CalibratorGoes, TaskOfPool
<1>6. Calibrator!Throw \/ Calibrator!Pop \/
          /\ Shared(calibrator_pc, calibrator_done, calibrator_count, calibrator_pending,
                    calibrator_output, Len(reader_output), buffer_count,
                    calibrator_pc', calibrator_pending', calibrator_output')
          /\ UNCHANGED <<calibrator_done, calibrator_count, crashed>>
  <2>1. calibrator_pc = "test" => calibrator_pending = << >>
    BY <1>1 DEF CalibratorInv, TaskState
  <2> QED
    BY <1>1, <2>1 DEF Calibrator!Run, Calibrator!Test, Calibrator!TimedOut,
       Calibrator!ItemWaiting,
       Calibrator!Push, Calibrator!Handled, Calibrator!Exit, Shared
<1>7. CASE Shared(calibrator_pc, calibrator_done, calibrator_count, calibrator_pending,
                  calibrator_output, Len(reader_output), buffer_count,
                  calibrator_pc', calibrator_pending', calibrator_output')
           /\ UNCHANGED <<calibrator_done, calibrator_count, crashed>>
  <2>1. 2 \in 2 .. 5 /\ 2 - 1 = 1 /\ 2 + 1 = 3 /\ entries_processed[3] = buffer_count
    BY DEF entries_processed
  <2>2. /\ TaskState(Hit, calibrator_pc, calibrator_done, calibrator_count,
                     calibrator_pending, calibrator_output)
        /\ Len(calibrator_output) + Len(calibrator_pending) <= calibrator_count
    BY <1>1 DEF CalibratorInv
  <2>3. /\ TaskState(Hit, calibrator_pc', calibrator_done, calibrator_count,
                     calibrator_pending', calibrator_output')
        /\ Len(calibrator_output) <= Len(calibrator_output')
        /\ Len(calibrator_output') + Len(calibrator_pending')
              = Len(calibrator_output) + Len(calibrator_pending)
        /\ TaskMoves(2, calibrator_pc, Len(calibrator_pending), calibrator_count,
                     Len(calibrator_output), calibrator_pc', Len(calibrator_pending'),
                     calibrator_count, Len(calibrator_output'))
    BY <1>2, <1>4, <1>7, <2>1, <2>2, SharedSteps
  <2>4. CalibratorInv'
    BY <1>2, <1>3, <1>7, <2>2, <2>3 DEF CalibratorInv, TaskState
  <2> QED
    BY <1>5, <1>7, <2>3, <2>4
<1>8. CASE Calibrator!Pop
  <2>1. /\ calibrator_pc = "pop" /\ calibrator_pc' = "push"
        /\ calibrator_count < Len(reader_output) /\ calibrator_count' = calibrator_count + 1
        /\ UNCHANGED <<calibrator_done, calibrator_output, crashed>>
        /\ calibrator_pending = << >>
    BY <1>1, <1>8 DEF Calibrator!Pop, Calibrator!PopNext, Calibrator!ItemWaiting,
       CalibratorInv, TaskState
  <2>2. calibrator_pending' \in Seq(Hit) /\ Len(calibrator_pending') \in 0 .. 1
    <3>1. reader_output[calibrator_count + 1] \in Reader!Pointers
      BY <1>1, <1>2, <1>4, <2>1, ElementOfSeq DEF TasksInv, ReaderInv
    <3>2. Calibrator!Calibrated(reader_output[calibrator_count + 1]) \in Hit
      BY <3>1, SameHits DEF Hit
    <3>3. \A h \in Hit : <<h>> \in Seq(Hit) /\ Len(<<h>>) = 1
      OBVIOUS
    <3>4. << >> \in Seq(Hit) /\ Len(<< >>) = 0
      OBVIOUS
    <3> QED
      BY <1>8, <3>2, <3>3, <3>4 DEF Calibrator!Pop, Calibrator!NextItem
  <2>3. PICK n \in 0 .. 1 : n = Len(calibrator_pending')
    BY <2>2
  <2>4. n <= Records
    BY <1>2, <2>1, CountsBounded, QueueAssumption
  <2>5. moves
    BY <1>4, <2>1, <2>3, <2>4 DEF TaskMoves
  <2>6. CalibratorInv'
    <3>1. Len(calibrator_output') + Len(calibrator_pending') <= calibrator_count'
      <4>1. Len(calibrator_output) <= calibrator_count
        BY <1>1, <1>2 DEF CalibratorInv
      <4>2. Len(calibrator_output') = Len(calibrator_output)
        BY <2>1
      <4>3. /\ calibrator_count \in Nat
            /\ calibrator_count' = calibrator_count + 1
            /\ Len(calibrator_output) \in Nat
        BY <1>2, <2>1
      <4> QED
        BY <2>3, <4>1, <4>2, <4>3
    <3>2. calibrator_count' \in Nat /\ calibrator_count' <= Len(reader_output')
      BY <1>2, <1>3, <1>4, <2>1
    <3> QED
      BY <1>2, <2>1, <2>2, <3>1, <3>2 DEF CalibratorInv, TaskState
  <2> QED
    BY <1>2, <1>5, <2>1, <2>5, <2>6
<1>9. CASE Calibrator!Throw
  <2>1. /\ calibrator_pc = "push" /\ crashed' = TRUE
        /\ UNCHANGED <<calibrator_pc, calibrator_done, calibrator_count,
                       calibrator_pending, calibrator_output>>
    BY <1>9 DEF Calibrator!Throw
  <2>2. CalibratorInv'
    BY <1>1, <1>3, <2>1 DEF CalibratorInv, TaskState
  <2>3. UNCHANGED <<poolPc, done, owed, queue, entries_processed, remaining, pushed,
                    poolMain, next>>
    BY <1>1, <2>1 DEF poolPc, done, owed, queue, entries_processed, remaining, pushed,
       poolMain,
       readerVars, bufferVars, splitterVars, triggerVars, sorterVars, mainVars, pc,
       Reader!RecordsOfAllFiles
  <2>4. poolPc[2] = "push" /\ 2 \in 1 .. N
    <3>1. /\ At(2, calibrator_pc, Len(calibrator_pending), calibrator_count, Len(calibrator_output))
          /\ 2 \in 1 .. N
      BY AtTasks DEF N
    <3> QED
      BY Zenon, <1>1, <2>1, <3>1, PcOfTask DEF At, PoolTypes
  <2>5. PoolProofs!Throw(2)
    BY <2>1, <2>3, <2>4 DEF PoolProofs!Throw, PoolProofs!taskVars, PoolProofs!mainVars
  <2>6. ~crashed /\ PoolProofs!Running
    BY <1>1, <2>4, <2>5 DEF Runs, PoolProofs!Running, PoolProofs!Tasks
  <2> QED
    BY <1>2, <2>1, <2>2, <2>6
<1> QED
  BY <1>6, <1>8, <1>7, <1>9

\* One hit more in the buffer.
LEMMA OneMore ==
  ASSUME NEW S, IsFiniteSet(S), NEW x
  PROVE  /\ IsFiniteSet(S \cup {x}) /\ Cardinality(S \cup {x}) \in Nat
         /\ Cardinality(S \cup {x}) <= Cardinality(S) + 1
<1>1. /\ IsFiniteSet(S \cup {x})
      /\ \/ Cardinality(S \cup {x}) = Cardinality(S)
         \/ Cardinality(S \cup {x}) = Cardinality(S) + 1
  BY FS_AddElement
<1>2. Cardinality(S) \in Nat
  BY FS_CardinalityType
<1> QED
  BY <1>1, <1>2

\* The buffer.
LEMMA BufferSteps ==
  ASSUME TasksInv, BufferStep
  PROVE  /\ BufferInv' /\ Len(buffer_output) <= Len(buffer_output')
         /\ ~crashed /\ PoolProofs!Running
<1> DEFINE moves == TaskMoves(3, buffer_pc, Len(buffer_pending), buffer_count,
                              Len(buffer_output), buffer_pc', Len(buffer_pending'),
                              buffer_count', Len(buffer_output'))
<1>1. /\ BufferInv /\ PoolTypes /\ Runs(3) /\ Buffer!Run
      /\ UNCHANGED <<readerVars, calibratorVars, splitterVars, triggerVars, sorterVars,
                     mainVars>>
  BY TasksAreTyped DEF TasksInv, BufferStep
<1>2. /\ buffer_count \in Nat /\ buffer_pending \in Seq(Hit) /\ buffer_output \in Seq(Hit)
      /\ Len(buffer_pending) \in Nat /\ Len(buffer_output) \in Nat
      /\ buffer_count <= Len(calibrator_output) /\ buffer_done \in BOOLEAN
      /\ buffer \in SUBSET Hit /\ IsFiniteSet(buffer) /\ Cardinality(buffer) \in Nat
      /\ Cardinality(buffer) <= Size
  BY <1>1, LenProperties, FS_CardinalityType DEF BufferInv, TaskState
<1>3. UNCHANGED <<calibrator_output, splitter_count>>
  BY <1>1 DEF calibratorVars, splitterVars
<1>4. /\ done[3] = buffer_done /\ pushed[2] = Len(calibrator_output)
      /\ Len(calibrator_output) \in 0 .. Records
  BY <1>1, CountsBounded DEF done, pushed, PoolTypes
<1>5. ASSUME moves, BufferInv', buffer_done' = buffer_done,
             Len(buffer_output) <= Len(buffer_output')
      PROVE  /\ BufferInv' /\ Len(buffer_output) <= Len(buffer_output')
             /\ ~crashed /\ PoolProofs!Running
  <2>1. /\ Len(buffer_pending') \in Nat /\ buffer_count' \in Nat
        /\ Len(buffer_output') \in Nat
    BY <1>5, LenProperties DEF BufferInv, TaskState
  <2>2. 3 \in 1 .. N /\ (3 = N => Len(buffer_pending') = 0)
    BY DEF N
  <2> QED
    BY Zenon, <1>1, <1>2, <1>5, <2>1, <2>2, AtTasks, BufferGoes, TaskOfPool
<1>6. Buffer!Pop \/ (Buffer!TestAndDrain /\ buffer_done) \/
          /\ Shared(buffer_pc, buffer_done, buffer_count, buffer_pending,
                    buffer_output, Len(calibrator_output), splitter_count,
                    buffer_pc', buffer_pending', buffer_output')
          /\ UNCHANGED <<buffer_done, buffer_count, buffer>>
  BY <1>1 DEF Buffer!Run, Buffer!TestAndDrain, Buffer!Test, Buffer!TimedOut,
     Buffer!ItemWaiting,
     Buffer!Push, Buffer!Handled, Buffer!Exit, Shared
<1>7. CASE Buffer!Pop
  <2>1. /\ buffer_pc = "pop" /\ buffer_pc' = "push" /\ buffer_pending = << >>
        /\ buffer_count < Len(calibrator_output) /\ buffer_count' = buffer_count + 1
        /\ UNCHANGED <<buffer_done, buffer_output>>
    BY <1>1, <1>7 DEF Buffer!Pop, Buffer!PopNext, Buffer!ItemWaiting, BufferInv, TaskState
  <2>2. PICK hit \in Hit : hit = Buffer!NextItem
    BY <1>2, <1>4, <2>1, ElementOfSeq DEF Buffer!NextItem, TasksInv, CalibratorInv,
       TaskState
  <2>3. PICK hits \in SUBSET Hit : hits = buffer \cup {hit}
    BY <1>2
  <2>4. /\ IsFiniteSet(hits) /\ Cardinality(hits) \in Nat
        /\ Cardinality(hits) <= Cardinality(buffer) + 1
    BY <1>2, <2>3, OneMore
  <2>5. Len(buffer_output) + Cardinality(buffer) <= buffer_count
    <3>1. Len(buffer_output) + Len(buffer_pending) + Cardinality(buffer) <= buffer_count
      BY <1>1 DEF BufferInv
    <3> QED
      BY <1>2, <3>1
  <2>6. Buffer!Cardinality(hits) = Cardinality(hits)
    BY Zenon DEF Buffer!Cardinality, Cardinality
  <2>7. IF Cardinality(hits) > Size
          THEN \E top \in hits : buffer' = hits \ {top} /\ buffer_pending' = <<top>>
          ELSE buffer' = hits /\ buffer_pending' = << >>
    BY <1>7, <2>2, <2>3, <2>6 DEF Buffer!Pop, Buffer!Tops
  <2>8. /\ buffer' \in SUBSET Hit /\ IsFiniteSet(buffer') /\ Cardinality(buffer') <= Size
        /\ buffer_pending' \in Seq(Hit) /\ Len(buffer_pending') \in 0 .. 1
        /\ Cardinality(buffer') \in Nat
        /\ Len(buffer_pending') + Cardinality(buffer') <= Cardinality(buffer) + 1
    <3>1. CASE Cardinality(hits) > Size
      <4>1. PICK top \in hits : buffer' = hits \ {top} /\ buffer_pending' = <<top>>
        BY <2>7, <3>1
      <4>2. /\ IsFiniteSet(buffer') /\ Cardinality(buffer') = Cardinality(hits) - 1
            /\ Cardinality(buffer') \in Nat
        BY <2>4, <4>1, FS_RemoveElement, FS_CardinalityType
      <4>3. <<top>> \in Seq(Hit) /\ Len(<<top>>) = 1
        OBVIOUS
      <4> QED
        BY <1>2, <2>4, <4>1, <4>2, <4>3, QueueAssumption
    <3>2. CASE ~(Cardinality(hits) > Size)
      <4>1. buffer' = hits /\ buffer_pending' = << >>
        BY <2>7, <3>2
      <4>2. << >> \in Seq(Hit) /\ Len(<< >>) = 0
        OBVIOUS
      <4> QED
        BY <1>2, <2>4, <3>2, <4>1, <4>2, QueueAssumption
    <3> QED
      BY <3>1, <3>2
  <2>9. PICK p \in 0 .. 1, c \in Nat : p = Len(buffer_pending') /\ c = Cardinality(buffer')
    BY <2>8
  <2>10. p <= Records
    BY <1>2, <1>4, <2>1, QueueAssumption
  <2>11. moves
    BY <1>4, <2>1, <2>9, <2>10 DEF TaskMoves
  <2>12. /\ buffer_count' \in Nat /\ buffer_count' <= Len(calibrator_output')
         /\ buffer_output' \in Seq(Hit)
         /\ Len(buffer_output') + Len(buffer_pending') + Cardinality(buffer') <= buffer_count'
    <3>1. PICK o \in Nat, n \in Nat, b \in Nat :
              o = Len(buffer_output) /\ n = buffer_count /\ b = Cardinality(buffer)
      BY <1>2
    <3>2. o + b <= n /\ p + c <= b + 1
      BY <2>5, <2>8, <2>9, <3>1
    <3>3. o + p + c <= n + 1
      BY <3>2
    <3> QED
      BY <1>2, <1>3, <1>4, <2>1, <2>9, <3>1, <3>3
  <2>13. BufferInv'
    BY <1>2, <2>1, <2>8, <2>12 DEF BufferInv, TaskState
  <2> QED
    BY <1>2, <1>5, <2>1, <2>11, <2>13
<1>8. CASE Buffer!TestAndDrain /\ buffer_done
  <2>1. /\ buffer_pc = "test" /\ buffer_pc' = "drain" /\ buffer_pending = << >> /\ buffer' = {}
        /\ UNCHANGED <<buffer_done, buffer_count, buffer_output>>
    BY <1>1, <1>8 DEF Buffer!TestAndDrain, Buffer!Test, BufferInv, TaskState
  <2>2. PICK order \in Buffer!SetToSeqs(buffer) : buffer_pending' = order
    BY <1>8 DEF Buffer!TestAndDrain, Buffer!Orders
  <2>3. PICK n \in Nat : n = Cardinality(buffer) /\ n <= Size
    BY <1>2
  <2>4. order \in [1 .. n -> buffer]
    BY <2>2, <2>3 DEF Buffer!SetToSeqs, Buffer!Cardinality, Cardinality
  <2>5. order \in Seq(Hit) /\ Len(order) = n
    <3>1. order \in [1 .. n -> Hit]
      BY <1>2, <2>4
    <3> QED
      BY <3>1, IsASeq, LenProperties
  <2>6. moves
    <3>1. Len(buffer_pending') <= Size
      BY <2>2, <2>3, <2>5
    <3> HIDE DEF moves
    <3>2. /\ 3 > 1 /\ buffer_pc = "test" /\ done[3] /\ buffer_pc' = "drain"
          /\ Len(buffer_pending') <= Size
          /\ buffer_count' = buffer_count /\ Len(buffer_output') = Len(buffer_output)
      BY <1>4, <1>8, <2>1, <3>1
    <3> QED
      BY Zenon, <3>2 DEF moves, TaskMoves
  <2>7. Len(buffer_output') + Len(buffer_pending') + Cardinality(buffer') <= buffer_count'
    <3>1. Len(buffer_output) + Len(buffer_pending) + Cardinality(buffer) <= buffer_count
      BY <1>1 DEF BufferInv
    <3>2. Cardinality(buffer') = 0
      BY <2>1, FS_EmptySet
    <3> QED
      BY <1>2, <2>1, <2>2, <2>3, <2>5, <3>1, <3>2 DEF TaskState
  <2>8. BufferInv'
    <3>1. IsFiniteSet(buffer') /\ Cardinality(buffer') <= Size
      BY <2>1, FS_EmptySet, QueueAssumption
    <3> QED
      BY <1>2, <1>3, <2>1, <2>2, <2>5, <2>7, <3>1 DEF BufferInv, TaskState
  <2> QED
    BY <1>2, <1>5, <2>1, <2>6, <2>8
<1>9. CASE Shared(buffer_pc, buffer_done, buffer_count, buffer_pending,
                  buffer_output, Len(calibrator_output), splitter_count,
                  buffer_pc', buffer_pending', buffer_output')
           /\ UNCHANGED <<buffer_done, buffer_count, buffer>>
  <2>1. 3 \in 2 .. 5 /\ 3 - 1 = 2 /\ 3 + 1 = 4 /\ entries_processed[4] = splitter_count
    BY DEF entries_processed
  <2>2. /\ TaskState(Hit, buffer_pc, buffer_done, buffer_count, buffer_pending, buffer_output)
        /\ Len(buffer_output) + Len(buffer_pending) + Cardinality(buffer) <= buffer_count
    BY <1>1 DEF BufferInv
  <2>3. /\ TaskState(Hit, buffer_pc', buffer_done, buffer_count, buffer_pending',
                     buffer_output')
        /\ Len(buffer_output) <= Len(buffer_output')
        /\ Len(buffer_output') + Len(buffer_pending') = Len(buffer_output) + Len(buffer_pending)
        /\ TaskMoves(3, buffer_pc, Len(buffer_pending), buffer_count,
                     Len(buffer_output), buffer_pc', Len(buffer_pending'),
                     buffer_count, Len(buffer_output'))
    BY <1>2, <1>4, <1>9, <2>1, <2>2, SharedSteps
  <2>4. BufferInv'
    BY <1>2, <1>3, <1>9, <2>2, <2>3 DEF BufferInv, TaskState
  <2> QED
    BY <1>5, <1>9, <2>3, <2>4
<1> QED
  BY <1>6, <1>7, <1>8, <1>9

\* The splitter.
LEMMA SplitterSteps ==
  ASSUME TasksInv, SplitterStep
  PROVE  /\ SplitterInv' /\ Len(splitter_output) <= Len(splitter_output')
         /\ ~crashed /\ PoolProofs!Running
<1> DEFINE moves == TaskMoves(4, splitter_pc, Len(splitter_pending), splitter_count,
                              Len(splitter_output), splitter_pc', Len(splitter_pending'),
                              splitter_count', Len(splitter_output'))
<1>1. /\ SplitterInv /\ PoolTypes /\ Runs(4) /\ Splitter!Run
      /\ UNCHANGED <<readerVars, calibratorVars, bufferVars, triggerVars, sorterVars, mainVars>>
  BY TasksAreTyped DEF TasksInv, SplitterStep
<1>2. /\ splitter_count \in Nat /\ splitter_pending \in Seq(Cluster)
      /\ splitter_output \in Seq(Cluster)
      /\ Len(splitter_pending) \in Nat /\ Len(splitter_output) \in Nat
      /\ splitter_count <= Len(buffer_output) /\ splitter_done \in BOOLEAN
      /\ entries \in Seq(Hit) /\ Len(entries) \in Nat /\ Len(entries) <= splitter_count
  BY <1>1, LenProperties DEF SplitterInv, TaskState
<1>3. UNCHANGED <<buffer_output, trigger_count, crashed>>
  BY <1>1 DEF bufferVars, triggerVars, calibratorVars
<1>4. /\ done[4] = splitter_done /\ pushed[3] = Len(buffer_output)
      /\ Len(buffer_output) \in 0 .. Records
  BY <1>1, CountsBounded DEF done, pushed, PoolTypes
<1>5. ASSUME moves, SplitterInv', splitter_done' = splitter_done,
             Len(splitter_output) <= Len(splitter_output')
      PROVE  /\ SplitterInv' /\ Len(splitter_output) <= Len(splitter_output')
             /\ ~crashed /\ PoolProofs!Running
  <2>1. /\ Len(splitter_pending') \in Nat /\ splitter_count' \in Nat
        /\ Len(splitter_output') \in Nat
    BY <1>5, LenProperties DEF SplitterInv, TaskState
  <2>2. 4 \in 1 .. N /\ (4 = N => Len(splitter_pending') = 0)
    BY DEF N
  <2> QED
    BY Zenon, <1>1, <1>2, <1>5, <2>1, <2>2, AtTasks, SplitterGoes, TaskOfPool
<1>6. Splitter!Pop \/
          /\ Shared(splitter_pc, splitter_done, splitter_count, splitter_pending,
                    splitter_output, Len(buffer_output), trigger_count,
                    splitter_pc', splitter_pending', splitter_output')
          /\ UNCHANGED <<splitter_done, splitter_count, entries>>
  BY <1>1 DEF Splitter!Run, Splitter!Test, Splitter!TimedOut, Splitter!ItemWaiting,
     Splitter!Push, Splitter!Handled, Splitter!Exit, Shared
<1>7. CASE Splitter!Pop
  <2>1. /\ splitter_pc = "pop" /\ splitter_pc' = "push" /\ splitter_pending = << >>
        /\ splitter_count < Len(buffer_output) /\ splitter_count' = splitter_count + 1
        /\ UNCHANGED <<splitter_done, splitter_output>>
    BY <1>1, <1>7 DEF Splitter!Pop, Splitter!PopNext, Splitter!ItemWaiting, SplitterInv,
       TaskState
  <2>2. PICK hit \in Hit : hit = Splitter!NextItem
    BY <1>2, <1>4, <2>1, ElementOfSeq DEF Splitter!NextItem, TasksInv, BufferInv,
       TaskState
  <2>3. \/ entries' = Append(entries, hit) /\ splitter_pending' = << >>
        \/ entries # << >> /\ entries' = <<hit>> /\ splitter_pending' = <<entries>>
    BY <1>7, <2>2 DEF Splitter!Pop
  <2>4. /\ entries' \in Seq(Hit) /\ Len(entries') <= splitter_count + 1
        /\ splitter_pending' \in Seq(Cluster) /\ Len(splitter_pending') \in 0 .. 1
    <3>1. CASE entries' = Append(entries, hit) /\ splitter_pending' = << >>
      <4>1. Append(entries, hit) \in Seq(Hit) /\ Len(Append(entries, hit)) = Len(entries) + 1
        BY <1>2, AppendProperties
      <4>2. << >> \in Seq(Cluster) /\ Len(<< >>) = 0
        OBVIOUS
      <4> QED
        BY <1>2, <3>1, <4>1, <4>2
    <3>2. CASE entries # << >> /\ entries' = <<hit>> /\ splitter_pending' = <<entries>>
      <4>1. entries \in Cluster
        BY <1>2, <1>4, <3>2, QueueAssumption DEF Cluster
      <4>2. <<entries>> \in Seq(Cluster) /\ Len(<<entries>>) = 1
        BY <4>1
      <4>3. <<hit>> \in Seq(Hit) /\ Len(<<hit>>) = 1
        OBVIOUS
      <4> QED
        BY <1>2, <3>2, <4>2, <4>3
    <3> QED
      BY <2>3, <3>1, <3>2
  <2>5. PICK p \in 0 .. 1 : p = Len(splitter_pending')
    BY <2>4
  <2>6. p <= Records
    BY <1>2, <1>4, <2>1, QueueAssumption
  <2>7. moves
    BY <1>4, <2>1, <2>5, <2>6 DEF TaskMoves
  <2>8. splitter_count' \in Nat /\ splitter_count' <= Len(buffer_output')
    BY <1>2, <1>3, <1>4, <2>1
  <2>9. Len(splitter_output') + Len(splitter_pending') <= splitter_count'
    <3>1. Len(splitter_output) <= splitter_count /\ Len(splitter_output') = Len(splitter_output)
      BY <1>1, <1>2, <2>1 DEF SplitterInv
    <3>2. PICK a \in Nat, b \in Nat : a = Len(splitter_output) /\ b = splitter_count /\ a <= b
      BY <1>2, <3>1
    <3>3. /\ Len(splitter_output') = a /\ Len(splitter_pending') = p
          /\ splitter_count' = b + 1
      BY <2>1, <2>5, <3>1, <3>2
    <3>4. a + p <= b + 1
      BY <3>2
    <3> QED
      BY <3>3, <3>4
  <2>10. SplitterInv'
    BY <1>2, <2>1, <2>4, <2>8, <2>9 DEF SplitterInv, TaskState
  <2> QED
    BY <1>2, <1>5, <2>1, <2>7, <2>10
<1>8. CASE Shared(splitter_pc, splitter_done, splitter_count, splitter_pending,
                  splitter_output, Len(buffer_output), trigger_count,
                  splitter_pc', splitter_pending', splitter_output')
           /\ UNCHANGED <<splitter_done, splitter_count, entries>>
  <2>1. 4 \in 2 .. 5 /\ 4 - 1 = 3 /\ 4 + 1 = 5 /\ entries_processed[5] = trigger_count
    BY DEF entries_processed
  <2>2. /\ TaskState(Cluster, splitter_pc, splitter_done, splitter_count, splitter_pending,
                     splitter_output)
        /\ Len(splitter_output) + Len(splitter_pending) <= splitter_count
    BY <1>1 DEF SplitterInv
  <2>3. /\ TaskState(Cluster, splitter_pc', splitter_done, splitter_count,
                     splitter_pending', splitter_output')
        /\ Len(splitter_output) <= Len(splitter_output')
        /\ Len(splitter_output') + Len(splitter_pending')
              = Len(splitter_output) + Len(splitter_pending)
        /\ TaskMoves(4, splitter_pc, Len(splitter_pending), splitter_count,
                     Len(splitter_output), splitter_pc', Len(splitter_pending'),
                     splitter_count, Len(splitter_output'))
    BY <1>2, <1>4, <1>8, <2>1, <2>2, SharedSteps
  <2>4. SplitterInv'
    BY <1>2, <1>3, <1>8, <2>2, <2>3 DEF SplitterInv, TaskState
  <2> QED
    BY <1>5, <1>8, <2>3, <2>4
<1> QED
  BY <1>6, <1>7, <1>8

\* The sorter.
LEMMA SorterSteps ==
  ASSUME TasksInv, SorterStep
  PROVE  SorterInv' /\ ~crashed /\ PoolProofs!Running
<1> DEFINE moves == TaskMoves(6, sorter_pc, 0, sorter_count, 0, sorter_pc', 0, sorter_count', 0)
<1>1. /\ SorterInv /\ PoolTypes /\ Runs(6) /\ Sorter!Run
      /\ UNCHANGED <<readerVars, calibratorVars, bufferVars, splitterVars, triggerVars,
                     mainVars>>
  BY TasksAreTyped DEF TasksInv, SorterStep
<1>2. /\ sorter_count \in Nat /\ sorter_count <= Len(trigger_output) /\ sorter_done \in BOOLEAN
      /\ userSort \in Seq(EventOf(sort_type)) /\ Len(userSort) = sorter_count
      /\ trigger_output \in Seq(EventOf(sort_type))
  BY <1>1 DEF SorterInv, TasksInv, TriggerInv, TaskState
<1>3. UNCHANGED <<trigger_output, sort_type>>
  BY <1>1 DEF triggerVars
<1>4. /\ done[6] = sorter_done /\ pushed[5] = Len(trigger_output) /\ Len(trigger_output) \in Nat
  BY <1>1 DEF done, pushed, PoolTypes
<1>5. ASSUME moves, SorterInv', sorter_done' = sorter_done
      PROVE  SorterInv' /\ ~crashed /\ PoolProofs!Running
  <2>1. sorter_count' \in Nat /\ 0 \in Nat
    BY <1>5 DEF SorterInv
  <2>2. 6 \in 1 .. N /\ (6 = N => 0 = 0)
    BY DEF N
  <2> QED
    BY Zenon, <1>1, <1>2, <1>5, <2>1, <2>2, AtTasks, SorterGoes, TaskOfPool
<1>6. \A e \in EventOf(sort_type) : ~Sorter!Skipped(e)
  BY DEF EventOf, Sorter!Skipped
<1>7. CASE Sorter!Pop
  <2>1. /\ sorter_pc = "pop" /\ sorter_pc' = "push"
        /\ sorter_count < Len(trigger_output) /\ sorter_count' = sorter_count + 1
        /\ UNCHANGED <<sorter_done, tree, tree_events>>
    BY <1>7 DEF Sorter!Pop, Sorter!PopNext, Sorter!ItemWaiting
  <2>2. PICK event \in EventOf(sort_type) : event = trigger_output[sorter_count + 1]
    BY <1>2, <2>1, ElementOfSeq
  <2>3. userSort' = Append(userSort, event)
    BY <1>6, <1>7, <2>2 DEF Sorter!Pop, Sorter!NextItem
  <2>4. userSort' \in Seq(EventOf(sort_type)) /\ Len(userSort') = sorter_count + 1
    BY <1>2, <2>3, AppendProperties
  <2>5. moves
    BY <1>4, <2>1, QueueAssumption DEF TaskMoves
  <2>6. sorter_count' \in Nat /\ sorter_count' <= Len(trigger_output') /\ sorter_count' > 0
    BY <1>2, <1>3, <1>4, <2>1
  <2>7. tree = "open" => userSort' = Append(tree_events', trigger_output'[sorter_count'])
    BY <1>1, <1>3, <2>1, <2>2, <2>3 DEF SorterInv
  <2>8. tree # "closed"
    BY <1>1, <2>1 DEF SorterInv
  <2>9. SorterInv'
    BY <1>2, <1>3, <2>1, <2>4, <2>6, <2>7, <2>8 DEF SorterInv
  <2> QED
    BY <1>5, <2>1, <2>5, <2>9
<1>8. CASE Sorter!Fill
  <2>1. /\ sorter_pc = "push" /\ sorter_pc' = "test"
        /\ UNCHANGED <<sorter_done, sorter_count, userSort, tree>>
    BY <1>8 DEF Sorter!Fill
  <2>2. sorter_count \in 1 .. Len(trigger_output)
    BY <1>1, <1>2, <1>4, <2>1 DEF SorterInv
  <2>3. PICK event \in EventOf(sort_type) : event = trigger_output[sorter_count]
    BY <1>2, <2>2, ElementOfSeq
  <2>4. tree_events' = IF tree = "open" THEN Append(tree_events, event) ELSE tree_events
    BY <1>6, <1>8, <2>3 DEF Sorter!Fill, Sorter!InHand, Sorter!TreeFill
  <2>5. tree = "open" => tree_events' = userSort
    BY <1>1, <2>1, <2>3, <2>4 DEF SorterInv
  <2>6. tree # "closed"
    BY <1>1, <2>1 DEF SorterInv
  <2>7. moves
    BY <2>1 DEF TaskMoves
  <2>8. SorterInv'
    BY <1>2, <1>3, <2>1, <2>5, <2>6 DEF SorterInv
  <2> QED
    BY <1>5, <2>1, <2>7, <2>8
<1>9. CASE Sorter!TimedOut /\ UNCHANGED Sorter!sorterVars
  <2>1. /\ sorter_pc = "pop" /\ sorter_pc' = "test" /\ ~(sorter_count < Len(trigger_output))
        /\ UNCHANGED <<sorter_done, sorter_count, userSort, tree, tree_events>>
    BY <1>9 DEF Sorter!TimedOut, Sorter!ItemWaiting, Sorter!sorterVars, Sorter!histograms
  <2>2. sorter_count = Len(trigger_output)
    BY <1>2, <1>4, <2>1
  <2>3. moves
    BY <1>4, <2>1, <2>2 DEF TaskMoves
  <2>4. SorterInv'
    BY <1>1, <1>3, <2>1 DEF SorterInv
  <2> QED
    BY <1>5, <2>1, <2>3, <2>4
<1>10. CASE Sorter!Test /\ UNCHANGED Sorter!sorterVars
  <2>1. /\ sorter_pc = "test" /\ sorter_pc' = IF sorter_done THEN "drain" ELSE "pop"
        /\ UNCHANGED <<sorter_done, sorter_count, userSort, tree, tree_events>>
    BY <1>10 DEF Sorter!Test, Sorter!sorterVars, Sorter!histograms
  <2>2. moves
    BY <1>4, <2>1, QueueAssumption DEF TaskMoves
  <2>3. SorterInv'
    BY <1>1, <1>3, <2>1 DEF SorterInv
  <2> QED
    BY <1>5, <2>1, <2>2, <2>3
<1>11. CASE Sorter!ExitClosed
  <2>1. /\ sorter_pc = "drain" /\ sorter_pc' = "exited"
        /\ tree' = IF tree = "open" THEN "closed" ELSE tree
        /\ UNCHANGED <<sorter_done, sorter_count, userSort, tree_events>>
    BY <1>11 DEF Sorter!ExitClosed, Sorter!histograms
  <2>2. moves
    BY <2>1 DEF TaskMoves
  <2>3. SorterInv'
    BY <1>1, <1>3, <2>1 DEF SorterInv
  <2> QED
    BY <1>5, <2>1, <2>2, <2>3
<1> QED
  BY <1>1, <1>7, <1>8, <1>9, <1>10, <1>11 DEF Sorter!Run

-----------------------------------------------------------------------------
(***************************************************************************)
(* What the steps of the others leave of a task                            *)
(***************************************************************************)
\* Main may set the reader's done.
LEMMA ReaderStays ==
  ASSUME ReaderInv,
         UNCHANGED <<reader_count, reader_pending, reader_output, mapped_files>>,
         reader_done' \in BOOLEAN
  PROVE  ReaderInv'
<1>1. Reader!RecordsOfAllFiles' = Reader!RecordsOfAllFiles
  BY DEF Reader!RecordsOfAllFiles
<1> QED
  BY <1>1 DEF ReaderInv

\* The queue in front of the calibrator only grows, and main may set its done.
LEMMA CalibratorStays ==
  ASSUME CalibratorInv,
         UNCHANGED <<calibrator_pc, calibrator_count, calibrator_pending, calibrator_output>>,
         calibrator_done' \in BOOLEAN,
         Len(reader_output) \in Nat, Len(reader_output') \in Nat,
         Len(reader_output) <= Len(reader_output')
  PROVE  CalibratorInv'
<1>1. calibrator_count' <= Len(reader_output')
  <2>1. /\ calibrator_count \in Nat
        /\ calibrator_count <= Len(reader_output)
        /\ calibrator_count' = calibrator_count
    BY DEF CalibratorInv, TaskState
  <2> QED
    BY <2>1
<1> QED
  BY <1>1 DEF CalibratorInv, TaskState

\* The queue in front of the buffer only grows, and main may set its done.
LEMMA BufferStays ==
  ASSUME BufferInv,
         UNCHANGED <<buffer_pc, buffer_count, buffer_pending, buffer_output, buffer>>,
         buffer_done' \in BOOLEAN,
         Len(calibrator_output) \in Nat, Len(calibrator_output') \in Nat,
         Len(calibrator_output) <= Len(calibrator_output')
  PROVE  BufferInv'
<1>1. buffer_count' <= Len(calibrator_output')
  <2>1. /\ buffer_count \in Nat
        /\ buffer_count <= Len(calibrator_output)
        /\ buffer_count' = buffer_count
    BY DEF BufferInv, TaskState
  <2> QED
    BY <2>1
<1> QED
  BY <1>1 DEF BufferInv, TaskState

\* The queue in front of the splitter only grows, and main may set its done.
LEMMA SplitterStays ==
  ASSUME SplitterInv,
         UNCHANGED <<splitter_pc, splitter_count, splitter_pending, splitter_output, entries>>,
         splitter_done' \in BOOLEAN,
         Len(buffer_output) \in Nat, Len(buffer_output') \in Nat,
         Len(buffer_output) <= Len(buffer_output')
  PROVE  SplitterInv'
<1>1. splitter_count' <= Len(buffer_output')
  <2>1. /\ splitter_count \in Nat
        /\ splitter_count <= Len(buffer_output)
        /\ splitter_count' = splitter_count
    BY DEF SplitterInv, TaskState
  <2> QED
    BY <2>1
<1> QED
  BY <1>1 DEF SplitterInv, TaskState

\* The queue in front of the trigger only grows, and main may set its done.
LEMMA TriggerStays ==
  ASSUME TriggerInv,
         UNCHANGED <<trigger_pc, trigger_count, trigger_pending, trigger_output, sort_type>>,
         trigger_done' \in BOOLEAN,
         Len(splitter_output) \in Nat, Len(splitter_output') \in Nat,
         Len(splitter_output) <= Len(splitter_output')
  PROVE  TriggerInv'
<1>1. trigger_count' <= Len(splitter_output')
  <2>1. /\ trigger_count \in Nat
        /\ trigger_count <= Len(splitter_output)
        /\ trigger_count' = trigger_count
    BY DEF TriggerInv, TaskState
  <2> QED
    BY <2>1
<1>2. EventOf(sort_type)' = EventOf(sort_type)
  BY DEF EventOf
<1> QED
  BY <1>1, <1>2 DEF TriggerInv, TaskState

\* The queue in front of the sorter grows at its end, and main may set its done.
LEMMA SorterStays ==
  ASSUME SorterInv,
         UNCHANGED <<sorter_pc, sorter_count, userSort, tree, tree_events, sort_type>>,
         sorter_done' \in BOOLEAN,
         Len(trigger_output) \in Nat, Len(trigger_output') \in Nat,
         Len(trigger_output) <= Len(trigger_output'),
         \A i \in 1 .. Len(trigger_output) : trigger_output'[i] = trigger_output[i]
  PROVE  SorterInv'
<1>1. sorter_count \in Nat /\ sorter_count <= Len(trigger_output)
  BY DEF SorterInv
<1>2. sorter_count' <= Len(trigger_output')
  BY <1>1
<1>3. sorter_pc = "push" => trigger_output'[sorter_count] = trigger_output[sorter_count]
  BY <1>1 DEF SorterInv
<1>4. EventOf(sort_type)' = EventOf(sort_type)
  BY DEF EventOf
<1> QED
  BY <1>2, <1>3, <1>4 DEF SorterInv

\* A task that has not been started does not move.
LEMMA StartStays ==
  ASSUME StartInv, NEW k \in 1 .. N, Runs(k), UNCHANGED <<main, next>>,
         \A i \in 1 .. N : i # k => pc'[i] = pc[i]
  PROVE  StartInv'
<1>1. \A i \in 1 .. N : main = "add" /\ i >= next => i # k
  BY DEF Runs, StartInv, N
<1> QED
  BY <1>1 DEF StartInv

-----------------------------------------------------------------------------
(***************************************************************************)
(* The steps keep the invariant                                            *)
(***************************************************************************)
\* A step of the calibrator.
LEMMA CalibratorKeeps == ASSUME TasksInv, CalibratorStep PROVE TasksInv'
<1>1. /\ UNCHANGED <<readerVars, bufferVars, splitterVars, triggerVars, sorterVars,
                     mainVars>>
      /\ Runs(2)
  BY DEF CalibratorStep
<1>2. CalibratorInv' /\ Len(calibrator_output) <= Len(calibrator_output')
  BY CalibratorSteps
<1>3. Len(calibrator_output') \in Nat
  BY <1>2, LenProperties DEF CalibratorInv, TaskState
<1>4. ReaderInv'
  BY <1>1, ReaderStays, LengthsAreNumbers DEF TasksInv, readerVars
<1>5. BufferInv'
  BY <1>1, <1>2, <1>3, BufferStays, LengthsAreNumbers DEF TasksInv, bufferVars
<1>6. SplitterInv'
  BY <1>1, SplitterStays, LengthsAreNumbers DEF TasksInv, splitterVars, bufferVars
<1>7. TriggerInv'
  BY <1>1, TriggerStays, LengthsAreNumbers DEF TasksInv, triggerVars, splitterVars
<1>8. SorterInv'
  BY <1>1, SorterStays, LengthsAreNumbers DEF TasksInv, sorterVars, triggerVars
<1>9. StartInv'
  <2>1. \A i \in 1 .. N : i # 2 => pc'[i] = pc[i]
    BY <1>1 DEF pc, N, readerVars, bufferVars, splitterVars, triggerVars, sorterVars,
       mainVars
  <2>2. UNCHANGED <<main, next>> /\ 2 \in 1 .. N
    BY <1>1 DEF mainVars, N
  <2> QED
    BY <1>1, <2>1, <2>2, StartStays DEF TasksInv
<1> QED
  BY <1>2, <1>4, <1>5, <1>6, <1>7, <1>8, <1>9 DEF TasksInv

\* A step of the buffer.
LEMMA BufferKeeps == ASSUME TasksInv, BufferStep PROVE TasksInv'
<1>1. /\ UNCHANGED <<readerVars, calibratorVars, splitterVars, triggerVars, sorterVars,
                     mainVars>>
      /\ Runs(3)
  BY DEF BufferStep
<1>2. BufferInv' /\ Len(buffer_output) <= Len(buffer_output')
  BY BufferSteps
<1>3. Len(buffer_output') \in Nat
  BY <1>2, LenProperties DEF BufferInv, TaskState
<1>4. ReaderInv'
  BY <1>1, ReaderStays, LengthsAreNumbers DEF TasksInv, readerVars
<1>5. CalibratorInv'
  BY <1>1, CalibratorStays, LengthsAreNumbers DEF TasksInv, calibratorVars, readerVars
<1>6. SplitterInv'
  BY <1>1, <1>2, <1>3, SplitterStays, LengthsAreNumbers DEF TasksInv, splitterVars
<1>7. TriggerInv'
  BY <1>1, TriggerStays, LengthsAreNumbers DEF TasksInv, triggerVars, splitterVars
<1>8. SorterInv'
  BY <1>1, SorterStays, LengthsAreNumbers DEF TasksInv, sorterVars, triggerVars
<1>9. StartInv'
  <2>1. \A i \in 1 .. N : i # 3 => pc'[i] = pc[i]
    BY <1>1 DEF pc, N, readerVars, calibratorVars, splitterVars, triggerVars, sorterVars,
       mainVars
  <2>2. UNCHANGED <<main, next>> /\ 3 \in 1 .. N
    BY <1>1 DEF mainVars, N
  <2> QED
    BY <1>1, <2>1, <2>2, StartStays DEF TasksInv
<1> QED
  BY <1>2, <1>4, <1>5, <1>6, <1>7, <1>8, <1>9 DEF TasksInv

\* A step of the splitter.
LEMMA SplitterKeeps == ASSUME TasksInv, SplitterStep PROVE TasksInv'
<1>1. /\ UNCHANGED <<readerVars, calibratorVars, bufferVars, triggerVars, sorterVars,
                     mainVars>>
      /\ Runs(4)
  BY DEF SplitterStep
<1>2. SplitterInv' /\ Len(splitter_output) <= Len(splitter_output')
  BY SplitterSteps
<1>3. Len(splitter_output') \in Nat
  BY <1>2, LenProperties DEF SplitterInv, TaskState
<1>4. ReaderInv'
  BY <1>1, ReaderStays, LengthsAreNumbers DEF TasksInv, readerVars
<1>5. CalibratorInv'
  BY <1>1, CalibratorStays, LengthsAreNumbers DEF TasksInv, calibratorVars, readerVars
<1>6. BufferInv'
  BY <1>1, BufferStays, LengthsAreNumbers DEF TasksInv, bufferVars, calibratorVars
<1>7. TriggerInv'
  BY <1>1, <1>2, <1>3, TriggerStays, LengthsAreNumbers DEF TasksInv, triggerVars
<1>8. SorterInv'
  BY <1>1, SorterStays, LengthsAreNumbers DEF TasksInv, sorterVars, triggerVars
<1>9. StartInv'
  <2>1. \A i \in 1 .. N : i # 4 => pc'[i] = pc[i]
    BY <1>1 DEF pc, N, readerVars, calibratorVars, bufferVars, triggerVars, sorterVars,
       mainVars
  <2>2. UNCHANGED <<main, next>> /\ 4 \in 1 .. N
    BY <1>1 DEF mainVars, N
  <2> QED
    BY <1>1, <2>1, <2>2, StartStays DEF TasksInv
<1> QED
  BY <1>2, <1>4, <1>5, <1>6, <1>7, <1>8, <1>9 DEF TasksInv

\* A step of the sorter.
LEMMA SorterKeeps == ASSUME TasksInv, SorterStep PROVE TasksInv'
<1>1. /\ UNCHANGED <<readerVars, calibratorVars, bufferVars, splitterVars, triggerVars,
                     mainVars>>
      /\ Runs(6)
  BY DEF SorterStep
<1>2. SorterInv'
  BY SorterSteps
<1>3. ReaderInv'
  BY <1>1, ReaderStays, LengthsAreNumbers DEF TasksInv, readerVars
<1>4. CalibratorInv'
  BY <1>1, CalibratorStays, LengthsAreNumbers DEF TasksInv, calibratorVars, readerVars
<1>5. BufferInv'
  BY <1>1, BufferStays, LengthsAreNumbers DEF TasksInv, bufferVars, calibratorVars
<1>6. SplitterInv'
  BY <1>1, SplitterStays, LengthsAreNumbers DEF TasksInv, splitterVars, bufferVars
<1>7. TriggerInv'
  BY <1>1, TriggerStays, LengthsAreNumbers DEF TasksInv, triggerVars, splitterVars
<1>8. StartInv'
  <2>1. \A i \in 1 .. N : i # 6 => pc'[i] = pc[i]
    BY <1>1 DEF pc, N, readerVars, calibratorVars, bufferVars, splitterVars, triggerVars,
       mainVars
  <2>2. UNCHANGED <<main, next>> /\ 6 \in 1 .. N
    BY <1>1 DEF mainVars, N
  <2> QED
    BY <1>1, <2>1, <2>2, StartStays DEF TasksInv
<1> QED
  BY <1>2, <1>3, <1>4, <1>5, <1>6, <1>7, <1>8 DEF TasksInv

\* When no task moves and main tells them at most to finish, what is said of them stays.
LEMMA TasksStay ==
  ASSUME TasksInv,
         UNCHANGED <<reader_count, reader_pending, reader_output, mapped_files>>,
         UNCHANGED <<calibrator_pc, calibrator_count, calibrator_pending, calibrator_output>>,
         UNCHANGED <<buffer_pc, buffer_count, buffer_pending, buffer_output, buffer>>,
         UNCHANGED <<splitter_pc, splitter_count, splitter_pending, splitter_output, entries>>,
         UNCHANGED <<trigger_pc, trigger_count, trigger_pending, trigger_output, sort_type>>,
         UNCHANGED <<sorter_pc, sorter_count, userSort, tree, tree_events>>,
         reader_done' \in BOOLEAN,
         calibrator_done' \in BOOLEAN, buffer_done' \in BOOLEAN, splitter_done' \in BOOLEAN,
         trigger_done' \in BOOLEAN, sorter_done' \in BOOLEAN,
         StartInv'
  PROVE  TasksInv'
<1>1. ReaderInv'
  BY ReaderStays DEF TasksInv
<1>2. CalibratorInv'
  BY CalibratorStays, LengthsAreNumbers DEF TasksInv
<1>3. BufferInv'
  BY BufferStays, LengthsAreNumbers DEF TasksInv
<1>4. SplitterInv'
  BY SplitterStays, LengthsAreNumbers DEF TasksInv
<1>5. TriggerInv'
  BY TriggerStays, LengthsAreNumbers DEF TasksInv
<1>6. SorterInv'
  BY SorterStays, LengthsAreNumbers DEF TasksInv
<1> QED
  BY <1>1, <1>2, <1>3, <1>4, <1>5, <1>6 DEF TasksInv

\* A step of main.
LEMMA MainKeeps == ASSUME TasksInv, MainStep PROVE TasksInv'
<1>1. next \in 1 .. N /\ StartInv
  BY DEF TasksInv, StartInv
<1>2. CASE FinishNext
  <2>1. /\ reader_done' = (reader_done \/ next = 1)
        /\ calibrator_done' = (calibrator_done \/ next = 2)
        /\ buffer_done' = (buffer_done \/ next = 3)
        /\ splitter_done' = (splitter_done \/ next = 4)
        /\ trigger_done' = (trigger_done \/ next = 5)
        /\ sorter_done' = (sorter_done \/ next = 6)
    BY <1>2 DEF FinishNext
  <2>2. {reader_done', calibrator_done', buffer_done', splitter_done', trigger_done',
         sorter_done'} \subseteq BOOLEAN
    BY <2>1
  <2>3. StartInv'
    BY <1>1, <1>2 DEF FinishNext, StartInv
  <2> QED
    BY <1>2, <2>2, <2>3, TasksStay DEF FinishNext
<1>3. ASSUME tasksUnchanged, StartInv'
      PROVE  TasksInv'
  BY <1>3, TasksStay, LengthsAreNumbers DEF tasksUnchanged, readerVars, calibratorVars,
     bufferVars,
     splitterVars, triggerVars, sorterVars
<1>4. CASE AddTask
  <2>1. pc' = pc
    BY <1>4 DEF AddTask, pc, tasksUnchanged, readerVars, calibratorVars, bufferVars,
       splitterVars, triggerVars, sorterVars
  <2>2. StartInv'
    BY <1>1, <1>4, <2>1 DEF AddTask, StartInv, N
  <2> QED
    BY <1>3, <1>4, <2>2 DEF AddTask
<1>5. CASE JoinSource
  BY <1>1, <1>3, <1>5 DEF JoinSource, StartInv
<1>6. CASE JoinNext
  BY <1>1, <1>3, <1>6 DEF JoinNext, StartInv, N
<1>7. CASE WriteHistograms
  BY <1>1, <1>3, <1>7 DEF WriteHistograms, StartInv
<1>8. CASE WriteMetadata
  BY <1>1, <1>3, <1>8 DEF WriteMetadata, StartInv
<1> QED
  BY <1>2, <1>4, <1>5, <1>6, <1>7, <1>8 DEF MainStep

\* A step that changes nothing.
LEMMA StutterKeeps == ASSUME TasksInv, UNCHANGED vars PROVE TasksInv'
<1>1. UNCHANGED pc /\ UNCHANGED <<main, next>>
  BY DEF vars, pc, readerVars, calibratorVars, bufferVars,
       splitterVars, triggerVars, sorterVars, mainVars
<1>2. StartInv'
  BY <1>1 DEF TasksInv, StartInv
<1> QED
  BY <1>2, TasksStay, LengthsAreNumbers DEF vars, readerVars, calibratorVars, bufferVars,
       splitterVars, triggerVars, sorterVars

\* The main thread of the program is that of the pool, which has returned when the
\* program goes on to write.
LEMMA MainMoves ==
  ASSUME TasksInv, MainStep
  PROVE  (~crashed /\ PoolProofs!Running) \/ UNCHANGED PoolProofs!vars
<1>1. next \in 1 .. N /\ ~crashed /\ StartInv
  BY DEF TasksInv, StartInv, MainStep
<1>2. PoolProofs!MainStep => ~crashed /\ PoolProofs!Running
  BY <1>1 DEF PoolProofs!Running
<1>3. ASSUME tasksUnchanged
      PROVE  UNCHANGED <<pc, done, owed, queue, entries_processed, remaining, pushed, crashed>>
  BY <1>3 DEF tasksUnchanged, readerVars, calibratorVars, bufferVars,
     splitterVars, triggerVars, sorterVars, pc, done, owed, queue, entries_processed,
     remaining, pushed,
     Reader!RecordsOfAllFiles
<1>4. main # "add" => poolPc = pc
  BY DEF poolPc, pc, N
<1>5. CASE AddTask
  <2>1. UNCHANGED <<pc, done, owed, queue, entries_processed, remaining, pushed, crashed>>
    BY <1>3, <1>5 DEF AddTask
  <2>2. poolPc' = [poolPc EXCEPT ![next] = "test"]
    <3>1. poolPc = [i \in 1 .. N |-> IF i >= next THEN "new" ELSE pc[i]]
      BY <1>5 DEF AddTask, poolPc
    <3>2. poolPc' = [i \in 1 .. N |-> IF main' = "add" /\ i >= next' THEN "new" ELSE pc[i]]
      BY <2>1 DEF poolPc, N
    <3>3. pc[next] = "test"
      BY <1>1, <1>5 DEF AddTask, StartInv, N
    <3>4. \A i \in 1 .. N : (main' = "add" /\ i >= next') <=> i >= next /\ i # next
      BY <1>1, <1>5 DEF AddTask, N
    <3> QED
      BY <1>1, <3>1, <3>2, <3>3, <3>4
  <2>3. poolMain = "add" /\ (IF next < N THEN next' = next + 1 /\ UNCHANGED poolMain
                             ELSE next' = 1 /\ poolMain' = "join_source")
    BY <1>5 DEF AddTask, poolMain
  <2>4. PoolProofs!AddTask
    BY <2>1, <2>2, <2>3 DEF PoolProofs!AddTask, PoolProofs!Goto, PoolProofs!taskVars
  <2> QED
    BY <1>2, <2>4 DEF PoolProofs!MainStep
<1>6. CASE JoinSource
  <2>1. UNCHANGED <<pc, done, owed, queue, entries_processed, remaining, pushed, crashed, next>>
    BY <1>3, <1>6 DEF JoinSource
  <2>2. /\ poolMain = "join_source"
        /\ poolMain' = "finish"
        /\ UNCHANGED poolPc
        /\ poolPc[1] = "exited"
    BY <1>4, <1>6, <2>1 DEF JoinSource, poolMain, poolPc, pc
  <2>3. PoolProofs!JoinSource
    BY <2>1, <2>2 DEF PoolProofs!JoinSource, PoolProofs!taskVars
  <2> QED
    BY <1>2, <2>3 DEF PoolProofs!MainStep
<1>7. CASE FinishNext
  <2>1. UNCHANGED <<pc, owed, queue, entries_processed, remaining, pushed, crashed, next>>
    BY <1>7 DEF FinishNext, pc, owed, queue, entries_processed, remaining, pushed,
       Reader!RecordsOfAllFiles
  <2>2. poolMain = "finish" /\ poolMain' = "join" /\ UNCHANGED poolPc
    BY <1>7, <2>1 DEF FinishNext, poolMain, poolPc
  <2>3. done' = [done EXCEPT ![next] = TRUE]
    <3>1. \A i \in 1 .. 6 : done'[i] = (done[i] \/ next = i)
      BY <1>7 DEF FinishNext, done
    <3>2. done \in [1 .. 6 -> BOOLEAN] /\ done' = [i \in 1 .. 6 |-> done'[i]] /\ next \in 1 .. 6
      BY <1>1, LengthsAreNumbers DEF done, N
    <3>3. \A i \in 1 .. 6 : done'[i] = [done EXCEPT ![next] = TRUE][i]
      <4> TAKE i \in 1 .. 6
      <4>1. CASE i = next
        <5>1. (done[i] \/ next = i) = TRUE
          BY <3>2, <4>1
        <5> QED
          BY <3>1, <3>2, <4>1, <5>1
      <4>2. CASE i # next
        <5>1. (done[i] \/ next = i) = done[i]
          BY <3>2, <4>2
        <5> QED
          BY <3>1, <3>2, <4>2, <5>1
      <4> QED
        BY <4>1, <4>2
    <3> QED
      BY <3>2, <3>3
  <2>4. PoolProofs!FinishNext
    BY <2>1, <2>2, <2>3 DEF PoolProofs!FinishNext, PoolProofs!taskVars
  <2> QED
    BY <1>2, <2>4 DEF PoolProofs!MainStep
<1>8. CASE JoinNext
  <2>1. UNCHANGED <<pc, done, owed, queue, entries_processed, remaining, pushed, crashed>>
    BY <1>3, <1>8 DEF JoinNext
  <2>2. /\ poolMain = "join" /\ UNCHANGED poolPc /\ poolPc[next] = "exited"
        /\ IF next < N THEN next' = next + 1 /\ poolMain' = "finish"
                       ELSE next' = next /\ poolMain' = "returned"
    BY <1>4, <1>8, <2>1 DEF JoinNext, poolMain, poolPc
  <2>3. PoolProofs!JoinNext
    BY <2>1, <2>2 DEF PoolProofs!JoinNext, PoolProofs!taskVars
  <2> QED
    BY <1>2, <2>3 DEF PoolProofs!MainStep
<1>9. CASE WriteHistograms \/ WriteMetadata
  <2>1. UNCHANGED <<pc, done, owed, queue, entries_processed, remaining, pushed, crashed, next>>
    BY <1>3, <1>9 DEF WriteHistograms, WriteMetadata
  <2>2. UNCHANGED <<poolMain, poolPc>>
    BY <1>9, <2>1 DEF WriteHistograms, WriteMetadata, poolMain, poolPc
  <2> QED
    BY <2>1, <2>2 DEF PoolProofs!vars, PoolProofs!taskVars, PoolProofs!mainVars
<1> QED
  BY <1>5, <1>6, <1>7, <1>8, <1>9 DEF MainStep

-----------------------------------------------------------------------------
(***************************************************************************)
(* What main has written                                                   *)
(***************************************************************************)
\* What has been written is what the tasks have now, and nothing is written before
\* main has come to it.
OutputInv ==
    /\ IF main \in {"written", "end"}
         THEN written = [userSort |-> userSort, spectra |-> spectra,
                         chargeIntegrator |-> chargeIntegrator, tree |-> tree]
         ELSE written = << >>
    /\ IF main = "end"
         THEN metadata.RawEntries = reader_count /\ metadata.TriggeredEvents = sorter_count
         ELSE metadata = << >>

\* When main writes, all tasks have exited.
LEMMA TasksHaveExited ==
  ASSUME PoolProofs!IInv, main \in {"returned", "written", "end"}
  PROVE  reader_pc = "exited" /\ sorter_pc = "exited" /\ remaining = 0
<1>1. poolMain = "returned"
  BY DEF poolMain
<1>2. poolPc = pc
  BY DEF poolPc, pc, N
<1>3. \A j \in 1 .. 6 : pc[j] = "exited"
  BY <1>1, <1>2 DEF PoolProofs!IInv, PoolProofs!Joined, PoolProofs!Tasks, N
<1>4. pc[1] = "exited" /\ pc[6] = "exited"
  BY <1>3
<1>5. remaining = 0
  BY <1>2, <1>4 DEF PoolProofs!IInv, PoolProofs!SourceReadsEverything
<1> QED
  BY <1>4, <1>5 DEF pc

\* So none of them changes what is written.
LEMMA OutputKept ==
  ASSUME PoolProofs!IInv, OutputInv, [Next]_vars
  PROVE  OutputInv'
<1>1. ASSUME UNCHANGED <<main, written, metadata, reader_count, sorterVars>>
      PROVE  OutputInv'
  BY <1>1 DEF OutputInv, sorterVars
<1>2. CASE CalibratorStep \/ BufferStep \/ SplitterStep \/ TriggerStep
  BY <1>1, <1>2 DEF CalibratorStep, BufferStep, SplitterStep, TriggerStep, mainVars,
     readerVars
<1>3. CASE UNCHANGED vars
  BY <1>1, <1>3 DEF vars, mainVars, readerVars
<1>4. CASE ReaderStep
  <2>1. reader_pc # "exited"
    BY <1>4 DEF ReaderStep, Reader!Run, Reader!Read, Reader!NextFile, Reader!AllFilesRead,
       Reader!ExitDone, Reader!Push, Reader!Handled
  <2>2. main \notin {"written", "end"}
    BY <2>1, TasksHaveExited
  <2>3. UNCHANGED <<main, written, metadata>>
    BY <1>4 DEF ReaderStep, mainVars
  <2> QED
    BY <2>2, <2>3 DEF OutputInv
<1>5. CASE SorterStep
  <2>1. sorter_pc # "exited"
    BY <1>5 DEF SorterStep, Sorter!Run, Sorter!Test, Sorter!Pop, Sorter!PopNext,
       Sorter!Fill,
       Sorter!TimedOut, Sorter!ExitClosed
  <2>2. main \notin {"written", "end"}
    BY <2>1, TasksHaveExited
  <2>3. UNCHANGED <<main, written, metadata>>
    BY <1>5 DEF SorterStep, mainVars
  <2> QED
    BY <2>2, <2>3 DEF OutputInv
<1>6. CASE AddTask \/ JoinSource \/ FinishNext \/ JoinNext
  <2>1. /\ main \notin {"written", "end"} /\ main' \notin {"written", "end"}
        /\ UNCHANGED <<written, metadata>>
    BY <1>6 DEF AddTask, JoinSource, FinishNext, JoinNext
  <2> QED
    BY <2>1 DEF OutputInv
<1>7. CASE WriteHistograms
  BY <1>7 DEF WriteHistograms, OutputInv, tasksUnchanged, sorterVars
<1>8. CASE WriteMetadata
  <2>1. main = "written" /\ main' = "end" /\ UNCHANGED <<written, sorterVars, reader_count>>
    BY <1>8 DEF WriteMetadata, tasksUnchanged, readerVars
  <2>2. metadata'.RawEntries = reader_count /\ metadata'.TriggeredEvents = sorter_count
    BY <1>8 DEF WriteMetadata
  <2> QED
    BY <2>1, <2>2 DEF OutputInv, sorterVars
<1> QED
  BY <1>2, <1>3, <1>4, <1>5, <1>6, <1>7, <1>8 DEF Next, MainStep, Terminated

\* The pool whose proofs are used is the one the runs check.
LEMMA SamePool ==
  /\ PoolProofs!Init <=> Pool!Init
  /\ [PoolProofs!Next]_(PoolProofs!vars) <=> [Pool!Next]_(Pool!vars)
<1>1. PoolProofs!Init <=> Pool!Init
  BY DEF PoolProofs!Init, Pool!Init, PoolProofs!Tasks, Pool!Tasks, PoolProofs!Queues,
     Pool!Queues
<1>2. UNCHANGED PoolProofs!vars <=> UNCHANGED Pool!vars
  BY DEF PoolProofs!vars, Pool!vars, PoolProofs!taskVars, Pool!taskVars,
     PoolProofs!mainVars,
     Pool!mainVars
<1>3. PoolProofs!Running <=> Pool!Running
  BY Zenon DEF PoolProofs!Running, Pool!Running, PoolProofs!Tasks, Pool!Tasks,
     PoolProofs!SourceStep, Pool!SourceStep, PoolProofs!WorkerStep, Pool!WorkerStep,
     PoolProofs!Throw, Pool!Throw, PoolProofs!MainStep, Pool!MainStep,
     PoolProofs!Read, Pool!Read, PoolProofs!SourceEnds, Pool!SourceEnds, PoolProofs!Push,
     Pool!Push,
     PoolProofs!Handled, Pool!Handled, PoolProofs!Exit, Pool!Exit, PoolProofs!Test,
     Pool!Test,
     PoolProofs!Pop, Pool!Pop, PoolProofs!TimedOut, Pool!TimedOut,
     PoolProofs!AddTask, Pool!AddTask, PoolProofs!JoinSource, Pool!JoinSource,
     PoolProofs!FinishNext, Pool!FinishNext, PoolProofs!JoinNext, Pool!JoinNext,
     PoolProofs!EndNext, Pool!EndNext, PoolProofs!EndJoinNext, Pool!EndJoinNext,
     PoolProofs!Goto, Pool!Goto, PoolProofs!taskVars, Pool!taskVars, PoolProofs!mainVars,
     Pool!mainVars
<1>4. PoolProofs!Next <=> Pool!Next
  BY <1>2, <1>3 DEF PoolProofs!Next, Pool!Next, PoolProofs!Terminated, Pool!Terminated
<1> QED
  BY <1>1, <1>2, <1>4

\* No items.
LEMMA NoItems == Len(<< >>) = 0 /\ \A Item : << >> \in Seq(Item)
  OBVIOUS

-----------------------------------------------------------------------------
(***************************************************************************)
(* The reader                                                              *)
(***************************************************************************)
\* What its steps need of the scan of the files, which XIAReaderProofs is about.
ReaderScans ==
    /\ reader_count \in Nat /\ Reader!RecordsOfAllFiles \in Nat
    /\ reader_count <= Reader!RecordsOfAllFiles
    /\ ~reader_done /\ fno > Len(mapped_files) => reader_count = Reader!RecordsOfAllFiles
    /\ reader_pending \in Seq(Reader!Pointers) /\ reader_output \in Seq(Reader!Pointers)
    /\ Len(reader_pending) \in Nat /\ Len(reader_output) \in Nat
    /\ reader_pc # "push" => reader_pending = << >>
    /\ fno \in Nat /\ Len(mapped_files) \in Nat

\* The reader.  Between two files it moves on without a step of the pool.
LEMMA ReaderSteps ==
  ASSUME ReaderScans, ReaderScans', TasksInv, ReaderStep
  PROVE  /\ ReaderInv' /\ Len(reader_output) <= Len(reader_output')
         /\ ~crashed /\ (PoolProofs!Running \/ UNCHANGED PoolProofs!vars)
<1> DEFINE moves == TaskMoves(1, reader_pc, Len(reader_pending), reader_count,
                              Len(reader_output), reader_pc', Len(reader_pending'),
                              reader_count', Len(reader_output'))
           others == UNCHANGED <<calibratorVars, bufferVars, splitterVars, triggerVars,
                                 sorterVars, mainVars>>
<1>1. ReaderInv /\ PoolTypes /\ Runs(1) /\ Reader!Run /\ others
  BY TasksAreTyped DEF TasksInv, ReaderStep
<1>2. /\ reader_count \in Nat /\ Reader!RecordsOfAllFiles \in Nat
      /\ reader_count <= Reader!RecordsOfAllFiles
      /\ ~reader_done /\ fno > Len(mapped_files) => reader_count = Reader!RecordsOfAllFiles
      /\ reader_pending \in Seq(Reader!Pointers) /\ reader_output \in Seq(Reader!Pointers)
      /\ Len(reader_pending) \in Nat /\ Len(reader_output) \in Nat
  BY DEF ReaderScans
<1>3. mapped_files' = mapped_files
  BY <1>1 DEF Reader!Run, Reader!Read, Reader!NextFile, Reader!AllFilesRead,
     Reader!ExitDone,
     Reader!readerVars
<1>4. /\ reader_count' \in Nat /\ reader_count' <= Reader!RecordsOfAllFiles
      /\ Reader!RecordsOfAllFiles' = Reader!RecordsOfAllFiles
      /\ Len(reader_pending') \in Nat /\ Len(reader_output') \in Nat
      /\ (/\ mapped_files \in Inputs /\ reader_count \in Nat
          /\ Reader!RecordsOfAllFiles \in Nat /\ reader_count <= Reader!RecordsOfAllFiles
          /\ reader_pending \in Seq(Reader!Pointers)
          /\ reader_output \in Seq(Reader!Pointers))'
  <2>1. Reader!RecordsOfAllFiles' = Reader!RecordsOfAllFiles
    BY <1>3 DEF Reader!RecordsOfAllFiles
  <2>2. mapped_files' \in Inputs
    BY <1>1, <1>3 DEF ReaderInv
  <2> QED
    BY <2>1, <2>2 DEF ReaderScans
<1>5. /\ crashed' = crashed
      /\ done[1] = reader_done
      /\ pc[1] = reader_pc
      /\ pushed[1] = Len(reader_output)
  BY <1>1 DEF calibratorVars, done, pc, pushed
<1>6. poolPc[1] = reader_pc /\ poolPc = [i \in 1 .. N |-> poolPc[i]] /\ 1 \in 1 .. N
      /\ \A label : reader_pc' = label => poolPc' = [poolPc EXCEPT ![1] = label]
  <2>1. 1 \in 1 .. N
    BY DEF N
  <2>2. \A label : reader_pc' = label => pc' = [pc EXCEPT ![1] = label]
    BY <1>1, SixTuple DEF pc, calibratorVars, bufferVars, splitterVars, triggerVars,
       sorterVars
  <2>3. UNCHANGED <<main, next>>
    BY <1>1 DEF mainVars
  <2> QED
    BY <1>1, <1>5, <2>1, <2>2, <2>3, PcOfTask DEF PoolTypes
<1>7. ASSUME ReaderInv', moves, reader_done' = reader_done, reader_count' = reader_count,
             Len(reader_output) <= Len(reader_output')
      PROVE  /\ ReaderInv' /\ Len(reader_output) <= Len(reader_output')
             /\ ~crashed /\ PoolProofs!Running
  <2>1. remaining' = remaining
    BY <1>4, <1>7 DEF remaining
  <2>2. 1 \in 1 .. N /\ (1 = N => Len(reader_pending') = 0)
    BY DEF N
  <2> QED
    BY Zenon, <1>1, <1>2, <1>4, <1>7, <2>1, <2>2, AtTasks, ReaderGoes, TaskOfPool
<1>8. CASE Reader!Push /\ UNCHANGED Reader!readerVars
  <2>1. /\ reader_pc \in {"push", "drain"} /\ reader_pending # << >>
        /\ Len(reader_output) - calibrator_count < Capacity
        /\ reader_output' = Append(reader_output, Head(reader_pending))
        /\ reader_pending' = Tail(reader_pending)
        /\ UNCHANGED <<reader_pc, reader_done, reader_count>>
    BY <1>8 DEF Reader!Push
  <2>2. /\ Len(reader_output') = Len(reader_output) + 1
        /\ Len(reader_pending') = Len(reader_pending) - 1 /\ Len(reader_pending) > 0
    BY <1>2, <2>1, PushMoves
  <2>3. PICK p \in Nat, o \in Nat : p = Len(reader_pending) /\ o = Len(reader_output)
    BY <1>2
  <2>4. reader_done \in BOOLEAN /\ mapped_files \in Inputs /\ o + p <= reader_count
    BY <1>1, <2>3 DEF ReaderInv
  <2>5. /\ Len(reader_output') + Len(reader_pending') <= reader_count'
        /\ Len(reader_output) <= Len(reader_output')
    BY <1>2, <2>1, <2>2, <2>3, <2>4
  <2>6. ReaderInv'
    BY <1>4, <2>1, <2>4, <2>5 DEF ReaderInv
  <2>7. entries_processed[1 + 1] = calibrator_count /\ 1 < N
    BY DEF entries_processed, N
  <2>8. moves
    BY Zenon, <2>1, <2>2, <2>7 DEF TaskMoves
  <2> QED
    BY <1>7, <2>1, <2>5, <2>6, <2>8
<1>9. CASE Reader!Handled /\ UNCHANGED Reader!readerVars
  <2>1. /\ reader_pc = "push" /\ reader_pending = << >> /\ reader_pc' = "test"
        /\ UNCHANGED <<reader_done, reader_count, reader_pending, reader_output>>
    BY <1>9 DEF Reader!Handled
  <2>2. moves
    BY <2>1, EmptySeq DEF TaskMoves
  <2>3. ReaderInv'
    BY <1>1, <1>4, <2>1 DEF ReaderInv
  <2> QED
    BY <1>2, <1>7, <2>1, <2>2, <2>3
<1>10. CASE Reader!Read
  <2>1. /\ reader_pc = "test" /\ ~reader_done /\ reader_pc' = "push"
        /\ UNCHANGED <<reader_done, reader_output>> /\ reader_count' = reader_count + 1
        /\ \/ reader_pending' = <<<<mapped_files[fno], pos>>>> \/ reader_pending' = << >>
    BY <1>10 DEF Reader!Read
  <2>2. reader_pending = << >>
    BY <2>1 DEF ReaderScans
  <2>3. PICK p \in {0, 1} : p = Len(reader_pending')
    <3>1. \A x : Len(<<x>>) = 1 /\ Len(<< >>) = 0
      OBVIOUS
    <3> QED
      BY <2>1, <3>1
  <2>4. PICK o \in Nat : o = Len(reader_output) /\ o <= reader_count
    <3>1. Len(reader_output) + Len(reader_pending) <= reader_count
      BY <1>1 DEF ReaderInv
    <3>2. /\ reader_count \in Nat /\ Len(reader_output) \in Nat
          /\ Len(reader_pending) \in Nat
      BY <1>2
    <3>3. \A a, b, c \in Nat : a + b <= c => a <= c
      OBVIOUS
    <3> QED
      BY Zenon, <3>1, <3>2, <3>3
  <2>5. Len(reader_output') = o
    BY <2>1, <2>4
  <2>6. Len(reader_output') + Len(reader_pending') <= reader_count'
    <3>1. reader_count \in Nat /\ reader_count' = reader_count + 1
      BY <1>2, <2>1
    <3>2. \A a \in Nat, b \in {0, 1} : \A c \in Nat : a <= c => a + b <= c + 1
      OBVIOUS
    <3> QED
      BY Zenon, <2>3, <2>4, <2>5, <3>1, <3>2
  <2>7. ReaderInv'
    BY <1>1, <1>4, <2>1, <2>6 DEF ReaderInv
  <2>8. remaining > 0 /\ remaining' = remaining - 1
    BY <1>2, <1>4, <2>1 DEF remaining
  <2>9. /\ entries_processed' = [entries_processed EXCEPT ![1] = @ + 1]
        /\ owed' = [owed EXCEPT ![1] = p]
        /\ UNCHANGED <<done, pushed, queue, next, poolMain>>
    <3> USE DEF calibratorVars, bufferVars, splitterVars, triggerVars, sorterVars, mainVars
    <3>1. entries_processed' = [entries_processed EXCEPT ![1] = reader_count']
      BY <1>1, SixTuple DEF entries_processed
    <3>2. entries_processed[1] = reader_count
      BY DEF entries_processed
    <3>3. owed' = [owed EXCEPT ![1] = p]
      BY <1>1, <2>3, SixTuple DEF owed
    <3>4. UNCHANGED <<done, pushed, queue, next, poolMain>>
      BY <1>1, <2>1 DEF done, pushed, queue, poolMain
    <3> QED
      BY <2>1, <3>1, <3>2, <3>3, <3>4
  <2>10. PoolProofs!Read
    BY Zenon, <1>5, <1>6, <2>1, <2>8, <2>9 DEF PoolProofs!Read, PoolProofs!Goto,
       PoolProofs!mainVars
  <2>11. ~crashed /\ PoolProofs!Running
    BY <1>1, <2>10 DEF Runs, PoolProofs!Running, PoolProofs!SourceStep
  <2> QED
    BY <2>4, <2>5, <2>7, <2>11
<1>11. CASE Reader!NextFile
  <2>1. UNCHANGED <<reader_pc, reader_done, reader_count, reader_pending, reader_output>>
    BY <1>11 DEF Reader!NextFile
  <2>2. ReaderInv'
    BY <1>1, <1>4, <2>1 DEF ReaderInv
  <2>3. UNCHANGED <<pc, done, owed, queue, entries_processed, remaining, pushed, main,
                    next, crashed>>
    BY <1>1, <1>4, <2>1 DEF pc, done, owed, queue, entries_processed, remaining, pushed,
       calibratorVars, bufferVars, splitterVars, triggerVars, sorterVars, mainVars
  <2>4. UNCHANGED PoolProofs!vars
    BY <2>3 DEF PoolProofs!vars, PoolProofs!taskVars, PoolProofs!mainVars, poolPc,
       poolMain
  <2>5. ~crashed
    BY <1>1 DEF Runs
  <2> QED
    BY <1>2, <2>1, <2>2, <2>4, <2>5
<1>12. CASE Reader!AllFilesRead
  <2>1. /\ reader_pc = "test" /\ ~(fno <= Len(mapped_files)) /\ reader_pc' = "drain"
        /\ UNCHANGED <<reader_done, reader_count, reader_pending, reader_output>>
    BY <1>12 DEF Reader!AllFilesRead, Reader!InFile
  <2>2. ReaderInv'
    BY <1>1, <1>4, <2>1 DEF ReaderInv
  <2>3. UNCHANGED <<done, owed, queue, entries_processed, remaining, pushed, main, next,
                    crashed, poolMain>>
    BY <1>1, <1>4, <2>1 DEF done, owed, queue, entries_processed, remaining, pushed,
       poolMain,
       calibratorVars, bufferVars, splitterVars, triggerVars, sorterVars, mainVars
  <2>4. done[1] \/ remaining = 0
    <3>1. fno > Len(mapped_files)
      BY <2>1 DEF ReaderScans
    <3> QED
      BY <1>2, <1>5, <3>1 DEF remaining
  <2>5. PoolProofs!SourceEnds
    BY <1>6, <2>1, <2>3, <2>4 DEF PoolProofs!SourceEnds, PoolProofs!Goto,
       PoolProofs!mainVars,
       PoolProofs!taskVars
  <2>6. ~crashed /\ PoolProofs!Running
    BY <1>1, <2>5 DEF Runs, PoolProofs!Running, PoolProofs!SourceStep
  <2> QED
    BY <1>2, <2>1, <2>2, <2>6
<1>13. CASE Reader!ExitDone
  <2>1. /\ reader_pc = "drain" /\ reader_pc' = "exited" /\ reader_done' = TRUE
        /\ UNCHANGED <<reader_count, reader_pending, reader_output>>
    BY <1>13 DEF Reader!ExitDone
  <2>2. ReaderInv'
    BY <1>1, <1>4, <2>1 DEF ReaderInv
  <2>3. UNCHANGED <<owed, queue, entries_processed, remaining, pushed, main, next, crashed,
                    poolMain>>
    BY <1>1, <1>4, <2>1 DEF owed, queue, entries_processed, remaining, pushed, poolMain,
       calibratorVars, bufferVars, splitterVars, triggerVars, sorterVars, mainVars
  <2>4. done' = [done EXCEPT ![1] = @ \/ 1 = 1]
    <3>1. done' = [done EXCEPT ![1] = reader_done']
      BY <1>1, SixTuple DEF done, calibratorVars, bufferVars, splitterVars, triggerVars,
         sorterVars
    <3>2. \A b \in BOOLEAN : (b \/ 1 = 1) = TRUE
      OBVIOUS
    <3>3. done[1] \in BOOLEAN
      BY <1>1 DEF PoolTypes, N
    <3> QED
      BY Zenon, <2>1, <3>1, <3>2, <3>3
  <2>5. owed[1] = 0
    <3>1. reader_pending = << >> /\ Len(<< >>) = 0
      BY <2>1 DEF ReaderScans
    <3> QED
      BY <3>1 DEF owed
  <2>6. PoolProofs!Exit(1)
    BY <1>6, <2>1, <2>3, <2>4, <2>5 DEF PoolProofs!Exit, PoolProofs!Goto,
       PoolProofs!mainVars,
       PoolProofs!taskVars
  <2>7. ~crashed /\ PoolProofs!Running
    BY <1>1, <2>6 DEF Runs, PoolProofs!Running, PoolProofs!SourceStep
  <2> QED
    BY <1>2, <2>1, <2>2, <2>7
<1> QED
  BY <1>1, <1>8, <1>9, <1>10, <1>11, <1>12, <1>13 DEF Reader!Run

\* A step of the reader.
LEMMA ReaderKeeps ==
  ASSUME ReaderScans, ReaderScans', TasksInv, ReaderStep
  PROVE  TasksInv'
<1>1. /\ UNCHANGED <<calibratorVars, bufferVars, splitterVars, triggerVars, sorterVars,
                     mainVars>>
      /\ Runs(1)
  BY DEF ReaderStep
<1>2. ReaderInv' /\ Len(reader_output) <= Len(reader_output')
  BY ReaderSteps
<1>3. Len(reader_output') \in Nat
  BY <1>2, LenProperties DEF ReaderInv
<1>4. CalibratorInv'
  BY <1>1, <1>2, <1>3, CalibratorStays, LengthsAreNumbers DEF TasksInv, calibratorVars
<1>5. BufferInv'
  BY <1>1, BufferStays, LengthsAreNumbers DEF TasksInv, bufferVars, calibratorVars
<1>6. SplitterInv'
  BY <1>1, SplitterStays, LengthsAreNumbers DEF TasksInv, splitterVars, bufferVars
<1>7. TriggerInv'
  BY <1>1, TriggerStays, LengthsAreNumbers DEF TasksInv, triggerVars, splitterVars
<1>8. SorterInv'
  BY <1>1, SorterStays, LengthsAreNumbers DEF TasksInv, sorterVars, triggerVars
<1>9. StartInv'
  <2>1. \A i \in 1 .. N : i # 1 => pc'[i] = pc[i]
    BY <1>1 DEF pc, N, calibratorVars, bufferVars, splitterVars, triggerVars, sorterVars,
       mainVars
  <2>2. UNCHANGED <<main, next>> /\ 1 \in 1 .. N
    BY <1>1 DEF mainVars, N
  <2> QED
    BY <1>1, <2>1, <2>2, StartStays DEF TasksInv
<1> QED
  BY <1>2, <1>4, <1>5, <1>6, <1>7, <1>8, <1>9 DEF TasksInv

\* Before any thread has been started nothing has been read.
LEMMA InitTasks == Init /\ ReaderScans => TasksInv
<1> SUFFICES ASSUME Init, ReaderScans PROVE TasksInv
  OBVIOUS
<1>1. /\ reader_pc = "test" /\ reader_done = FALSE /\ reader_count = 0
      /\ reader_pending = << >> /\ reader_output = << >> /\ fno = 1 /\ pos = 0
      /\ mapped_files \in Inputs
  BY DEF Init, Reader!Init, Reader!TaskInit, Reader!OutputInit
<1>2. /\ calibrator_pc = "test" /\ calibrator_done = FALSE /\ calibrator_count = 0
      /\ calibrator_pending = << >> /\ calibrator_output = << >>
  BY DEF Init, Calibrator!Init, Calibrator!TaskInit, Calibrator!OutputInit
<1>3. /\ buffer_pc = "test" /\ buffer_done = FALSE /\ buffer_count = 0
      /\ buffer_pending = << >> /\ buffer_output = << >> /\ buffer = {}
  BY DEF Init, Buffer!Init, Buffer!TaskInit, Buffer!OutputInit
<1>4. /\ splitter_pc = "test" /\ splitter_done = FALSE /\ splitter_count = 0
      /\ splitter_pending = << >> /\ splitter_output = << >> /\ entries = << >>
  BY DEF Init, Splitter!Init, Splitter!TaskInit, Splitter!OutputInit
<1>5. /\ trigger_pc = "test" /\ trigger_done = FALSE /\ trigger_count = 0
      /\ trigger_pending = << >> /\ trigger_output = << >>
  BY DEF Init, Trigger!Init, Trigger!TaskInit, Trigger!OutputInit
<1>6. /\ sorter_pc = "test" /\ sorter_done = FALSE /\ sorter_count = 0
      /\ userSort = << >> /\ tree_events = << >> /\ tree \in {"open", "none"}
  BY DEF Init, Sorter!Init, Sorter!TaskInit
<1>7. /\ Len(reader_output) = 0 /\ Len(reader_pending) = 0
      /\ Len(calibrator_output) = 0 /\ Len(calibrator_pending) = 0
      /\ Len(buffer_output) = 0 /\ Len(buffer_pending) = 0 /\ Len(splitter_output) = 0
      /\ Len(splitter_pending) = 0
      /\ Len(trigger_output) = 0 /\ Len(entries) = 0 /\ Len(userSort) = 0
  BY Zenon, <1>1, <1>2, <1>3, <1>4, <1>5, <1>6, NoItems
<1>8. \A Item : TaskState(Item, "test", FALSE, 0, << >>, << >>)
  BY NoItems DEF TaskState
<1>9. /\ TaskState(Hit, calibrator_pc, calibrator_done, calibrator_count,
                    calibrator_pending, calibrator_output)
       /\ TaskState(Hit, buffer_pc, buffer_done, buffer_count, buffer_pending, buffer_output)
       /\ TaskState(Cluster, splitter_pc, splitter_done, splitter_count,
                    splitter_pending, splitter_output)
       /\ TaskState(EventOf(sort_type), trigger_pc, trigger_done, trigger_count,
                    trigger_pending, trigger_output)
       /\ reader_done \in BOOLEAN /\ sorter_done \in BOOLEAN
  BY Zenon, <1>1, <1>2, <1>3, <1>4, <1>5, <1>6, <1>8
<1>10. /\ reader_count = 0 /\ calibrator_count = 0 /\ buffer_count = 0 /\ splitter_count = 0
       /\ trigger_count = 0 /\ sorter_count = 0
  BY <1>1, <1>2, <1>3, <1>4, <1>5, <1>6
<1>11. ReaderInv
  <2>1. reader_count <= Reader!RecordsOfAllFiles /\ Reader!RecordsOfAllFiles \in Nat
    BY DEF ReaderScans
  <2>2. reader_pending \in Seq(Reader!Pointers) /\ reader_output \in Seq(Reader!Pointers)
    BY <1>1
  <2> QED
    BY <1>1, <1>7, <1>9, <1>10, <2>1, <2>2 DEF ReaderInv
<1>12. CalibratorInv
  BY <1>7, <1>9, <1>10 DEF CalibratorInv
<1>13. BufferInv
  <2>1. Cardinality(buffer) = 0 /\ IsFiniteSet(buffer) /\ buffer \subseteq Hit
    BY <1>3, FS_EmptySet
  <2> QED
    BY <1>7, <1>9, <1>10, <2>1, QueueAssumption DEF BufferInv
<1>14. SplitterInv
  <2>1. entries \in Seq(Hit)
    BY <1>4
  <2> QED
    BY <1>7, <1>9, <1>10, <2>1 DEF SplitterInv
<1>15. TriggerInv
  BY <1>7, <1>9, <1>10 DEF TriggerInv
<1>16. SorterInv
  <2>1. /\ userSort \in Seq(EventOf(sort_type)) /\ userSort = tree_events
        /\ sorter_pc = "test" /\ tree \in {"open", "none"}
    BY <1>6
  <2> QED
    BY <1>7, <1>9, <1>10, <2>1 DEF SorterInv
<1>17. StartInv
  BY <1>1, <1>2, <1>3, <1>4, <1>5, <1>6 DEF StartInv, pc, N, Init
<1> QED
  BY <1>11, <1>12, <1>13, <1>14, <1>15, <1>16, <1>17 DEF TasksInv

\* And the pool is where it begins.
LEMMA InitPool == Init /\ ReaderScans => PoolProofs!Init
<1> SUFFICES ASSUME Init, ReaderScans PROVE PoolProofs!Init
  OBVIOUS
<1>1. /\ reader_pending = << >> /\ calibrator_pending = << >> /\ buffer_pending = << >>
      /\ splitter_pending = << >> /\ trigger_pending = << >>
      /\ reader_output = << >> /\ calibrator_output = << >> /\ buffer_output = << >>
      /\ splitter_output = << >> /\ trigger_output = << >>
  BY DEF Init, Reader!Init, Reader!OutputInit, Calibrator!Init, Calibrator!OutputInit,
     Buffer!Init, Buffer!OutputInit, Splitter!Init, Splitter!OutputInit,
     Trigger!Init, Trigger!OutputInit
<1>2. /\ reader_count = 0 /\ calibrator_count = 0 /\ buffer_count = 0 /\ splitter_count = 0
      /\ trigger_count = 0 /\ sorter_count = 0
      /\ reader_done = FALSE /\ calibrator_done = FALSE /\ buffer_done = FALSE
      /\ splitter_done = FALSE /\ trigger_done = FALSE /\ sorter_done = FALSE
  BY DEF Init, Reader!Init, Reader!TaskInit, Calibrator!Init, Calibrator!TaskInit,
     Buffer!Init, Buffer!TaskInit, Splitter!Init, Splitter!TaskInit,
     Trigger!Init, Trigger!TaskInit, Sorter!Init, Sorter!TaskInit
<1>3. main = "add" /\ next = 1 /\ crashed = FALSE /\ mapped_files \in Inputs
  BY DEF Init, Calibrator!Init
<1>4. poolPc = [i \in 1 .. N |-> "new"]
  BY <1>3 DEF poolPc, N
<1>5. /\ done = [i \in 1 .. N |-> FALSE] /\ owed = [i \in 1 .. N |-> 0]
      /\ entries_processed = [i \in 1 .. N |-> 0]
      /\ queue = [i \in 1 .. N - 1 |-> 0] /\ pushed = [i \in 1 .. N - 1 |-> 0]
  <2>1. done = [i \in 1 .. 6 |-> FALSE]
    <3>1. \A b : <<b, b, b, b, b, b>> = [i \in 1 .. 6 |-> b]
      OBVIOUS
    <3> QED
      BY Zenon, <1>2, <3>1 DEF done
  <2>2. owed = [i \in 1 .. 6 |-> 0]
    BY <1>1, NoItems DEF owed
  <2>3. entries_processed = [i \in 1 .. 6 |-> 0]
    BY <1>2 DEF entries_processed
  <2>4. pushed = [i \in 1 .. 5 |-> 0]
    BY <1>1, NoItems DEF pushed
  <2>5. queue = [i \in 1 .. 5 |-> 0]
    BY <1>2, <2>4 DEF queue, pushed
  <2> QED
    BY <2>1, <2>2, <2>3, <2>5, <2>4 DEF N
<1>6. remaining \in 0 .. Records
  <2>1. Reader!RecordsOfAllFiles \in Nat
    BY DEF ReaderScans
  <2>2. Reader!RecordsOfAllFiles <= Records
    BY <1>3, InputsAssumption DEF Reader!RecordsOfAllFiles
  <2> QED
    BY <1>2, <2>1, <2>2, QueueAssumption DEF remaining
<1>7. poolMain = "add"
  BY <1>3 DEF poolMain
<1> QED
  BY <1>3, <1>4, <1>5, <1>6, <1>7 DEF PoolProofs!Init, PoolProofs!Tasks, PoolProofs!Queues

-----------------------------------------------------------------------------
(***************************************************************************)
(* The order in which main tells the tasks to finish                       *)
(***************************************************************************)
\* A task is told to finish when the one before it has exited.
LEMMA ToldInOrder ==
  ASSUME PoolProofs!IInv
  PROVE  /\ buffer_done => calibrator_pc = "exited"
         /\ trigger_done => splitter_pc = "exited"
         /\ main = "finish" /\ next = 4 => buffer_pc = "exited"
         /\ main = "finish" /\ next = 6 => trigger_pc = "exited"
<1>1. /\ next \in 1 .. 6
      /\ \A j \in 1 .. 6 : /\ poolMain \in {"finish", "join"} /\ j < next => poolPc[j] = "exited"
                           /\ poolMain = "returned" => poolPc[j] = "exited"
  BY DEF PoolProofs!IInv, PoolProofs!TypeOK, PoolProofs!Joined, PoolProofs!Tasks, N
<1>2. \A i \in 2 .. 6 : done[i] => \/ poolMain = "finish" /\ i < next
                                   \/ poolMain = "join" /\ i <= next
                                   \/ poolMain = "returned"
  BY DEF PoolProofs!IInv, PoolProofs!NotToldEarly, PoolProofs!Tasks, N
<1>3. poolMain \in {"finish", "join", "returned"} => poolPc = pc
  BY DEF poolMain, poolPc, pc, N
<1>4. ASSUME NEW i \in 2 .. 6, done[i] PROVE pc[i - 1] = "exited"
  <2>1. i - 1 \in 1 .. 6 /\ (i <= next => i - 1 < next) /\ (i < next => i - 1 < next)
    BY <1>1
  <2> QED
    BY <1>1, <1>2, <1>3, <1>4, <2>1
<1>5. ASSUME buffer_done PROVE calibrator_pc = "exited"
  <2>1. 3 \in 2 .. 6 /\ 3 - 1 = 2
    OBVIOUS
  <2>2. done[3]
    BY <1>5 DEF done
  <2>3. pc[3 - 1] = "exited"
    BY Zenon, <1>4, <2>1, <2>2
  <2> QED
    BY <2>1, <2>3 DEF pc
<1>6. ASSUME trigger_done PROVE splitter_pc = "exited"
  <2>1. 5 \in 2 .. 6 /\ 5 - 1 = 4
    OBVIOUS
  <2>2. done[5]
    BY <1>6 DEF done
  <2>3. pc[5 - 1] = "exited"
    BY Zenon, <1>4, <2>1, <2>2
  <2> QED
    BY <2>1, <2>3 DEF pc
<1>7. ASSUME main = "finish", NEW j \in 1 .. 6, j < next PROVE pc[j] = "exited"
  <2>1. poolMain = "finish"
    BY <1>7 DEF poolMain
  <2> QED
    BY <1>1, <1>3, <1>7, <2>1
<1>8. pc[3] = buffer_pc /\ pc[5] = trigger_pc
  BY DEF pc
<1>9. main = "finish" /\ next = 4 => buffer_pc = "exited"
  BY <1>7, <1>8
<1>10. main = "finish" /\ next = 6 => trigger_pc = "exited"
  BY <1>7, <1>8
<1> QED
  BY <1>5, <1>6, <1>9, <1>10

-----------------------------------------------------------------------------
(***************************************************************************)
(* What the buffer and the splitter see of the program                     *)
(***************************************************************************)
bufferSide == <<buffer_pc, buffer_done, buffer_count, calibrator_output, buffer_pending, buffer>>
splitterSide == <<splitter_pc, splitter_done, entries, splitter_pending, splitter_output,
                  trigger_count>>

\* The steps of Grouping.tla, in the words of this model.
GroupingStep ==
    \/ UNCHANGED <<bufferSide, buffer_output, splitter_count, splitterSide>>
    \/ Buffer!Run /\ UNCHANGED splitterSide
    \/ Splitter!Run /\ UNCHANGED bufferSide
    \/ /\ trigger_count < Len(splitter_output) /\ trigger_count' = trigger_count + 1
       /\ UNCHANGED <<bufferSide, buffer_output, splitter_count>>
       /\ UNCHANGED <<splitter_pc, splitter_done, entries, splitter_pending, splitter_output>>
    \/ /\ Len(calibrator_output) < Records /\ ~buffer_done
       /\ \E h \in Hit : /\ \A i \in DOMAIN calibrator_output : calibrator_output[i].from # h.from
                         /\ Len(calibrator_output) - buffer_count < Capacity
                         /\ calibrator_output' = Append(calibrator_output, h)
       /\ UNCHANGED <<buffer_pc, buffer_done, buffer_count, buffer_pending, buffer,
                      buffer_output, splitter_count, splitterSide>>
    \/ /\ buffer_done' = TRUE
       /\ UNCHANGED <<buffer_pc, buffer_count, calibrator_output, buffer_pending, buffer,
                      buffer_output, splitter_count, splitterSide>>
    \/ /\ buffer_pc = "exited" /\ splitter_done' = TRUE
       /\ UNCHANGED <<bufferSide, buffer_output, splitter_count>>
       /\ UNCHANGED <<splitter_pc, entries, splitter_pending, splitter_output, trigger_count>>

\* The trigger's step is one, a cluster being taken or nothing.
LEMMA TriggerForGrouping == ASSUME TriggerStep PROVE GroupingStep
<1>1. /\ Trigger!Run /\ UNCHANGED <<calibratorVars, bufferVars, splitterVars>>
  BY DEF TriggerStep
<1>2. CASE UNCHANGED trigger_count
  BY <1>1, <1>2 DEF GroupingStep, calibratorVars, bufferVars, splitterVars, bufferSide,
     splitterSide
<1>3. CASE trigger_count < Len(splitter_output) /\ trigger_count' = trigger_count + 1
  BY <1>1, <1>3 DEF GroupingStep, calibratorVars, bufferVars, splitterVars, bufferSide,
     splitterSide
<1> QED
  BY <1>1, <1>2, <1>3 DEF Trigger!Run, Trigger!Test, Trigger!Pop, Trigger!PopNext,
     Trigger!ItemWaiting, Trigger!TimedOut, Trigger!Push, Trigger!Handled, Trigger!Exit

\* Main's step is one, a task being told to finish or nothing.
LEMMA MainForGrouping ==
  ASSUME TasksInv, PoolProofs!IInv, MainStep PROVE GroupingStep
<1>1. CASE AddTask \/ JoinSource \/ JoinNext \/ WriteHistograms \/ WriteMetadata
  <2>1. UNCHANGED <<calibratorVars, bufferVars, splitterVars, triggerVars>>
    BY <1>1 DEF AddTask, JoinSource, JoinNext, WriteHistograms, WriteMetadata, tasksUnchanged
  <2> QED
    BY <2>1 DEF GroupingStep, calibratorVars, bufferVars, splitterVars, triggerVars, bufferSide,
       splitterSide
<1>2. CASE FinishNext
  <2>1. /\ main = "finish"
        /\ buffer_done' = (buffer_done \/ next = 3)
        /\ splitter_done' = (splitter_done \/ next = 4)
        /\ buffer_done \in BOOLEAN /\ splitter_done \in BOOLEAN
    BY <1>2, LengthsAreNumbers DEF FinishNext
  <2>2. UNCHANGED <<buffer_pc, buffer_count, calibrator_output, buffer_pending, buffer,
                    buffer_output, splitter_count, splitter_pc, entries, splitter_pending,
                    splitter_output, trigger_count>>
    BY <1>2 DEF FinishNext
  <2>3. CASE next = 3
    <3>1. buffer_done' = TRUE /\ splitter_done' = splitter_done
      <4>1. (buffer_done \/ next = 3) = TRUE /\ (splitter_done \/ next = 4) = splitter_done
        BY <2>1, <2>3
      <4> QED
        BY Zenon, <2>1, <4>1
    <3> QED
      BY <2>2, <3>1 DEF GroupingStep, bufferSide, splitterSide
  <2>4. CASE next = 4
    <3>1. splitter_done' = TRUE /\ buffer_done' = buffer_done /\ buffer_pc = "exited"
      <4>1. (splitter_done \/ next = 4) = TRUE /\ (buffer_done \/ next = 3) = buffer_done
        BY <2>1, <2>4
      <4>2. buffer_pc = "exited"
        BY <2>1, <2>4, ToldInOrder
      <4> QED
        BY Zenon, <2>1, <4>1, <4>2
    <3> QED
      BY <2>2, <3>1 DEF GroupingStep, bufferSide, splitterSide
  <2>5. CASE next # 3 /\ next # 4
    <3>1. splitter_done' = splitter_done /\ buffer_done' = buffer_done
      BY <2>1, <2>5
    <3> QED
      BY <2>2, <3>1 DEF GroupingStep, bufferSide, splitterSide
  <2> QED
    BY <2>3, <2>4, <2>5
<1> QED
  BY <1>1, <1>2 DEF MainStep

-----------------------------------------------------------------------------
(***************************************************************************)
(* What the trigger and the sorter see of the program                      *)
(***************************************************************************)
triggerSide == <<trigger_pc, trigger_done, trigger_count, splitter_output, trigger_pending,
                 <<sort_type, trigger>> >>
sorterSide == <<sorter_pc, sorter_done, userSort, spectra, chargeIntegrator, tree, tree_events>>

\* A cluster has hits.
Clusters == {c \in Seq(Hit) : c # << >>}

\* The steps of Analysis.tla, in the words of this model.
AnalysisStep ==
    \/ UNCHANGED <<triggerSide, trigger_output, sorter_count, sorterSide>>
    \/ Trigger!Run /\ UNCHANGED sorterSide
    \/ Sorter!Run /\ UNCHANGED triggerSide
    \/ /\ Len(splitter_output) < Records /\ ~trigger_done
       /\ \E c \in Clusters : /\ Len(splitter_output) - trigger_count < Capacity
                              /\ splitter_output' = Append(splitter_output, c)
       /\ UNCHANGED <<trigger_pc, trigger_done, trigger_count, trigger_pending, sort_type,
                      trigger, trigger_output, sorter_count, sorterSide>>
    \/ /\ trigger_done' = TRUE
       /\ UNCHANGED <<trigger_pc, trigger_count, splitter_output, trigger_pending, sort_type,
                      trigger, trigger_output, sorter_count, sorterSide>>
    \/ /\ trigger_pc = "exited" /\ sorter_done' = TRUE
       /\ UNCHANGED <<triggerSide, trigger_output, sorter_count>>
       /\ UNCHANGED <<sorter_pc, userSort, spectra, chargeIntegrator, tree, tree_events>>

\* The hits of the clusters are the hits.
LEMMA HitsOfClusters == UNION {ToSet(c) : c \in Clusters} = Hit
<1>1. ASSUME NEW c \in Clusters, NEW h \in ToSet(c) PROVE h \in Hit
  <2>1. c \in Seq(Hit)
    BY DEF Clusters
  <2> QED
    BY <1>1, <2>1, ElementOfSeq DEF ToSet
<1>2. ASSUME NEW h \in Hit PROVE \E c \in Clusters : h \in ToSet(c)
  <2>1. PICK c \in Seq(Hit) : c = <<h>>
    <3>1. <<h>> \in Seq(Hit)
      BY <1>2
    <3> QED
      BY Zenon, <3>1
  <2>2. c \in Clusters /\ 1 \in DOMAIN c /\ c[1] = h
    BY <2>1 DEF Clusters
  <2> QED
    BY <2>2 DEF ToSet
<1> QED
  BY <1>1, <1>2

\* The splitter's step is one, a cluster arriving or nothing.
LEMMA SplitterForAnalysis ==
  ASSUME TasksInv, PoolProofs!IInv, SplitterStep
  PROVE  AnalysisStep
<1>1. Splitter!Run /\ UNCHANGED <<triggerVars, sorterVars>>
  BY DEF SplitterStep
<1>2. CASE UNCHANGED splitter_output
  BY <1>1, <1>2 DEF AnalysisStep, triggerVars, sorterVars, triggerSide, sorterSide
<1>3. CASE Splitter!Push
  <2>1. /\ splitter_pc # "exited" /\ splitter_pending # << >>
        /\ Len(splitter_output) - trigger_count < Capacity
        /\ splitter_output' = Append(splitter_output, Head(splitter_pending))
    BY <1>3 DEF Splitter!Push
  <2>2. /\ splitter_pending \in Seq(Cluster) /\ splitter_output \in Seq(Cluster)
        /\ splitter_count \in Nat /\ splitter_count <= Len(buffer_output)
        /\ Len(splitter_output) + Len(splitter_pending) <= splitter_count
    BY DEF TasksInv, SplitterInv, TaskState
  <2>3. PICK c \in Clusters : c = Head(splitter_pending)
    <3>1. Head(splitter_pending) \in Cluster
      BY <2>1, <2>2
    <3> QED
      BY <3>1 DEF Cluster, Clusters
  <2>4. Len(splitter_output) < Records
    <3>1. PICK m \in Nat, n \in Nat : m = Len(splitter_output) /\ n = Len(splitter_pending) /\ n > 0
      BY <2>1, <2>2, LenProperties
    <3> QED
      BY <2>2, <3>1, CountsBounded, QueueAssumption
  <2>5. ~trigger_done
    BY <2>1, ToldInOrder
  <2>6. UNCHANGED <<trigger_pc, trigger_done, trigger_count, trigger_pending, sort_type,
                    trigger, trigger_output, sorter_count, sorterSide>>
    BY <1>1 DEF triggerVars, sorterVars, sorterSide
  <2>7. /\ Len(splitter_output) - trigger_count < Capacity
        /\ splitter_output' = Append(splitter_output, c)
    BY <2>1, <2>3
  <2> QED
    BY Zenon, <2>4, <2>5, <2>6, <2>7 DEF AnalysisStep
<1> QED
  BY <1>1, <1>2, <1>3 DEF Splitter!Run, Splitter!Test, Splitter!Pop, Splitter!PopNext,
     Splitter!TimedOut, Splitter!Handled, Splitter!Exit

\* Main's step is one, a task being told to finish or nothing.
LEMMA MainForAnalysis ==
  ASSUME TasksInv, PoolProofs!IInv, MainStep PROVE AnalysisStep
<1>1. CASE AddTask \/ JoinSource \/ JoinNext \/ WriteHistograms \/ WriteMetadata
  <2>1. UNCHANGED <<splitterVars, triggerVars, sorterVars>>
    BY <1>1 DEF AddTask, JoinSource, JoinNext, WriteHistograms, WriteMetadata, tasksUnchanged
  <2> QED
    BY <2>1 DEF AnalysisStep, splitterVars, triggerVars, sorterVars, triggerSide, sorterSide
<1>2. CASE FinishNext
  <2>1. /\ main = "finish"
        /\ trigger_done' = (trigger_done \/ next = 5)
        /\ sorter_done' = (sorter_done \/ next = 6)
        /\ trigger_done \in BOOLEAN /\ sorter_done \in BOOLEAN
    BY <1>2, LengthsAreNumbers DEF FinishNext
  <2>2. UNCHANGED <<trigger_pc, trigger_count, splitter_output, trigger_pending, sort_type,
                    trigger, trigger_output, sorter_count, sorter_pc, userSort, spectra,
                    chargeIntegrator, tree, tree_events>>
    BY <1>2 DEF FinishNext
  <2>3. CASE next = 5
    <3>1. trigger_done' = TRUE /\ sorter_done' = sorter_done
      <4>1. (trigger_done \/ next = 5) = TRUE /\ (sorter_done \/ next = 6) = sorter_done
        BY <2>1, <2>3
      <4> QED
        BY Zenon, <2>1, <4>1
    <3> QED
      BY <2>2, <3>1 DEF AnalysisStep, triggerSide, sorterSide
  <2>4. CASE next = 6
    <3>1. sorter_done' = TRUE /\ trigger_done' = trigger_done /\ trigger_pc = "exited"
      <4>1. (sorter_done \/ next = 6) = TRUE /\ (trigger_done \/ next = 5) = trigger_done
        BY <2>1, <2>4
      <4>2. trigger_pc = "exited"
        BY <2>1, <2>4, ToldInOrder
      <4> QED
        BY Zenon, <2>1, <4>1, <4>2
    <3> QED
      BY <2>2, <3>1 DEF AnalysisStep, triggerSide, sorterSide
  <2>5. CASE next # 5 /\ next # 6
    <3>1. sorter_done' = sorter_done /\ trigger_done' = trigger_done
      BY <2>1, <2>5
    <3> QED
      BY <2>2, <3>1 DEF AnalysisStep, triggerSide, sorterSide
  <2> QED
    BY <2>3, <2>4, <2>5
<1> QED
  BY <1>1, <1>2 DEF MainStep

\* So is every step.
LEMMA StepsForAnalysis ==
  ASSUME TasksInv, PoolProofs!IInv, [Next]_vars
  PROVE  AnalysisStep
<1>1. CASE ReaderStep \/ CalibratorStep \/ BufferStep
  <2>1. UNCHANGED <<splitterVars, triggerVars, sorterVars>>
    BY <1>1 DEF ReaderStep, CalibratorStep, BufferStep
  <2> QED
    BY <2>1 DEF AnalysisStep, splitterVars, triggerVars, sorterVars, triggerSide, sorterSide
<1>2. CASE TriggerStep
  BY <1>2 DEF TriggerStep, AnalysisStep, sorterVars, sorterSide
<1>3. CASE SorterStep
  <2>1. sort_type' = sort_type /\ Sorter!Run /\ UNCHANGED <<splitterVars, triggerVars>>
    BY <1>3 DEF SorterStep, triggerVars
  <2> QED
    BY <2>1 DEF AnalysisStep, splitterVars, triggerVars, triggerSide
<1>4. CASE UNCHANGED vars
  BY <1>4 DEF vars, AnalysisStep, splitterVars, triggerVars, sorterVars, triggerSide, sorterSide
<1> QED
  BY <1>1, <1>2, <1>3, <1>4, SplitterForAnalysis, MainForAnalysis DEF Next, Terminated

-----------------------------------------------------------------------------
(***************************************************************************)
(* The hit of a record                                                     *)
(***************************************************************************)
\* The loop of HitsOf over the records, as a fold, and what holds of it after the
\* records s: the hits are made of them, and no two of the same one.
Calibrate(q, hits, p) == IF Table!keep(p) THEN Append(hits, Table!Calibrated(p)) ELSE hits

OneOfEach(hits) == \A i, j \in DOMAIN hits : hits[i].from = hits[j].from => i = j
MadeOf(q, s, hits) ==
    /\ hits \in Seq(Hit) /\ OneOfEach(hits)
    /\ \A i \in DOMAIN hits : hits[i].from \in ToSet(s)

\* A record makes a hit, or none.
LEMMA OneHit ==
  ASSUME NEW hits \in Seq(Hit), NEW p \in Reader!Pointers
  PROVE  Calibrate(0, hits, p) \in Seq(Hit) /\ Begins(Hit, hits, Calibrate(0, hits, p))
<1>1. CASE Table!keep(p)
  <2>1. PICK h \in Hit : h = Table!Calibrated(p)
    BY DEF Hit
  <2>2. <<h>> \in Seq(Hit) /\ Append(hits, h) \in Seq(Hit) /\ Append(hits, h) = hits \o <<h>>
    OBVIOUS
  <2> QED
    BY <1>1, <2>1, <2>2 DEF Calibrate, Begins
<1>2. CASE ~Table!keep(p)
  <2>1. Begins(Hit, hits, hits)
    BY BeginsItself
  <2> QED
    BY Zenon, <1>2, <2>1 DEF Calibrate
<1> QED
  BY <1>1, <1>2

\* A record that none of them is of makes another one, or none.
LEMMA OneMoreHit ==
  ASSUME NEW s \in Seq(Reader!Pointers), IsInjective(s), NEW n \in Nat, n < Len(s),
         NEW hits, MadeOf(0, SubSeq(s, 1, n), hits)
  PROVE  MadeOf(0, SubSeq(s, 1, n + 1), Calibrate(0, hits, s[n + 1]))
<1>1. PICK first \in Seq(Reader!Pointers), p \in Reader!Pointers :
          /\ first = SubSeq(s, 1, n) /\ p = s[n + 1] /\ n + 1 \in DOMAIN s
          /\ SubSeq(s, 1, n + 1) = Append(first, p)
  <2>1. /\ SubSeq(s, 1, n) \in Seq(Reader!Pointers) /\ n + 1 \in DOMAIN s
        /\ s[n + 1] \in Reader!Pointers
        /\ SubSeq(s, 1, n + 1) = Append(SubSeq(s, 1, n), s[n + 1])
    BY PrefixAppend
  <2> QED
    BY Zenon, <2>1
<1>2. ToSet(Append(first, p)) = ToSet(first) \cup {p}
  BY ToSetAppend
<1>3. p \notin ToSet(first)
  <2> SUFFICES ASSUME p \in ToSet(first) PROVE FALSE
    OBVIOUS
  <2>1. n \in 0 .. Len(s) /\ p \in ToSet(SubSeq(s, 1, n))
    BY <1>1, LenProperties
  <2>2. PICK i \in 1 .. n : i \in DOMAIN s /\ p = s[i]
    BY <2>1, PrefixElements
  <2>3. i = n + 1
    BY <1>1, <2>2 DEF IsInjective
  <2> QED
    BY <2>3
<1>4. /\ hits \in Seq(Hit) /\ OneOfEach(hits)
      /\ \A i \in DOMAIN hits : hits[i].from \in ToSet(first)
  BY <1>1 DEF MadeOf
<1>5. CASE Table!keep(p)
  <2>1. PICK h \in Hit : h = Table!Calibrated(p)
    BY DEF Hit
  <2>2. h.from = p
    BY <2>1 DEF Table!Calibrated
  <2>3. PICK k \in Nat : k = Len(hits) /\ DOMAIN hits = 1 .. k
    BY <1>4, LenProperties
  <2>4. PICK more \in Seq(Hit) : /\ more = Append(hits, h) /\ DOMAIN more = 1 .. k + 1
                                 /\ more[k + 1] = h /\ \A i \in 1 .. k : more[i] = hits[i]
    <3>1. /\ Append(hits, h) \in Seq(Hit) /\ Len(Append(hits, h)) = k + 1
          /\ Append(hits, h)[k + 1] = h
          /\ \A i \in 1 .. k : Append(hits, h)[i] = hits[i]
      BY <1>4, <2>3, AppendProperties
    <3>2. DOMAIN Append(hits, h) = 1 .. k + 1
      BY <3>1, LenProperties
    <3> QED
      BY Zenon, <3>1, <3>2
  <2>5. ASSUME NEW i \in 1 .. k + 1, NEW j \in 1 .. k + 1, more[i].from = more[j].from
        PROVE  i = j
    <3>1. CASE i \in 1 .. k /\ j \in 1 .. k
      BY Zenon, <1>4, <2>3, <2>4, <2>5, <3>1 DEF OneOfEach
    <3>2. CASE i = k + 1 /\ j \in 1 .. k
      BY <1>3, <1>4, <2>2, <2>3, <2>4, <2>5, <3>2
    <3>3. CASE i \in 1 .. k /\ j = k + 1
      BY <1>3, <1>4, <2>2, <2>3, <2>4, <2>5, <3>3
    <3> QED
      BY <3>1, <3>2, <3>3
  <2>6. OneOfEach(more)
    BY <2>4, <2>5 DEF OneOfEach
  <2>7. \A i \in DOMAIN more : more[i].from \in ToSet(Append(first, p))
    BY <1>2, <1>4, <2>2, <2>3, <2>4
  <2>8. Calibrate(0, hits, p) = more
    BY <1>5, <2>1, <2>4 DEF Calibrate
  <2> QED
    BY <1>1, <2>6, <2>7, <2>8 DEF MadeOf
<1>6. CASE ~Table!keep(p)
  <2>1. Calibrate(0, hits, p) = hits
    BY <1>6 DEF Calibrate
  <2> QED
    BY Zenon, <1>1, <1>2, <1>4, <2>1 DEF MadeOf
<1> QED
  BY <1>5, <1>6

-----------------------------------------------------------------------------
(***************************************************************************)
(* The trigger, which makes events of the hits of the clusters             *)
(***************************************************************************)
\* The loops of Trigger over the hits of a cluster and over the triggers, as folds:
\* whatever they select are elements of what they go through.
Selected(cluster, s, chosen) ==
    chosen \in Seq(Nat) /\ Len(chosen) <= Len(s) /\ ToSet(chosen) \subseteq ToSet(s)

All == INSTANCE SequenceLemmas WITH
    Op <- LAMBDA cluster, triggers, i :
              IF cluster[i].type = trigger THEN Append(triggers, i) ELSE triggers,
    base <- << >>, Holds <- Selected

Exclusive == INSTANCE SequenceLemmas WITH
    Op <- LAMBDA cluster, accepted, i :
              IF accepted = << >> \/ cluster[i].t - cluster[Last(accepted)].t > DeadTime * Ns
                THEN Append(accepted, i) ELSE accepted,
    base <- << >>, Holds <- Selected

Zero == INSTANCE SequenceLemmas WITH
    Op <- LAMBDA cluster, chosen, i :
              IF cluster[i].detectorID = 0 THEN Append(chosen, i) ELSE chosen,
    base <- << >>, Holds <- Selected

\* The time of a hit is a number.
LEMMA HitTime == ASSUME NEW h \in Hit PROVE h.t \in Int
<1>1. PICK p \in Reader!Pointers : h = Table!Calibrated(p)
  BY DEF Hit
<1>2. PICK xia : xia = Reader!RecordAt[p]
  OBVIOUS
<1>3. /\ xia.crateID \in Nat /\ xia.slotID \in Nat /\ xia.chanID \in Nat
      /\ xia.event_time_high \in Nat /\ xia.event_time_low \in Nat /\ xia.cfd_result \in Nat
  BY <1>2, RecordsAssumption
<1>4. PICK detector : detector = Table!Detector(p)
  OBVIOUS
<1>5. detector.timestamp_shift \in Int /\ detector.cfd_shift \in Int
  <2>1. CASE Table!index(xia) \in DOMAIN dinfo
    <3>1. detector = dinfo[Table!index(xia)]
      BY <1>2, <1>4, <2>1 DEF Table!Detector, raw
    <3> QED
      BY <2>1, <3>1, TableAssumption
  <2>2. CASE Table!index(xia) \notin DOMAIN dinfo
    <3>1. detector = Table!NotInUse
      BY <1>2, <1>4, <2>2 DEF Table!Detector, raw
    <3> QED
      BY <3>1 DEF Table!NotInUse
  <2> QED
    BY <2>1, <2>2
<1>6. PICK ticks \in Int : ticks = Table!timestamp(xia)
  <2>1. PICK a \in Nat, b \in Nat, c \in Nat :
            a = xia.event_time_high /\ b = TimeWord /\ c = xia.event_time_low
    BY <1>3, TableAssumption
  <2>2. a * b + c \in Int
    OBVIOUS
  <2> QED
    BY <2>1, <2>2 DEF Table!timestamp
<1>7. PICK tick \in Int : tick = Table!Tick(detector.sfreq)
  BY DEF Table!Tick
<1>8. PICK time \in Int : time = Table!Decode(detector.sfreq, xia.cfd_result).time
  <2>1. PICK w \in Nat : w = xia.cfd_result
    BY <1>3
  <2>2. /\ Table!Bits(w, 1, 32768) \in Int /\ Table!Bits(w, 1, 16384) \in Int
        /\ Table!Bits(w, 16384, 2) \in Int /\ Table!Bits(w, 8192, 8) \in Int
        /\ Table!Bits(w, 1, 8192) \in Int
    BY DEF Table!Bits
  <2>3. /\ Table!Decode100MHz(w).time \in Int
        /\ Table!Decode250MHz(w).time \in Int
        /\ Table!Decode500MHz(w).time \in Int
    BY <2>2 DEF Table!Decode100MHz, Table!Decode250MHz, Table!Decode500MHz,
       Table!Ns
  <2>4. Table!Decode(detector.sfreq, w).time \in Int
    BY <2>3 DEF Table!Decode
  <2> QED
    BY <2>1, <2>4
<1>9. h.t = (ticks * tick + detector.timestamp_shift) * Table!Ns + time + detector.cfd_shift
  BY <1>1, <1>2, <1>4, <1>6, <1>7, <1>8 DEF Table!Calibrated, raw
<1>10. PICK x \in Int, y \in Int, z \in Int :
           x = ticks * tick /\ y = detector.timestamp_shift /\ z = detector.cfd_shift
  BY <1>5
<1>11. (x + y) * 16384 + time + z \in Int
  OBVIOUS
<1> QED
  BY <1>9, <1>10, <1>11 DEF Table!Ns

\* One step of the loops of Trigger keeps the elements chosen or adds one.
LEMMA ChosenNext ==
  ASSUME NEW S, NEW s \in Seq(S), NEW n \in Nat, n < Len(s), NEW a \in Seq(S),
         Len(a) <= n, ToSet(a) \subseteq ToSet(SubSeq(s, 1, n))
  PROVE  /\ Len(a) <= n + 1 /\ ToSet(a) \subseteq ToSet(SubSeq(s, 1, n + 1))
         /\ Append(a, s[n + 1]) \in Seq(S) /\ Len(Append(a, s[n + 1])) <= n + 1
         /\ ToSet(Append(a, s[n + 1])) \subseteq ToSet(SubSeq(s, 1, n + 1))
         /\ Len(SubSeq(s, 1, n)) = n /\ Len(SubSeq(s, 1, n + 1)) = n + 1
<1>1. n \in 0 .. Len(s) /\ n + 1 \in 0 .. Len(s)
  BY LenProperties
<1>2. PICK b \in Seq(S) : b = SubSeq(s, 1, n) /\ Len(b) = n
  <2>1. SubSeq(s, 1, n) \in Seq(S) /\ Len(SubSeq(s, 1, n)) = n
    BY <1>1, PrefixProperties
  <2> QED
    BY <2>1
<1>3. PICK x \in S : x = s[n + 1]
  BY PrefixAppend
<1>4. SubSeq(s, 1, n + 1) = Append(b, x) /\ Len(SubSeq(s, 1, n + 1)) = n + 1
  BY <1>1, <1>2, <1>3, PrefixAppend, PrefixProperties
<1>5. ToSet(Append(b, x)) = ToSet(b) \cup {x} /\ ToSet(Append(a, x)) = ToSet(a) \cup {x}
  BY ToSetAppend
<1>6. Append(a, x) \in Seq(S) /\ Len(Append(a, x)) = Len(a) + 1 /\ Len(a) \in Nat
  BY AppendProperties, LenProperties
<1>7. Len(a) <= n + 1 /\ Len(Append(a, x)) <= n + 1
  BY <1>6
<1>8. /\ ToSet(a) \subseteq ToSet(Append(b, x))
      /\ ToSet(Append(a, x)) \subseteq ToSet(Append(b, x))
  BY Zenon, <1>2, <1>5
<1> QED
  BY Zenon, <1>2, <1>3, <1>4, <1>6, <1>7, <1>8

\* So what is selected stays selected elements.
LEMMA SelectedNext ==
  ASSUME NEW cluster, NEW s \in Seq(Nat), NEW n \in Nat, n < Len(s), NEW a,
         Selected(cluster, SubSeq(s, 1, n), a)
  PROVE  /\ Selected(cluster, SubSeq(s, 1, n + 1), a)
         /\ Selected(cluster, SubSeq(s, 1, n + 1), Append(a, s[n + 1]))
<1>1. n \in 0 .. Len(s) /\ Len(s) \in Nat
  BY LenProperties
<1>2. Len(SubSeq(s, 1, n)) = n
  BY <1>1, PrefixProperties
<1>3. a \in Seq(Nat) /\ Len(a) <= n /\ ToSet(a) \subseteq ToSet(SubSeq(s, 1, n))
  BY Zenon, <1>2 DEF Selected
<1>4. /\ Len(a) <= n + 1 /\ ToSet(a) \subseteq ToSet(SubSeq(s, 1, n + 1))
      /\ Append(a, s[n + 1]) \in Seq(Nat) /\ Len(Append(a, s[n + 1])) <= n + 1
      /\ ToSet(Append(a, s[n + 1])) \subseteq ToSet(SubSeq(s, 1, n + 1))
      /\ Len(SubSeq(s, 1, n + 1)) = n + 1
  BY Zenon, <1>3, ChosenNext
<1> QED
  BY Zenon, <1>3, <1>4 DEF Selected

\* The hits that the gap and the time run take, as folds.
LEMMA ExclusiveIsFold ==
  \A cluster : Trigger!GetTriggersExclusive(cluster)
                  = Exclusive!Fold(cluster, Trigger!GetTriggers(cluster))
  BY Zenon DEF Trigger!GetTriggersExclusive, Trigger!FoldLeft, Trigger!MapThenFoldSet,
     Trigger!Max, Trigger!Last, Last, Exclusive!Fold, Exclusive!FoldLeft,
     Exclusive!MapThenFoldSet, Exclusive!Max, Exclusive!Last

LEMMA ChosenIsFold ==
  \A cluster : Trigger!ChosenTriggers(cluster)
                  = IF sort_type = "time" THEN Zero!Fold(cluster, Trigger!GetTriggers(cluster))
                    ELSE Trigger!GetTriggersExclusive(cluster)
  BY Zenon DEF Trigger!ChosenTriggers, Trigger!FoldLeft, Trigger!MapThenFoldSet, Trigger!Max,
     Zero!Fold, Zero!FoldLeft, Zero!MapThenFoldSet, Zero!Max

\* The triggers of a cluster are positions of it, and not more than it has hits.
LEMMA TriggersSelected ==
  ASSUME NEW cluster \in Seq(Hit)
  PROVE  LET trigs == Trigger!ChosenTriggers(cluster)
         IN  /\ trigs \in Seq(Nat) /\ Len(trigs) <= Len(cluster)
             /\ ToSet(trigs) \subseteq DOMAIN cluster
<1> DEFINE s == [i \in DOMAIN cluster |-> i]
<1>1. /\ s \in Seq(Nat) /\ Len(s) = Len(cluster) /\ DOMAIN cluster = 1 .. Len(cluster)
      /\ Len(cluster) \in Nat /\ ToSet(s) = DOMAIN cluster
  <2>1. PICK n \in Nat : n = Len(cluster) /\ DOMAIN cluster = 1 .. n
    BY LenProperties
  <2>2. s \in [1 .. n -> Nat]
    BY <2>1
  <2>3. s \in Seq(Nat) /\ Len(s) = n
    BY <2>2, IsASeq, LenProperties
  <2>4. ToSet(s) = DOMAIN cluster
    BY DEF ToSet
  <2> QED
    BY <2>1, <2>3, <2>4
<1> HIDE DEF s
<1>2. \A t : Selected(t, << >>, << >>)
  BY DEF Selected, ToSet
<1>3. PICK triggers : triggers = Trigger!GetTriggers(cluster)
  OBVIOUS
<1>4. Selected(cluster, s, triggers)
  <2>1. triggers = All!Fold(cluster, s)
    BY Zenon, <1>3 DEF s, Trigger!GetTriggers, Trigger!FoldLeftDomain, Trigger!FoldLeft,
       Trigger!MapThenFoldSet, Trigger!Max, All!Fold, All!FoldLeft, All!MapThenFoldSet,
       All!Max
  <2>2. ASSUME NEW n \in Nat, n < Len(s), NEW a, Selected(cluster, SubSeq(s, 1, n), a)
        PROVE  Selected(cluster, SubSeq(s, 1, n + 1),
                        IF cluster[s[n + 1]].type = trigger THEN Append(a, s[n + 1]) ELSE a)
    BY <1>1, <2>2, SelectedNext
  <2>3. Selected(cluster, s, All!Fold(cluster, s))
    BY <1>1, <1>2, <2>2, All!FoldInduction
  <2> QED
    BY <2>1, <2>3
<1>5. triggers \in Seq(Nat)
  BY <1>4 DEF Selected
<1>6. Selected(cluster, triggers, Exclusive!Fold(cluster, triggers))
  <2>1. ASSUME NEW n \in Nat, n < Len(triggers), NEW a,
               Selected(cluster, SubSeq(triggers, 1, n), a)
        PROVE  Selected(cluster, SubSeq(triggers, 1, n + 1),
                        IF a = << >> \/ cluster[triggers[n + 1]].t - cluster[Last(a)].t > DeadTime * Ns
                          THEN Append(a, triggers[n + 1]) ELSE a)
    BY <1>5, <2>1, SelectedNext
  <2> QED
    BY <1>2, <1>5, <2>1, Exclusive!FoldInduction
<1>7. Selected(cluster, triggers, Zero!Fold(cluster, triggers))
  <2>1. ASSUME NEW n \in Nat, n < Len(triggers), NEW a,
               Selected(cluster, SubSeq(triggers, 1, n), a)
        PROVE  Selected(cluster, SubSeq(triggers, 1, n + 1),
                        IF cluster[triggers[n + 1]].detectorID = 0
                          THEN Append(a, triggers[n + 1]) ELSE a)
    BY Zenon, <1>5, <2>1, SelectedNext
  <2> QED
    BY <1>2, <1>5, <2>1, Zero!FoldInduction
<1>8. CASE sort_type = "time"
  <2>1. Trigger!ChosenTriggers(cluster) = Zero!Fold(cluster, Trigger!GetTriggers(cluster))
    BY Zenon, <1>8, ChosenIsFold
  <2> QED
    BY <1>1, <1>3, <1>4, <1>7, <2>1, LenProperties DEF Selected
<1>9. CASE sort_type # "time"
  <2>1. Trigger!ChosenTriggers(cluster) = Exclusive!Fold(cluster, Trigger!GetTriggers(cluster))
    BY Zenon, <1>9, ChosenIsFold, ExclusiveIsFold
  <2> QED
    BY <1>1, <1>3, <1>4, <1>6, <2>1, LenProperties DEF Selected
<1> QED
  BY <1>8, <1>9

\* The window of a trigger is not empty.
LEMMA WindowHasHits ==
  ASSUME NEW cluster \in Seq(Hit), NEW trig \in DOMAIN cluster
  PROVE  Trigger!Window(cluster, trig) \in {e \in [hits : Seq(Hit), index : Int] : e.hits # << >>}
<1> DEFINE before == {i \in 1 .. trig :
                         \A j \in i .. trig : Trigger!Near(cluster[j], cluster[trig])}
           after == {i \in trig .. Len(cluster) :
                        \A j \in trig .. i : Trigger!Near(cluster[j], cluster[trig])}
<1>1. PICK len \in Nat : len = Len(cluster) /\ DOMAIN cluster = 1 .. len
  BY LenProperties
<1>2. trig \in 1 .. len /\ Trigger!Near(cluster[trig], cluster[trig])
  <2>1. cluster[trig].t \in Int
    BY <1>1, ElementOfSeq, HitTime
  <2>2. PICK c \in Nat : c = CoincidenceTime * Ns
    BY TimesAssumption DEF Ns
  <2>3. 0 \in -c .. c /\ cluster[trig].t - cluster[trig].t = 0
    BY <2>1
  <2> QED
    BY <1>1, <2>2, <2>3 DEF Trigger!Near
<1>3. PICK first : first = Trigger!Min(before) /\ first \in before
  <2>1. before \in SUBSET Nat
    OBVIOUS
  <2>2. trig \in before
    BY <1>2
  <2> HIDE DEF before
  <2>3. before # {}
    BY <2>2
  <2>4. Trigger!Min(before) = Min(before)
    BY Zenon DEF Trigger!Min, Min
  <2> QED
    BY <2>1, <2>3, <2>4, MinIsLeast
<1>4. PICK last : last = Trigger!Max(after) /\ last \in after
  <2>1. after \in SUBSET (1 .. len)
    BY <1>1, <1>2
  <2>2. trig \in after
    BY <1>1, <1>2
  <2> HIDE DEF after
  <2>3. after # {}
    BY <2>2
  <2>4. Trigger!Max(after) = Max(after)
    BY Zenon DEF Trigger!Max, Max
  <2> QED
    BY <2>1, <2>3, <2>4, MaxIsGreatest
<1>5. first \in 1 .. trig /\ last \in trig .. len
  BY <1>1, <1>3, <1>4
<1>6. PICK hits \in Seq(Hit) : hits = SubSeq(cluster, first, last) /\ hits # << >>
  <2>1. first \in Int /\ last \in Int /\ first <= last
    BY <1>2, <1>5
  <2>2. \A i \in first .. last : cluster[i] \in Hit
    BY <1>1, <1>2, <1>5, ElementOfSeq
  <2>3. /\ SubSeq(cluster, first, last) \in Seq(Hit)
        /\ Len(SubSeq(cluster, first, last)) = last - first + 1
    BY <2>1, <2>2, SubSeqProperties
  <2>4. SubSeq(cluster, first, last) # << >>
    <3>1. last - first + 1 # 0
      BY <2>1
    <3> QED
      BY <2>3, <3>1, EmptySeq
  <2> QED
    BY Zenon, <2>3, <2>4
<1>7. Trigger!Window(cluster, trig) = [hits |-> hits, index |-> trig - first]
  BY Zenon, <1>3, <1>4, <1>6 DEF Trigger!Window
<1>8. trig - first \in Int
  BY <1>2, <1>5
<1> QED
  BY <1>6, <1>7, <1>8

\* The events of a cluster have hits, and there are not more of them than it has.
LEMMA EventsOfCluster ==
  ASSUME NEW cluster \in Cluster
  PROVE  /\ Trigger!Events(cluster) \in Seq(EventOf(sort_type))
         /\ Len(Trigger!Events(cluster)) <= Records
<1>1. PICK len \in Nat \ {0} : len = Len(cluster) /\ len <= Records /\ cluster \in Seq(Hit)
  BY LenProperties, EmptySeq DEF Cluster
<1>2. CASE sort_type = "gap"
  <2>1. Trigger!Events(cluster) = Trigger!GapEvents(cluster)
    BY <1>2 DEF Trigger!Events
  <2>2. PICK e \in EventOf(sort_type) : e = [hits |-> cluster, index |-> -1]
    <3>1. -1 \in Int
      OBVIOUS
    <3> QED
      BY <1>1, <3>1 DEF EventOf, Cluster
  <2>3. <<e>> \in Seq(EventOf(sort_type)) /\ << >> \in Seq(EventOf(sort_type))
    OBVIOUS
  <2>4. Len(<<e>>) <= Records /\ Len(<< >>) <= Records
    BY <1>1, QueueAssumption
  <2> QED
    BY <2>1, <2>2, <2>3, <2>4 DEF Trigger!GapEvents
<1>3. CASE sort_type # "gap"
  <2>1. PICK trigs \in Seq(Nat) : /\ trigs = Trigger!ChosenTriggers(cluster)
                                  /\ Len(trigs) <= len /\ ToSet(trigs) \subseteq DOMAIN cluster
    BY <1>1, TriggersSelected
  <2>2. PICK n \in Nat : n = Len(trigs) /\ DOMAIN trigs = 1 .. n /\ n <= Records
    BY <1>1, <2>1, LenProperties, QueueAssumption
  <2>3. PICK events : events = Trigger!Events(cluster)
    OBVIOUS
  <2>4. events = [k \in 1 .. n |-> Trigger!Window(cluster, trigs[k])]
    BY <1>3, <2>1, <2>2, <2>3 DEF Trigger!Events
  <2>5. \A k \in 1 .. n : Trigger!Window(cluster, trigs[k]) \in EventOf(sort_type)
    <3> SUFFICES ASSUME NEW k \in 1 .. n
                 PROVE  Trigger!Window(cluster, trigs[k]) \in EventOf(sort_type)
      OBVIOUS
    <3>1. trigs[k] \in DOMAIN cluster
      BY <2>1, <2>2 DEF ToSet
    <3> QED
      BY <1>1, <1>3, <3>1, WindowHasHits DEF EventOf
  <2>6. events \in [1 .. n -> EventOf(sort_type)]
    BY <2>4, <2>5
  <2>7. events \in Seq(EventOf(sort_type)) /\ Len(events) = n
    BY <2>6, IsASeq, LenProperties
  <2> QED
    BY <2>2, <2>3, <2>7
<1> QED
  BY <1>2, <1>3

\* The trigger.
LEMMA TriggerSteps ==
  ASSUME TasksInv, TriggerStep
  PROVE  /\ TriggerInv' /\ Len(trigger_output) <= Len(trigger_output')
         /\ \A i \in 1 .. Len(trigger_output) : trigger_output'[i] = trigger_output[i]
         /\ sort_type' = sort_type
         /\ ~crashed /\ PoolProofs!Running
<1> DEFINE moves == TaskMoves(5, trigger_pc, Len(trigger_pending), trigger_count,
                              Len(trigger_output), trigger_pc', Len(trigger_pending'),
                              trigger_count', Len(trigger_output'))
           kept == \A i \in 1 .. Len(trigger_output) : trigger_output'[i] = trigger_output[i]
<1>1. /\ TriggerInv /\ PoolTypes /\ Runs(5) /\ Trigger!Run
      /\ UNCHANGED <<readerVars, calibratorVars, bufferVars, splitterVars, sorterVars,
                     mainVars>>
  BY TasksAreTyped DEF TasksInv, TriggerStep
<1>2. /\ trigger_count \in Nat /\ trigger_pending \in Seq(EventOf(sort_type))
      /\ trigger_output \in Seq(EventOf(sort_type))
      /\ Len(trigger_pending) \in Nat /\ Len(trigger_output) \in Nat
      /\ trigger_count <= Len(splitter_output) /\ trigger_done \in BOOLEAN
  BY <1>1, LenProperties DEF TriggerInv, TaskState
<1>3. UNCHANGED <<splitter_output, sorter_count, crashed>>
  BY <1>1 DEF splitterVars, sorterVars, calibratorVars
<1>4. /\ done[5] = trigger_done /\ pushed[4] = Len(splitter_output)
      /\ Len(splitter_output) \in Nat
  BY <1>1 DEF done, pushed, PoolTypes
<1>5. ASSUME moves, TriggerInv', trigger_done' = trigger_done, UNCHANGED sort_type, kept,
             Len(trigger_output) <= Len(trigger_output')
      PROVE  /\ TriggerInv' /\ Len(trigger_output) <= Len(trigger_output')
             /\ kept /\ sort_type' = sort_type
             /\ ~crashed /\ PoolProofs!Running
  <2>1. /\ Len(trigger_pending') \in Nat /\ trigger_count' \in Nat
        /\ Len(trigger_output') \in Nat
    BY <1>5, LenProperties DEF TriggerInv, TaskState
  <2>2. 5 \in 1 .. N /\ (5 = N => Len(trigger_pending') = 0)
    BY DEF N
  <2> QED
    BY Zenon, <1>1, <1>2, <1>5, <2>1, <2>2, AtTasks, TriggerGoes, TaskOfPool
<1>6. Trigger!Pop \/
          /\ Shared(trigger_pc, trigger_done, trigger_count, trigger_pending,
                    trigger_output, Len(splitter_output), sorter_count,
                    trigger_pc', trigger_pending', trigger_output')
          /\ UNCHANGED <<trigger_done, trigger_count, sort_type>>
  BY <1>1 DEF Trigger!Run, Trigger!Test, Trigger!TimedOut, Trigger!ItemWaiting,
     Trigger!Push, Trigger!Handled, Trigger!Exit, Trigger!options, Shared
<1>7. CASE Trigger!Pop
  <2>1. /\ trigger_pc = "pop" /\ trigger_pc' = "push" /\ trigger_pending = << >>
        /\ trigger_count < Len(splitter_output) /\ trigger_count' = trigger_count + 1
        /\ UNCHANGED <<trigger_done, trigger_output, sort_type>>
    BY <1>1, <1>7 DEF Trigger!Pop, Trigger!PopNext, Trigger!ItemWaiting, Trigger!options,
       TriggerInv, TaskState
  <2>2. PICK cluster \in Cluster : cluster = Trigger!NextItem
    BY <1>2, <1>4, <2>1, ElementOfSeq DEF Trigger!NextItem, TasksInv, SplitterInv,
       TaskState
  <2>3. trigger_pending' \in Seq(EventOf(sort_type)) /\ Len(trigger_pending') <= Records
    BY <1>7, <2>2, EventsOfCluster DEF Trigger!Pop
  <2>4. moves
    BY <1>4, <2>1, <2>3 DEF TaskMoves
  <2>5. trigger_count' \in Nat /\ trigger_count' <= Len(splitter_output')
    BY <1>2, <1>3, <1>4, <2>1
  <2>6. TriggerInv'
    BY <1>2, <2>1, <2>3, <2>5 DEF TriggerInv, TaskState
  <2> QED
    BY <1>2, <1>5, <2>1, <2>4, <2>6
<1>8. CASE Shared(trigger_pc, trigger_done, trigger_count, trigger_pending,
                  trigger_output, Len(splitter_output), sorter_count,
                  trigger_pc', trigger_pending', trigger_output')
           /\ UNCHANGED <<trigger_done, trigger_count, sort_type>>
  <2>1. 5 \in 2 .. 5 /\ 5 - 1 = 4 /\ 5 + 1 = 6 /\ entries_processed[6] = sorter_count
    BY DEF entries_processed
  <2>2. TaskState(EventOf(sort_type), trigger_pc, trigger_done, trigger_count,
                  trigger_pending, trigger_output)
    BY <1>1 DEF TriggerInv
  <2>3. /\ TaskState(EventOf(sort_type), trigger_pc', trigger_done, trigger_count,
                     trigger_pending', trigger_output')
        /\ Len(trigger_output) <= Len(trigger_output')
        /\ TaskMoves(5, trigger_pc, Len(trigger_pending), trigger_count,
                     Len(trigger_output), trigger_pc', Len(trigger_pending'),
                     trigger_count, Len(trigger_output'))
    BY <1>2, <1>4, <1>8, <2>1, <2>2, SharedSteps
  <2>4. kept
    <3>1. \/ trigger_output' = trigger_output
          \/ trigger_output' = Append(trigger_output, Head(trigger_pending)) /\ trigger_pending # << >>
      BY <1>8 DEF Shared
    <3>2. trigger_pending # << >> => Head(trigger_pending) \in EventOf(sort_type)
      BY <1>2, HeadTailProperties
    <3> QED
      BY <1>2, <3>1, <3>2, AppendProperties
  <2>5. TriggerInv'
    BY <1>2, <1>3, <1>8, <2>2, <2>3 DEF TriggerInv, TaskState
  <2> QED
    BY <1>5, <1>8, <2>3, <2>4, <2>5
<1> QED
  BY <1>6, <1>7, <1>8

\* A step of the trigger.
LEMMA TriggerKeeps == ASSUME TasksInv, TriggerStep PROVE TasksInv'
<1>1. /\ UNCHANGED <<readerVars, calibratorVars, bufferVars, splitterVars, sorterVars,
                     mainVars>>
      /\ Runs(5)
  BY DEF TriggerStep
<1>2. /\ TriggerInv' /\ Len(trigger_output) <= Len(trigger_output')
      /\ \A i \in 1 .. Len(trigger_output) : trigger_output'[i] = trigger_output[i]
      /\ sort_type' = sort_type
  BY TriggerSteps
<1>3. Len(trigger_output') \in Nat
  BY <1>2, LenProperties DEF TriggerInv, TaskState
<1>4. ReaderInv'
  BY <1>1, ReaderStays, LengthsAreNumbers DEF TasksInv, readerVars
<1>5. CalibratorInv'
  BY <1>1, CalibratorStays, LengthsAreNumbers DEF TasksInv, calibratorVars, readerVars
<1>6. BufferInv'
  BY <1>1, BufferStays, LengthsAreNumbers DEF TasksInv, bufferVars, calibratorVars
<1>7. SplitterInv'
  BY <1>1, SplitterStays, LengthsAreNumbers DEF TasksInv, splitterVars, bufferVars
<1>8. SorterInv'
  BY <1>1, <1>2, <1>3, SorterStays, LengthsAreNumbers DEF TasksInv, sorterVars
<1>9. StartInv'
  <2>1. \A i \in 1 .. N : i # 5 => pc'[i] = pc[i]
    BY <1>1 DEF pc, N, readerVars, calibratorVars, bufferVars, splitterVars, sorterVars,
       mainVars
  <2>2. UNCHANGED <<main, next>> /\ 5 \in 1 .. N
    BY <1>1 DEF mainVars, N
  <2> QED
    BY <1>1, <2>1, <2>2, StartStays DEF TasksInv
<1> QED
  BY <1>2, <1>4, <1>5, <1>6, <1>7, <1>8, <1>9 DEF TasksInv

-----------------------------------------------------------------------------
(***************************************************************************)
(* The reader, which is the one XIAReaderProofs is about                   *)
(***************************************************************************)
\* The reader with its proofs.
ReaderProofs == INSTANCE XIAReaderProofs WITH
    pc <- reader_pc, done <- reader_done, entries_processed <- reader_count,
    pending <- reader_pending, output <- reader_output, taken <- calibrator_count

\* The positions of the records are the same.
LEMMA SameStart == \A file, i : Reader!Start(file, i) = ReaderProofs!Start(file, i)
  BY Zenon DEF Reader!Start, ReaderProofs!Start, Reader!FoldLeft, ReaderProofs!FoldLeft,
   Reader!MapThenFoldSet, ReaderProofs!MapThenFoldSet, Reader!Max, ReaderProofs!Max

\* So are the pointers to them.
LEMMA SamePointers == Reader!Pointers = ReaderProofs!Pointers
  BY SameStart DEF Reader!Pointers, ReaderProofs!Pointers

\* So is their number.
LEMMA SameCount == Reader!RecordsOfAllFiles = ReaderProofs!RecordsOfAllFiles
  BY Zenon DEF Reader!RecordsOfAllFiles, ReaderProofs!RecordsOfAllFiles, Reader!RecordsOf,
  ReaderProofs!RecordsOf, Reader!FoldLeft, ReaderProofs!FoldLeft,
   Reader!MapThenFoldSet, ReaderProofs!MapThenFoldSet, Reader!Max, ReaderProofs!Max

\* The files are what those proofs assume.
LEMMA SameFilesOK == ReaderProofs!FilesOK
  BY Zenon, FilesAssumption, SameStart DEF Reader!FilesOK, ReaderProofs!FilesOK, Reader!ToSet,
     ReaderProofs!ToSet

\* So are the steps.
LEMMA SameRun == Reader!Run <=> ReaderProofs!Run
<1>1. \A file, p : Reader!HeaderLen(file, p) = ReaderProofs!HeaderLen(file, p)
  BY SameStart DEF Reader!HeaderLen, ReaderProofs!HeaderLen, Reader!IsHeader,
     ReaderProofs!IsHeader,
     Reader!RecordIn, ReaderProofs!RecordIn
<1> QED
  BY <1>1 DEF Reader!Run, ReaderProofs!Run, Reader!Read, ReaderProofs!Read,
    Reader!NextFile, ReaderProofs!NextFile, Reader!AllFilesRead,
    ReaderProofs!AllFilesRead,
    Reader!ExitDone, ReaderProofs!ExitDone, Reader!Push, ReaderProofs!Push,
    Reader!Handled, ReaderProofs!Handled, Reader!InFile, ReaderProofs!InFile,
    Reader!File, ReaderProofs!File,
    Reader!Fits, ReaderProofs!Fits, Reader!readerVars, ReaderProofs!readerVars

\* What the steps of the reader need of the scan.
LEMMA ScanOfReader == ReaderProofs!ScanInv => ReaderScans
<1> SUFFICES ASSUME ReaderProofs!ScanInv PROVE ReaderScans
  OBVIOUS
<1>1. /\ ReaderProofs!RecordsOfAllFiles \in Nat
      /\ reader_count \in 0 .. ReaderProofs!RecordsOfAllFiles
      /\ ~reader_done /\ fno > Len(mapped_files) => reader_count = ReaderProofs!RecordsOfAllFiles
  BY Zenon, ReaderProofs!RecordsCounted, SameFilesOK, QueueAssumption
     DEF ReaderProofs!FilesAssumption, ReaderProofs!CapacityAssumption
<1>2. /\ reader_pending \in Seq(Reader!Pointers) /\ reader_output \in Seq(Reader!Pointers)
      /\ reader_pc # "push" => reader_pending = << >>
      /\ fno \in Nat /\ Len(mapped_files) \in Nat
  BY SamePointers, ReaderProofs!ListsType DEF ReaderProofs!ScanInv
<1> QED
  BY <1>1, <1>2, SameCount, LenProperties DEF ReaderScans

\* And after a step.
LEMMA ScanOfReaderNext == ReaderProofs!ScanInv' => ReaderScans'
  BY ScanOfReader, PTL

\* The reader starts with the first record of the first file.
LEMMA ScanInit == Init => ReaderProofs!ScanInv
<1> SUFFICES ASSUME Init PROVE ReaderProofs!ScanInv
  OBVIOUS
<1>1. /\ reader_pc = "test" /\ reader_done = FALSE /\ reader_count = 0
      /\ reader_pending = << >> /\ reader_output = << >> /\ fno = 1 /\ pos = 0
      /\ mapped_files \in Inputs
  BY DEF Init, Reader!Init, Reader!TaskInit, Reader!OutputInit
<1>2. mapped_files \in ReaderProofs!Names
  BY <1>1, InputsAssumption DEF ReaderProofs!Names
<1> QED
  BY Zenon, <1>1, <1>2, ReaderProofs!ScanInvInit, SameFilesOK, QueueAssumption
     DEF ReaderProofs!FilesAssumption, ReaderProofs!CapacityAssumption

\* What the others do to the reader.
LEMMA ScanStays ==
  ASSUME ReaderProofs!ScanInv,
         UNCHANGED <<reader_pc, reader_count, reader_pending, reader_output>>,
         UNCHANGED <<mapped_files, fno, pos>>, reader_done => reader_done'
  PROVE  ReaderProofs!ScanInv'
  BY Zenon, ReaderProofs!ScanInvOthers, SameFilesOK, QueueAssumption
     DEF ReaderProofs!readerVars, ReaderProofs!FilesAssumption, ReaderProofs!CapacityAssumption

\* Its steps, and those of the others, keep what XIAReaderProofs says of the scan.
LEMMA ScanKept ==
  ASSUME ReaderProofs!ScanInv, [Next]_vars
  PROVE  ReaderProofs!ScanInv'
<1>1. CASE ReaderStep
  BY <1>1, SameRun, ReaderProofs!ScanInvRun, SameFilesOK, QueueAssumption
     DEF ReaderStep, ReaderProofs!FilesAssumption, ReaderProofs!CapacityAssumption
<1>2. ASSUME UNCHANGED readerVars PROVE ReaderProofs!ScanInv'
  BY <1>2, ScanStays DEF readerVars
<1>3. CASE CalibratorStep \/ BufferStep \/ SplitterStep \/ TriggerStep \/ SorterStep
  BY <1>2, <1>3 DEF CalibratorStep, BufferStep, SplitterStep, TriggerStep, SorterStep
<1>4. CASE FinishNext
  BY <1>4, ScanStays DEF FinishNext
<1>5. CASE AddTask \/ JoinSource \/ JoinNext \/ WriteHistograms \/ WriteMetadata
  BY <1>2, <1>5 DEF AddTask, JoinSource, JoinNext, WriteHistograms, WriteMetadata,
     tasksUnchanged
<1>6. CASE UNCHANGED vars
  BY <1>2, <1>6 DEF vars
<1> QED
  BY <1>1, <1>3, <1>4, <1>5, <1>6 DEF Next, MainStep, Terminated

\* The program's reader scans the files as XIAReaderProofs says.
LEMMA ScanInvariance == Spec => []ReaderProofs!ScanInv
  BY ScanInit, ScanKept, PTL DEF Spec

-----------------------------------------------------------------------------
(***************************************************************************)
(* The program and the pool                                                *)
(***************************************************************************)
\* A step of the program is a step of the pool, or no step of it.
LEMMA StepOfPool ==
  ASSUME ReaderProofs!ScanInv, TasksInv, [Next]_vars
  PROVE  TasksInv' /\ [PoolProofs!Next]_(PoolProofs!vars)
<1>1. ~crashed /\ PoolProofs!Running => PoolProofs!Next
  BY DEF PoolProofs!Next
<1>2. CASE ReaderStep
  <2>1. ReaderScans /\ ReaderScans'
    BY ScanKept, ScanOfReader, ScanOfReaderNext
  <2> QED
    BY <1>1, <1>2, <2>1, ReaderKeeps, ReaderSteps
<1>3. CASE CalibratorStep
  BY <1>1, <1>3, CalibratorKeeps, CalibratorSteps
<1>4. CASE BufferStep
  BY <1>1, <1>4, BufferKeeps, BufferSteps
<1>5. CASE SplitterStep
  BY <1>1, <1>5, SplitterKeeps, SplitterSteps
<1>6. CASE TriggerStep
  BY <1>1, <1>6, TriggerKeeps, TriggerSteps
<1>7. CASE SorterStep
  BY <1>1, <1>7, SorterKeeps, SorterSteps
<1>8. CASE MainStep
  BY <1>1, <1>8, MainKeeps, MainMoves
<1>9. CASE UNCHANGED vars
  <2>1. UNCHANGED <<poolPc, done, owed, queue, entries_processed, remaining, pushed,
                    poolMain, next, crashed>>
    BY <1>9 DEF vars, readerVars, calibratorVars, bufferVars, splitterVars, triggerVars,
       sorterVars,
       mainVars, poolPc, pc, done, owed, queue, entries_processed, remaining, pushed,
       poolMain,
       Reader!RecordsOfAllFiles
  <2> QED
    BY <1>9, <2>1, StutterKeeps DEF PoolProofs!vars, PoolProofs!taskVars,
       PoolProofs!mainVars
<1> QED
  BY <1>2, <1>3, <1>4, <1>5, <1>6, <1>7, <1>8, <1>9 DEF Next, Terminated

\* The six tasks keep their invariant.
THEOREM TasksInvariance == Spec => []TasksInv
<1>1. ReaderProofs!ScanInv /\ TasksInv /\ [Next]_vars => TasksInv'
  BY StepOfPool
<1> QED
  BY InitTasks, ScanInit, ScanOfReader, ScanInvariance, <1>1, PTL DEF Spec

\* The program implements the pool.
THEOREM PoolImplemented == Spec => ImplementsThreadPool
<1>1. Init => Pool!Init
  BY Zenon, InitPool, ScanInit, ScanOfReader, SamePool
<1>2. ReaderProofs!ScanInv /\ TasksInv /\ [Next]_vars => [Pool!Next]_(Pool!vars)
  BY StepOfPool, SamePool
<1> QED
  BY ScanInvariance, TasksInvariance, <1>1, <1>2, PTL DEF Spec, ImplementsThreadPool, Pool!Spec

\* So what is proved of the pool holds for the program.
THEOREM PoolInvariance == Spec => []PoolProofs!IInv
<1>1. ReaderProofs!ScanInv /\ TasksInv /\ [Next]_vars => [PoolProofs!Next]_(PoolProofs!vars)
  BY StepOfPool
<1>2. Spec => PoolProofs!Spec
  BY InitPool, ScanInit, ScanOfReader, ScanInvariance, TasksInvariance, <1>1, PTL
     DEF Spec, PoolProofs!Spec
<1>3. /\ PoolProofs!NAssumption /\ PoolProofs!CapacityAssumption /\ PoolProofs!BoundsAssumption
      /\ PoolProofs!DriversAssumption /\ PoolProofs!ThrowingAssumption
  BY QueueAssumption DEF N, PoolProofs!NAssumption, PoolProofs!CapacityAssumption,
     PoolProofs!BoundsAssumption, PoolProofs!DriversAssumption,
     PoolProofs!ThrowingAssumption
<1>4. PoolProofs!Spec => []PoolProofs!IInv
  BY <1>3, PoolProofs!Invariance
<1> QED
  BY <1>2, <1>4, PTL

-----------------------------------------------------------------------------
(***************************************************************************)
(* The output                                                              *)
(***************************************************************************)
\* OutputIsConsistent: what the user finds in the output file is final and agrees with itself.
THEOREM OutputCorrect == Spec => []OutputIsConsistent
<1>1. Init => OutputInv
  BY DEF Init, OutputInv
<1>2. TasksInv /\ PoolProofs!IInv /\ OutputInv => OutputIsConsistent
  <2> SUFFICES ASSUME TasksInv, PoolProofs!IInv, OutputInv PROVE OutputIsConsistent
    OBVIOUS
  <2>1. ASSUME written # << >>
        PROVE  /\ written.userSort = userSort /\ written.spectra = spectra
               /\ written.chargeIntegrator = chargeIntegrator
               /\ written.tree # "open"
               /\ written.tree = "closed" => tree_events = written.userSort
    <3>1. main \in {"written", "end"} /\ sorter_pc = "exited"
      BY <2>1, TasksHaveExited DEF OutputInv
    <3>2. tree # "open" /\ (tree = "closed" => tree_events = userSort)
      BY <3>1 DEF TasksInv, SorterInv
    <3> QED
      BY <3>1, <3>2 DEF OutputInv
  <2>2. ASSUME metadata # << >>
        PROVE  /\ metadata.RawEntries = Reader!RecordsOfAllFiles
               /\ metadata.TriggeredEvents = Len(written.userSort)
    <3>1. main = "end" /\ remaining = 0
      BY <2>2, TasksHaveExited DEF OutputInv
    <3>2. reader_count \in Nat /\ Reader!RecordsOfAllFiles \in Nat
      BY DEF TasksInv, ReaderInv
    <3>3. reader_count = Reader!RecordsOfAllFiles
      BY <3>1, <3>2 DEF remaining
    <3>4. Len(userSort) = sorter_count
      BY DEF TasksInv, SorterInv
    <3> QED
      BY <3>1, <3>3, <3>4 DEF OutputInv
  <2> QED
    BY <2>1, <2>2 DEF OutputIsConsistent
<1> QED
  BY TasksInvariance, PoolInvariance, OutputKept, <1>1, <1>2, PTL DEF Spec

-----------------------------------------------------------------------------
(***************************************************************************)
(* The hits of the files                                                   *)
(***************************************************************************)
\* The loop of HitsOf as a fold.
Hitting == INSTANCE SequenceLemmas WITH Op <- Calibrate, base <- << >>, Holds <- MadeOf

\* Different records make different hits.
LEMMA DistinctHits ==
  ASSUME NEW s \in Seq(Reader!Pointers), IsInjective(s)
  PROVE  MadeOf(0, s, Hitting!Fold(0, s))
<1>1. MadeOf(0, << >>, << >>)
  BY DEF MadeOf, OneOfEach
<1>2. \A n \in Nat : \A hits : n < Len(s) /\ MadeOf(0, SubSeq(s, 1, n), hits)
          => MadeOf(0, SubSeq(s, 1, n + 1), Calibrate(0, hits, s[n + 1]))
  BY Zenon, OneMoreHit
<1> QED
  BY Zenon, <1>1, <1>2, Hitting!FoldInduction

\* The loop of the model is this fold.
LEMMA HitsAreFolded ==
  \A names : HitsOf(names) = Hitting!Fold(0, Reader!CompleteRecordsOf(names))
BY Zenon DEF HitsOf, Calibrate, FoldLeft, MapThenFoldSet, Max,
   Hitting!Fold, Hitting!FoldLeft, Hitting!MapThenFoldSet, Hitting!Max

\* The complete records of each file of a list.
ListsOf(names) ==
    [n \in DOMAIN names |->
        LET file == Files[names[n]]
            complete == {i \in DOMAIN file.records : Reader!Start(file, i + 1) <= file.size}
        IN  [i \in 1 .. Cardinality(complete) |-> <<names[n], Reader!Start(file, i)>>]]

\* The complete records are those that XIAReaderProofs speaks of.
LEMMA SameComplete ==
  \A names : Reader!CompleteRecordsOf(names) = ReaderProofs!CompleteRecordsOf(names)
<1>1. \A ss : Reader!FlattenSeq(ss) = ReaderProofs!FlattenSeq(ss)
  BY Zenon DEF Reader!FlattenSeq, ReaderProofs!FlattenSeq
<1>2. \A S : Reader!Cardinality(S) = Cardinality(S) /\ ReaderProofs!Cardinality(S) = Cardinality(S)
  BY Zenon DEF Cardinality, Reader!Cardinality, ReaderProofs!Cardinality,
               IsFiniteSet, Reader!IsFiniteSet, ReaderProofs!IsFiniteSet
<1>3. \A names : Reader!CompleteRecordsOf(names) = Reader!FlattenSeq(ListsOf(names))
  BY Zenon, <1>2 DEF Reader!CompleteRecordsOf, ListsOf
<1>4. \A names : ReaderProofs!CompleteRecordsOf(names) = ReaderProofs!FlattenSeq(ListsOf(names))
  BY Zenon, <1>2, SameStart DEF ReaderProofs!CompleteRecordsOf, ListsOf
<1> QED
  BY Zenon, <1>1, <1>3, <1>4

-----------------------------------------------------------------------------
(***************************************************************************)
(* What the calibrator has made                                            *)
(***************************************************************************)
\* The calibrator has made the hits of the records it has counted.
CalibratedInv ==
    calibrator_output \o calibrator_pending
        = Hitting!Fold(0, SubSeq(reader_output, 1, calibrator_count))

\* The calibrator pushes a hit it owes, pops a record, or does neither.
LEMMA CalibratorMoves ==
  ASSUME CalibratorStep
  PROVE  /\ UNCHANGED <<readerVars, bufferVars, splitterVars, triggerVars, sorterVars, mainVars>>
         /\ UNCHANGED calibrator_done
         /\ \/ UNCHANGED <<calibrator_count, calibrator_pending, calibrator_output>>
            \/ /\ calibrator_pc # "exited" /\ calibrator_pending # << >>
               /\ Len(calibrator_output) - buffer_count < Capacity
               /\ calibrator_output' = Append(calibrator_output, Head(calibrator_pending))
               /\ calibrator_pending' = Tail(calibrator_pending)
               /\ UNCHANGED calibrator_count
            \/ /\ calibrator_pc = "pop" /\ calibrator_count < Len(reader_output)
               /\ calibrator_count' = calibrator_count + 1
               /\ calibrator_pending' = (IF Calibrator!keep(reader_output[calibrator_count + 1])
                                           THEN <<Calibrator!Calibrated(reader_output[calibrator_count + 1])>>
                                           ELSE << >>)
               /\ UNCHANGED calibrator_output
<1>1. /\ Calibrator!Run
      /\ UNCHANGED <<readerVars, bufferVars, splitterVars, triggerVars, sorterVars, mainVars>>
  BY DEF CalibratorStep
<1>2. CASE Calibrator!Push
  BY <1>1, <1>2 DEF Calibrator!Push
<1>3. CASE Calibrator!Pop
  BY <1>1, <1>3 DEF Calibrator!Pop, Calibrator!PopNext, Calibrator!ItemWaiting, Calibrator!NextItem
<1>4. CASE UNCHANGED <<calibrator_done, calibrator_count, calibrator_pending, calibrator_output>>
  BY <1>1, <1>4
<1> QED
  BY <1>1, <1>2, <1>3, <1>4 DEF Calibrator!Run, Calibrator!Test, Calibrator!TimedOut,
     Calibrator!Handled, Calibrator!Throw, Calibrator!Exit

\* The calibrator's step keeps what it has made.
LEMMA CalibratedKept ==
  ASSUME TasksInv, CalibratedInv, CalibratorStep
  PROVE  CalibratedInv'
<1>1. /\ reader_output \in Seq(Reader!Pointers) /\ calibrator_count \in Nat
      /\ calibrator_output \in Seq(Hit) /\ calibrator_pending \in Seq(Hit)
      /\ calibrator_pc \notin {"push", "drain"} => calibrator_pending = << >>
  BY DEF TasksInv, ReaderInv, CalibratorInv, TaskState
<1>2. UNCHANGED reader_output
  BY CalibratorMoves DEF readerVars
<1>3. CASE UNCHANGED <<calibrator_count, calibrator_pending, calibrator_output>>
  BY <1>2, <1>3 DEF CalibratedInv
<1>4. CASE /\ calibrator_pending # << >>
           /\ calibrator_output' = Append(calibrator_output, Head(calibrator_pending))
           /\ calibrator_pending' = Tail(calibrator_pending)
           /\ UNCHANGED calibrator_count
  <2>1. Append(calibrator_output, Head(calibrator_pending)) \o Tail(calibrator_pending)
            = calibrator_output \o calibrator_pending
    BY Zenon, <1>1, <1>4, HeadMoves
  <2> QED
    BY <1>2, <1>4, <2>1 DEF CalibratedInv
<1>5. CASE /\ calibrator_pc = "pop" /\ calibrator_count < Len(reader_output)
           /\ calibrator_count' = calibrator_count + 1
           /\ calibrator_pending' = (IF Calibrator!keep(reader_output[calibrator_count + 1])
                                       THEN <<Calibrator!Calibrated(reader_output[calibrator_count + 1])>>
                                       ELSE << >>)
           /\ UNCHANGED calibrator_output
  <2>1. PICK first \in Seq(Reader!Pointers), p \in Reader!Pointers :
            /\ first = SubSeq(reader_output, 1, calibrator_count)
            /\ p = reader_output[calibrator_count + 1]
            /\ SubSeq(reader_output, 1, calibrator_count + 1) = Append(first, p)
    <3>1. /\ SubSeq(reader_output, 1, calibrator_count) \in Seq(Reader!Pointers)
          /\ reader_output[calibrator_count + 1] \in Reader!Pointers
          /\ SubSeq(reader_output, 1, calibrator_count + 1)
                = Append(SubSeq(reader_output, 1, calibrator_count), reader_output[calibrator_count + 1])
      BY <1>1, <1>5, PrefixAppend
    <3> QED
      BY Zenon, <3>1
  <2>2. calibrator_output = Hitting!Fold(0, first)
    <3>1. calibrator_pending = << >> /\ calibrator_output \o << >> = calibrator_output
      BY <1>1, <1>5, ConcatEmptySeq
    <3> QED
      BY <2>1, <3>1 DEF CalibratedInv
  <2>3. Hitting!Fold(0, Append(first, p)) = Calibrate(0, Hitting!Fold(0, first), p)
    BY Zenon, Hitting!FoldAppend
  <2>4. calibrator_output \o calibrator_pending' = Calibrate(0, calibrator_output, p)
    <3>1. CASE Table!keep(p)
      <4>1. PICK h \in Hit : h = Table!Calibrated(p)
        BY DEF Hit
      <4>2. calibrator_pending' = <<h>>
        BY <1>5, <2>1, <3>1, <4>1, SameHits
      <4>3. calibrator_output \o <<h>> = Append(calibrator_output, h)
        BY <1>1
      <4> QED
        BY <3>1, <4>1, <4>2, <4>3 DEF Calibrate
    <3>2. CASE ~Table!keep(p)
      <4>1. calibrator_pending' = << >> /\ calibrator_output \o << >> = calibrator_output
        BY <1>1, <1>5, <2>1, <3>2, SameHits, ConcatEmptySeq
      <4> QED
        BY <3>2, <4>1 DEF Calibrate
    <3> QED
      BY <3>1, <3>2
  <2>5. SubSeq(reader_output, 1, calibrator_count)' = Append(first, p)
    BY Zenon, <1>2, <1>5, <2>1
  <2> QED
    BY Zenon, <1>5, <2>2, <2>3, <2>4, <2>5 DEF CalibratedInv
<1> QED
  BY <1>3, <1>4, <1>5, CalibratorMoves

\* The reader pushes behind what the calibrator has counted.
LEMMA CalibratedStays ==
  ASSUME TasksInv, CalibratedInv, ReaderStep
  PROVE  CalibratedInv'
<1>1. UNCHANGED <<calibrator_count, calibrator_pending, calibrator_output>>
  BY DEF ReaderStep, calibratorVars
<1>2. /\ reader_output \in Seq(Reader!Pointers) /\ reader_pending \in Seq(Reader!Pointers)
      /\ calibrator_count \in 0 .. Len(reader_output)
  BY LenProperties DEF TasksInv, ReaderInv, CalibratorInv, TaskState
<1>3. \/ UNCHANGED reader_output
      \/ reader_pending # << >> /\ reader_output' = Append(reader_output, Head(reader_pending))
  BY DEF ReaderStep, Reader!Run, Reader!Read, Reader!NextFile, Reader!AllFilesRead,
     Reader!ExitDone, Reader!Push, Reader!Handled
<1>4. SubSeq(reader_output, 1, calibrator_count)' = SubSeq(reader_output, 1, calibrator_count)
  <2>1. CASE reader_pending # << >> /\ reader_output' = Append(reader_output, Head(reader_pending))
    <3>1. PICK p \in Reader!Pointers : p = Head(reader_pending)
      BY <1>2, <2>1
    <3>2. SubSeq(Append(reader_output, p), 1, calibrator_count) = SubSeq(reader_output, 1, calibrator_count)
      BY <1>2, PrefixStays
    <3> QED
      BY Zenon, <1>1, <2>1, <3>1, <3>2
  <2> QED
    BY Zenon, <1>1, <1>3, <2>1
<1> QED
  BY Zenon, <1>1, <1>4 DEF CalibratedInv

\* What the calibrator has made, in every reachable state.
LEMMA CalibratedInvariance == Spec => []CalibratedInv
<1>1. Init => CalibratedInv
  <2> SUFFICES ASSUME Init PROVE CalibratedInv
    OBVIOUS
  <2>1. /\ reader_output = << >> /\ calibrator_count = 0
        /\ calibrator_output = << >> /\ calibrator_pending = << >>
    BY DEF Init, Reader!Init, Reader!OutputInit, Calibrator!Init, Calibrator!TaskInit,
       Calibrator!OutputInit
  <2>2. SubSeq(<< >>, 1, 0) = << >> /\ << >> \o << >> = << >>
    OBVIOUS
  <2>3. Hitting!Fold(0, << >>) = << >>
    BY Zenon, Hitting!FoldEmpty
  <2> QED
    BY Zenon, <2>1, <2>2, <2>3 DEF CalibratedInv
<1>2. ASSUME TasksInv, CalibratedInv, [Next]_vars PROVE CalibratedInv'
  <2>1. ASSUME UNCHANGED <<reader_output, calibrator_count, calibrator_pending, calibrator_output>>
        PROVE  CalibratedInv'
    BY <1>2, <2>1 DEF CalibratedInv
  <2>2. CASE BufferStep \/ SplitterStep \/ TriggerStep \/ SorterStep
    BY <2>1, <2>2 DEF BufferStep, SplitterStep, TriggerStep, SorterStep, readerVars, calibratorVars
  <2>3. CASE MainStep
    BY <2>1, <2>3 DEF MainStep, AddTask, JoinSource, FinishNext, JoinNext, WriteHistograms,
       WriteMetadata, tasksUnchanged, readerVars, calibratorVars
  <2>4. CASE UNCHANGED vars
    BY <2>1, <2>4 DEF vars, readerVars, calibratorVars
  <2> QED
    BY <1>2, <2>2, <2>3, <2>4, CalibratedKept, CalibratedStays DEF Next, Terminated
<1> QED
  BY <1>1, <1>2, TasksInvariance, PTL DEF Spec

\* The calibrator has made the first of the hits of the files, no two of them of the
\* same record.
LEMMA HitsHaveCome ==
  ASSUME ReaderProofs!ScanInv, TasksInv, CalibratedInv
  PROVE  /\ HitsOf(mapped_files) \in Seq(Hit) /\ OneOfEach(HitsOf(mapped_files))
         /\ Begins(Hit, calibrator_output \o calibrator_pending, HitsOf(mapped_files))
<1>1. PICK complete \in Seq(Reader!Pointers) :
          complete = ReaderProofs!CompleteRecords /\ IsInjective(complete)
  <2>1. /\ mapped_files \in ReaderProofs!Names /\ ReaderProofs!IsInjective(mapped_files)
    <3>1. mapped_files \in ReaderProofs!Names
      BY DEF ReaderProofs!ScanInv
    <3>2. IsInjective(mapped_files)
      BY InputsAssumption DEF TasksInv, ReaderInv
    <3> QED
      BY Zenon, <3>1, <3>2 DEF ReaderProofs!IsInjective, IsInjective
  <2>2. /\ ReaderProofs!CompleteRecordsOf(mapped_files) \in Seq(ReaderProofs!Pointers)
        /\ ReaderProofs!IsInjective(ReaderProofs!CompleteRecordsOf(mapped_files))
    BY Zenon, <2>1, ReaderProofs!CompleteAreDistinct, SameFilesOK, QueueAssumption
       DEF ReaderProofs!FilesAssumption, ReaderProofs!CapacityAssumption
  <2>3. \A s : ReaderProofs!IsInjective(s) => IsInjective(s)
    BY Zenon DEF ReaderProofs!IsInjective, IsInjective
  <2> QED
    BY Zenon, <2>2, <2>3, SamePointers DEF ReaderProofs!CompleteRecords
<1>2. HitsOf(mapped_files) = Hitting!Fold(0, complete)
  BY Zenon, <1>1, HitsAreFolded, SameComplete DEF ReaderProofs!CompleteRecords
<1>3. MadeOf(0, complete, Hitting!Fold(0, complete))
  BY Zenon, <1>1, DistinctHits
<1>4. /\ calibrator_count \in 0 .. Len(complete)
      /\ SubSeq(reader_output, 1, calibrator_count) = SubSeq(complete, 1, calibrator_count)
  <2>1. calibrator_count \in 0 .. Len(reader_output)
    BY LenProperties DEF TasksInv, ReaderInv, CalibratorInv, TaskState
  <2>2. \A n \in 0 .. Len(reader_output) :
            /\ n \in 0 .. Len(ReaderProofs!CompleteRecords)
            /\ SubSeq(reader_output, 1, n) = SubSeq(ReaderProofs!CompleteRecords, 1, n)
    BY Zenon, ReaderProofs!PushedAreFirst, SameFilesOK, QueueAssumption
       DEF ReaderProofs!FilesAssumption, ReaderProofs!CapacityAssumption
  <2> QED
    BY Zenon, <1>1, <2>1, <2>2
<1>5. Hitting!Begins(Hit, Hitting!Fold(0, SubSeq(complete, 1, calibrator_count)),
                     Hitting!Fold(0, complete))
  <2>1. << >> \in Seq(Hit)
    OBVIOUS
  <2>2. \A S, s, t : Begins(S, s, t) => Hitting!Begins(S, s, t)
    BY Zenon DEF Begins, Hitting!Begins
  <2>3. \A hits \in Seq(Hit), p \in Reader!Pointers :
            /\ Calibrate(0, hits, p) \in Seq(Hit)
            /\ Hitting!Begins(Hit, hits, Calibrate(0, hits, p))
    BY Zenon, <2>2, OneHit
  <2> QED
    BY Zenon, <1>4, <2>1, <2>3, Hitting!FoldGrows
<1>6. \A S, s, t : Hitting!Begins(S, s, t) => Begins(S, s, t)
  BY Zenon DEF Begins, Hitting!Begins
<1> QED
  BY Zenon, <1>2, <1>3, <1>4, <1>5, <1>6 DEF CalibratedInv, MadeOf

\* So the hit the calibrator owes is of no record of which it has pushed one.
LEMMA OwesAnother ==
  ASSUME ReaderProofs!ScanInv, TasksInv, CalibratedInv, calibrator_pending # << >>
  PROVE  /\ Len(calibrator_output) < Records /\ Head(calibrator_pending) \in Hit
         /\ \A i \in DOMAIN calibrator_output :
                calibrator_output[i].from # Head(calibrator_pending).from
<1>1. /\ calibrator_output \in Seq(Hit) /\ calibrator_pending \in Seq(Hit)
      /\ calibrator_count \in Nat /\ calibrator_count <= Len(reader_output)
      /\ Len(calibrator_output) + Len(calibrator_pending) <= calibrator_count
  BY DEF TasksInv, CalibratorInv, TaskState
<1>2. PICK m \in Nat, n \in Nat : /\ m = Len(calibrator_output) /\ n = Len(calibrator_pending)
                                  /\ n > 0 /\ DOMAIN calibrator_output = 1 .. m
  BY <1>1, LenProperties
<1>3. m < Records
  BY <1>1, <1>2, CountsBounded, QueueAssumption
<1>4. PICK rest \in Seq(Hit), all \in Seq(Hit) :
          /\ all = HitsOf(mapped_files) /\ OneOfEach(all)
          /\ all = (calibrator_output \o calibrator_pending) \o rest
  BY Zenon, HitsHaveCome DEF Begins
<1>5. PICK made \in Seq(Hit) :
          /\ made = calibrator_output \o calibrator_pending
          /\ Len(made) = m + n
          /\ \A i \in 1 .. m : made[i] = calibrator_output[i]
          /\ made[m + 1] = calibrator_pending[1]
  <2>1. /\ calibrator_output \o calibrator_pending \in Seq(Hit)
        /\ Len(calibrator_output \o calibrator_pending) = m + n
        /\ \A i \in 1 .. m : (calibrator_output \o calibrator_pending)[i] = calibrator_output[i]
        /\ \A i \in 1 .. n : (calibrator_output \o calibrator_pending)[m + i] = calibrator_pending[i]
    BY <1>1, <1>2, ConcatElements
  <2>2. 1 \in 1 .. n
    BY <1>2
  <2> QED
    BY Zenon, <2>1, <2>2
<1>6. /\ \A i \in 1 .. m : i \in DOMAIN all /\ all[i] = calibrator_output[i]
      /\ m + 1 \in DOMAIN all /\ all[m + 1] = calibrator_pending[1]
  <2>1. PICK l \in Nat : l = Len(rest) /\ DOMAIN all = 1 .. (m + n) + l
    <3>1. PICK l \in Nat : l = Len(rest) /\ Len(made \o rest) = Len(made) + Len(rest)
      BY LenProperties, ConcatElements
    <3>2. all = made \o rest
      BY <1>4, <1>5
    <3>3. Len(all) = (m + n) + l
      BY <1>5, <3>1, <3>2
    <3> QED
      BY <1>4, <3>1, <3>3, LenProperties
  <2>2. \A i \in 1 .. m + n : i \in DOMAIN all /\ all[i] = made[i]
    <3>1. \A i \in 1 .. Len(made) : (made \o rest)[i] = made[i]
      BY Zenon, ConcatElements
    <3>2. \A i \in 1 .. m + n : i \in 1 .. (m + n) + l
      OBVIOUS
    <3> QED
      BY Zenon, <1>4, <1>5, <2>1, <3>1, <3>2
  <2>3. m + 1 \in 1 .. m + n /\ \A i \in 1 .. m : i \in 1 .. m + n
    BY <1>2
  <2> QED
    BY Zenon, <1>5, <2>2, <2>3
<1>7. calibrator_pending[1] = Head(calibrator_pending) /\ Head(calibrator_pending) \in Hit
  BY <1>1
<1>8. \A i \in 1 .. m : i # m + 1
  OBVIOUS
<1>9. \A i \in 1 .. m : calibrator_output[i].from # Head(calibrator_pending).from
  <2>1. \A i, j \in DOMAIN all : all[i].from = all[j].from => i = j
    BY Zenon, <1>4 DEF OneOfEach
  <2>2. PICK h \in Hit : h = Head(calibrator_pending) /\ all[m + 1] = h
    BY Zenon, <1>6, <1>7
  <2>3. ASSUME NEW i \in 1 .. m, calibrator_output[i].from = h.from PROVE FALSE
    <3>1. i \in DOMAIN all /\ m + 1 \in DOMAIN all /\ all[i] = calibrator_output[i]
      BY Zenon, <1>6
    <3>2. all[i].from = all[m + 1].from
      BY Zenon, <2>2, <2>3, <3>1
    <3>3. i = m + 1
      BY Zenon, <2>1, <3>1, <3>2
    <3> QED
      BY Zenon, <1>8, <3>3
  <2> QED
    BY Zenon, <2>2, <2>3
<1> QED
  BY Zenon, <1>2, <1>3, <1>7, <1>9

\* The calibrator's step is one, a hit of another record arriving or nothing.
LEMMA CalibratorForGrouping ==
  ASSUME ReaderProofs!ScanInv, TasksInv, CalibratedInv, PoolProofs!IInv, CalibratorStep
  PROVE  GroupingStep
<1>1. UNCHANGED <<bufferVars, splitterVars, trigger_count>>
  BY CalibratorMoves DEF triggerVars
<1>2. CASE UNCHANGED calibrator_output
  BY <1>1, <1>2 DEF GroupingStep, bufferVars, splitterVars, bufferSide, splitterSide
<1>3. CASE /\ calibrator_pc # "exited" /\ calibrator_pending # << >>
           /\ Len(calibrator_output) - buffer_count < Capacity
           /\ calibrator_output' = Append(calibrator_output, Head(calibrator_pending))
  <2>1. PICK h \in Hit :
            /\ h = Head(calibrator_pending) /\ Len(calibrator_output) < Records
            /\ \A i \in DOMAIN calibrator_output : calibrator_output[i].from # h.from
    BY <1>3, OwesAnother
  <2>2. ~buffer_done
    BY <1>3, ToldInOrder
  <2>3. /\ Len(calibrator_output) - buffer_count < Capacity
        /\ calibrator_output' = Append(calibrator_output, h)
    BY <1>3, <2>1
  <2>4. UNCHANGED <<buffer_pc, buffer_done, buffer_count, buffer_pending, buffer,
                    buffer_output, splitter_count, splitterSide>>
    BY <1>1 DEF bufferVars, splitterVars, splitterSide
  <2> QED
    BY Zenon, <2>1, <2>2, <2>3, <2>4 DEF GroupingStep
<1> QED
  BY <1>2, <1>3, CalibratorMoves

\* So is every step.
LEMMA StepsForGrouping ==
  ASSUME ReaderProofs!ScanInv, TasksInv, CalibratedInv, PoolProofs!IInv, [Next]_vars
  PROVE  GroupingStep
<1>1. CASE ReaderStep \/ SorterStep
  <2>1. UNCHANGED <<calibratorVars, bufferVars, splitterVars, triggerVars>>
    BY <1>1 DEF ReaderStep, SorterStep
  <2> QED
    BY <2>1 DEF GroupingStep, calibratorVars, bufferVars, splitterVars, triggerVars, bufferSide,
       splitterSide
<1>2. CASE BufferStep
  BY <1>2 DEF BufferStep, GroupingStep, splitterVars, triggerVars, splitterSide
<1>3. CASE SplitterStep
  BY <1>3 DEF SplitterStep, GroupingStep, calibratorVars, bufferVars, bufferSide
<1>4. CASE UNCHANGED vars
  BY <1>4 DEF vars, GroupingStep, calibratorVars, bufferVars, splitterVars, triggerVars,
     bufferSide, splitterSide
<1> QED
  BY <1>1, <1>2, <1>3, <1>4, CalibratorForGrouping, TriggerForGrouping, MainForGrouping
     DEF Next, Terminated

\* The hits that came are those the calibrator has pushed.
LEMMA CameIsPopped ==
  ASSUME ReaderProofs!ScanInv, TasksInv, CalibratedInv
  PROVE  /\ Came = SubSeq(calibrator_output, 1, buffer_count)
         /\ buffer_count \in 0 .. Len(HitsOfFiles[mapped_files])
<1>1. /\ calibrator_output \in Seq(Hit) /\ calibrator_pending \in Seq(Hit)
      /\ buffer_count \in 0 .. Len(calibrator_output) /\ mapped_files \in Inputs
  BY LenProperties DEF TasksInv, ReaderInv, CalibratorInv, BufferInv, TaskState
<1>2. HitsOfFiles[mapped_files] = HitsOf(mapped_files)
  BY <1>1 DEF HitsOfFiles
<1>3. PICK rest \in Seq(Hit) :
          HitsOf(mapped_files) = (calibrator_output \o calibrator_pending) \o rest
  BY Zenon, HitsHaveCome DEF Begins
<1>4. PICK more \in Seq(Hit) : HitsOf(mapped_files) = calibrator_output \o more
  <2>1. /\ calibrator_pending \o rest \in Seq(Hit)
        /\ (calibrator_output \o calibrator_pending) \o rest
              = calibrator_output \o (calibrator_pending \o rest)
    BY <1>1, Associative
  <2>2. HitsOf(mapped_files) = calibrator_output \o (calibrator_pending \o rest)
    BY <1>3, <2>1
  <2> QED
    BY Zenon, <2>1, <2>2
<1>5. /\ SubSeq(calibrator_output \o more, 1, buffer_count)
            = SubSeq(calibrator_output, 1, buffer_count)
      /\ buffer_count \in 0 .. Len(calibrator_output \o more)
  BY Zenon, <1>1, BeginningStays
<1> QED
  BY Zenon, <1>2, <1>4, <1>5 DEF Came

-----------------------------------------------------------------------------
(***************************************************************************)
(* The buffer and the splitter, which are those GroupingProofs is about    *)
(***************************************************************************)
GroupingProofs == INSTANCE GroupingProofs WITH
    Hits <- Hit, MaxInput <- Records, Gap <- Gap * Ns,
    pc <- buffer_pc, done <- buffer_done, entries_processed <- buffer_count,
    input <- calibrator_output, pending <- buffer_pending, output <- buffer_output,
    taken <- splitter_count, clusters_pending <- splitter_pending,
    clusters <- splitter_output, clusters_taken <- trigger_count

\* Their steps are the same.
LEMMA SameOrders == \A hits : Buffer!Orders(hits) = GroupingProofs!Orders(hits)
<1>1. \A S : Buffer!Cardinality(S) = GroupingProofs!Cardinality(S)
  BY Zenon DEF Buffer!Cardinality, GroupingProofs!Cardinality
<1>2. \A S : Buffer!SetToSeqs(S) = GroupingProofs!SetToSeqs(S)
  BY Zenon, <1>1 DEF Buffer!SetToSeqs, GroupingProofs!SetToSeqs
<1> QED
  BY Zenon, <1>2 DEF Buffer!Orders, GroupingProofs!Orders, Buffer!InOrder,
     GroupingProofs!InOrder, Buffer!Earlier, GroupingProofs!Earlier

LEMMA SameBuffer == Buffer!Run => GroupingProofs!Run
<1>1. \A S : Buffer!Cardinality(S) = GroupingProofs!Cardinality(S)
  BY Zenon DEF Buffer!Cardinality, GroupingProofs!Cardinality
<1>2. \A hits : Buffer!Tops(hits) = GroupingProofs!Tops(hits)
  BY Zenon DEF Buffer!Tops, GroupingProofs!Tops, Buffer!Earlier, GroupingProofs!Earlier
<1> QED
  BY Zenon, <1>1, <1>2, SameOrders DEF Buffer!Run, GroupingProofs!Run,
     Buffer!TestAndDrain, GroupingProofs!TestAndDrain, Buffer!Test, GroupingProofs!Test,
     Buffer!Pop, GroupingProofs!Pop, Buffer!PopNext, GroupingProofs!PopNext,
     Buffer!ItemWaiting, GroupingProofs!ItemWaiting, Buffer!NextItem, GroupingProofs!NextItem,
     Buffer!TimedOut, GroupingProofs!TimedOut, Buffer!Push, GroupingProofs!Push,
     Buffer!Handled, GroupingProofs!Handled, Buffer!Exit, GroupingProofs!Exit

LEMMA SameSplitter == Splitter!Run => GroupingProofs!Splitter!Run
  BY Zenon DEF Splitter!Run, GroupingProofs!Splitter!Run, Splitter!Test, GroupingProofs!Splitter!Test,
     Splitter!Pop, GroupingProofs!Splitter!Pop, Splitter!PopNext, GroupingProofs!Splitter!PopNext,
     Splitter!ItemWaiting, GroupingProofs!Splitter!ItemWaiting,
     Splitter!NextItem, GroupingProofs!Splitter!NextItem,
     Splitter!Joins, GroupingProofs!Splitter!Joins, Splitter!Last, GroupingProofs!Splitter!Last,
     Splitter!TimedOut, GroupingProofs!Splitter!TimedOut, Splitter!Push, GroupingProofs!Splitter!Push,
     Splitter!Handled, GroupingProofs!Splitter!Handled, Splitter!Exit, GroupingProofs!Splitter!Exit

LEMMA GroupingInits == Init => GroupingProofs!GroupingInit
  BY DEF Init, Buffer!Init, Splitter!Init, Calibrator!Init, Buffer!TaskInit, Splitter!TaskInit,
     Calibrator!TaskInit, Buffer!OutputInit, Splitter!OutputInit, Calibrator!OutputInit,
     Trigger!Init, Trigger!TaskInit,
     GroupingProofs!GroupingInit, GroupingProofs!Init, GroupingProofs!TaskInit,
     GroupingProofs!OutputInit, GroupingProofs!Splitter!Init, GroupingProofs!Splitter!TaskInit,
     GroupingProofs!Splitter!OutputInit

LEMMA GroupingSteps ==
  ASSUME GroupingStep PROVE [GroupingProofs!Next]_(GroupingProofs!vars)
  BY Zenon, SameBuffer, SameSplitter
     DEF GroupingStep, bufferSide, splitterSide, GroupingProofs!vars, GroupingProofs!bufferOnly,
     GroupingProofs!splitterOnly, GroupingProofs!Next, GroupingProofs!BufferStep,
     GroupingProofs!SplitterStep, GroupingProofs!TakeCluster, GroupingProofs!Splitter!Take,
     GroupingProofs!HitArrives, GroupingProofs!Arrive, GroupingProofs!FinishBuffer,
     GroupingProofs!Finish, GroupingProofs!FinishSplitter, GroupingProofs!Splitter!Finish

\* So the clusters are those of an order of the hits that came.
LEMMA ClustersAreOfAnOrder == Spec => []GroupingProofs!ClustersOfAnOrder
<1>1. ReaderProofs!ScanInv /\ TasksInv /\ CalibratedInv /\ PoolProofs!IInv /\ [Next]_vars
          => [GroupingProofs!Next]_(GroupingProofs!vars)
  BY Zenon, StepsForGrouping, GroupingSteps
<1>2. Spec => GroupingProofs!Spec
  BY GroupingInits, ScanInvariance, TasksInvariance, CalibratedInvariance, PoolInvariance, <1>1,
     PTL DEF Spec, GroupingProofs!Spec
<1>3. /\ GroupingProofs!CapacityAssumption /\ GroupingProofs!SizeAssumption
      /\ GroupingProofs!GapAssumption /\ GroupingProofs!HitsAssumption
      /\ GroupingProofs!MaxInputAssumption
  BY QueueAssumption, TimesAssumption, HitTime DEF Ns, GroupingProofs!CapacityAssumption,
     GroupingProofs!SizeAssumption, GroupingProofs!GapAssumption, GroupingProofs!HitsAssumption,
     GroupingProofs!MaxInputAssumption
<1>4. GroupingProofs!Spec => []GroupingProofs!ClustersOfAnOrder
  BY <1>3, GroupingProofs!ClustersOfAnOrderCorrect
<1> QED
  BY <1>2, <1>4, PTL

\* When their disorder is within the size of the buffer, so is that of the hits it popped.
LEMMA DisorderIsOvertaking ==
  ASSUME ReaderProofs!ScanInv, TasksInv, CalibratedInv, DisorderWithinSize(Came)
  PROVE  GroupingProofs!WithinSize(buffer_count)
<1>1. calibrator_output \in Seq(Hit) /\ buffer_count \in 0 .. Len(calibrator_output)
  BY LenProperties DEF TasksInv, CalibratorInv, BufferInv, TaskState
<1>2. PICK came \in Seq(Hit) :
          /\ came = Came /\ DOMAIN came = 1 .. buffer_count
          /\ \A i \in 1 .. buffer_count : came[i] = calibrator_output[i]
  <2>1. /\ SubSeq(calibrator_output, 1, buffer_count) \in Seq(Hit)
        /\ Len(SubSeq(calibrator_output, 1, buffer_count)) = buffer_count
        /\ \A i \in 1 .. buffer_count :
               SubSeq(calibrator_output, 1, buffer_count)[i] = calibrator_output[i]
    BY Zenon, <1>1, PrefixProperties
  <2>2. DOMAIN SubSeq(calibrator_output, 1, buffer_count) = 1 .. buffer_count
    BY <2>1, LenProperties
  <2> QED
    BY Zenon, <2>1, <2>2, CameIsPopped
<1>3. ASSUME NEW k \in 1 .. buffer_count PROVE GroupingProofs!Overtaken(k) <= Size
  <2>1. Cardinality({j \in 1 .. k - 1 : came[k].t < came[j].t}) <= Size
    BY Zenon, <1>2 DEF DisorderWithinSize
  <2>2. {j \in 1 .. k - 1 : came[k].t < came[j].t}
          = {j \in 1 .. k - 1 : GroupingProofs!Earlier(calibrator_output[k], calibrator_output[j])}
    <3>1. \A j \in 1 .. k - 1 : j \in 1 .. buffer_count
      BY <1>1
    <3> QED
      BY <1>2, <3>1 DEF GroupingProofs!Earlier
  <2>3. \A S : GroupingProofs!Cardinality(S) = Cardinality(S)
    BY Zenon DEF GroupingProofs!Cardinality, Cardinality
  <2> QED
    BY Zenon, <2>1, <2>2, <2>3 DEF GroupingProofs!Overtaken
<1> QED
  BY Zenon, <1>3 DEF GroupingProofs!WithinSize

\* What the clusters of a sequence of hits are is the same.
LEMMA SameClusters ==
  \A hits : Splitter!ClosedClusters(hits) = GroupingProofs!Splitter!ClosedClusters(hits)
<1>1. \A hits : Splitter!AllClusters(hits) = GroupingProofs!Splitter!AllClusters(hits)
  BY Zenon DEF Splitter!AllClusters, GroupingProofs!Splitter!AllClusters, Splitter!FoldLeft,
     GroupingProofs!Splitter!FoldLeft, Splitter!MapThenFoldSet,
     GroupingProofs!Splitter!MapThenFoldSet, Splitter!Max, GroupingProofs!Splitter!Max,
     Splitter!Last, GroupingProofs!Splitter!Last, Splitter!Front, GroupingProofs!Splitter!Front
<1> QED
  BY Zenon, <1>1 DEF Splitter!ClosedClusters, GroupingProofs!Splitter!ClosedClusters,
     Splitter!Front, GroupingProofs!Splitter!Front

\* The splitter has pushed the first clusters of an order of the hits that came.
LEMMA ClustersHaveCome ==
  ASSUME ReaderProofs!ScanInv, TasksInv, CalibratedInv, GroupingProofs!ClustersOfAnOrder,
         DisorderWithinSize(Came)
  PROVE  \E closed \in ClustersOfFiles[mapped_files][buffer_count], more \in Seq(Seq(Hit)) :
             closed = splitter_output \o more
<1>1. PICK order \in GroupingProofs!Orders(GroupingProofs!ToSet(GroupingProofs!Popped)),
           more \in Seq(Seq(Hit)) :
           GroupingProofs!Splitter!ClosedClusters(order) = splitter_output \o more
  BY Zenon, DisorderIsOvertaking DEF GroupingProofs!ClustersOfAnOrder
<1>2. GroupingProofs!ToSet(GroupingProofs!Popped) = ToSet(Came)
  BY Zenon, CameIsPopped DEF GroupingProofs!Popped, GroupingProofs!ToSet, ToSet
<1>3. order \in Buffer!Orders(ToSet(Came))
  BY Zenon, <1>1, <1>2, SameOrders
<1>4. Splitter!ClosedClusters(order) = splitter_output \o more
  BY Zenon, <1>1, SameClusters
<1>5. ClustersOfFiles[mapped_files][buffer_count]
        = {Splitter!ClosedClusters(o) : o \in Buffer!Orders(ToSet(Came))}
  <2>1. mapped_files \in Inputs /\ buffer_count \in 0 .. Len(HitsOfFiles[mapped_files])
    BY CameIsPopped DEF TasksInv, ReaderInv
  <2> QED
    BY Zenon, <2>1 DEF ClustersOfFiles, Came
<1>6. Splitter!ClosedClusters(order) \in ClustersOfFiles[mapped_files][buffer_count]
  BY Zenon, <1>3, <1>5
<1> QED
  BY Zenon, <1>1, <1>4, <1>6

-----------------------------------------------------------------------------
(***************************************************************************)
(* The trigger and the sorter, which are those AnalysisProofs is about     *)
(***************************************************************************)
AnalysisProofs == INSTANCE AnalysisProofs WITH
    Inputs <- Clusters, MaxInput <- Records,
    CoincidenceTime <- CoincidenceTime * Ns, DeadTime <- DeadTime * Ns,
    pc <- trigger_pc, done <- trigger_done, entries_processed <- trigger_count,
    input <- splitter_output, pending <- trigger_pending, output <- trigger_output,
    taken <- sorter_count

\* They make the same events of a cluster.
LEMMA SameEvents == \A cluster : Trigger!Events(cluster) = AnalysisProofs!Events(cluster)
<1>1. \A cluster : Trigger!GetTriggers(cluster) = AnalysisProofs!GetTriggers(cluster)
  BY Zenon DEF Trigger!GetTriggers, Trigger!FoldLeftDomain, Trigger!FoldLeft,
     Trigger!MapThenFoldSet, Trigger!Max, AnalysisProofs!GetTriggers,
     AnalysisProofs!FoldLeftDomain, AnalysisProofs!FoldLeft, AnalysisProofs!MapThenFoldSet,
     AnalysisProofs!Max
<1>2. \A cluster : AnalysisProofs!GetTriggersExclusive(cluster)
                       = Exclusive!Fold(cluster, AnalysisProofs!GetTriggers(cluster))
  BY Zenon DEF AnalysisProofs!GetTriggersExclusive, AnalysisProofs!FoldLeft,
     AnalysisProofs!MapThenFoldSet, AnalysisProofs!Max, AnalysisProofs!Last,
     Last, Exclusive!Fold, Exclusive!FoldLeft, Exclusive!MapThenFoldSet, Exclusive!Max
<1>3. \A cluster : AnalysisProofs!ChosenTriggers(cluster)
                       = IF sort_type = "time"
                           THEN Zero!Fold(cluster, AnalysisProofs!GetTriggers(cluster))
                           ELSE AnalysisProofs!GetTriggersExclusive(cluster)
  BY Zenon DEF AnalysisProofs!ChosenTriggers, AnalysisProofs!FoldLeft,
     AnalysisProofs!MapThenFoldSet, AnalysisProofs!Max, Zero!Fold, Zero!FoldLeft,
     Zero!MapThenFoldSet, Zero!Max
<1>4. \A cluster, trig : Trigger!Window(cluster, trig) = AnalysisProofs!Window(cluster, trig)
  BY Zenon DEF Trigger!Window, Trigger!Near, Trigger!Min, Trigger!Max, AnalysisProofs!Window,
     AnalysisProofs!Near, AnalysisProofs!Min, AnalysisProofs!Max
<1> QED
  BY Zenon, <1>1, <1>2, <1>3, <1>4, ExclusiveIsFold, ChosenIsFold DEF Trigger!Events, Trigger!GapEvents, AnalysisProofs!Events,
     AnalysisProofs!GapEvents

\* Their steps are the same.
LEMMA SameTrigger == Trigger!Run => AnalysisProofs!Run
  BY Zenon, SameEvents DEF Trigger!Run, AnalysisProofs!Run, Trigger!Test, AnalysisProofs!Test,
     Trigger!Pop, AnalysisProofs!Pop, Trigger!PopNext, AnalysisProofs!PopNext,
     Trigger!ItemWaiting, AnalysisProofs!ItemWaiting, Trigger!NextItem, AnalysisProofs!NextItem,
     Trigger!TimedOut, AnalysisProofs!TimedOut, Trigger!Push, AnalysisProofs!Push,
     Trigger!Handled, AnalysisProofs!Handled, Trigger!Exit, AnalysisProofs!Exit,
     Trigger!options, AnalysisProofs!options

LEMMA SameSorter == Sorter!Run => AnalysisProofs!Sorter!Run
<1>1. \A event : Sorter!AddEntry(event) <=> AnalysisProofs!Sorter!AddEntry(event)
  BY Zenon DEF Sorter!AddEntry, AnalysisProofs!Sorter!AddEntry, Sorter!HasTrigger,
     AnalysisProofs!Sorter!HasTrigger, Sorter!GetTrigger, AnalysisProofs!Sorter!GetTrigger,
     Sorter!Qints, AnalysisProofs!Sorter!Qints
<1> QED
  BY Zenon, <1>1 DEF Sorter!Run, AnalysisProofs!Sorter!Run, Sorter!Pop, AnalysisProofs!Sorter!Pop,
     Sorter!PopNext, AnalysisProofs!Sorter!PopNext, Sorter!ItemWaiting,
     AnalysisProofs!Sorter!ItemWaiting, Sorter!NextItem, AnalysisProofs!Sorter!NextItem,
     Sorter!Fill, AnalysisProofs!Sorter!Fill, Sorter!InHand, AnalysisProofs!Sorter!InHand,
     Sorter!Skipped, AnalysisProofs!Sorter!Skipped, Sorter!TreeFill,
     AnalysisProofs!Sorter!TreeFill, Sorter!Test, AnalysisProofs!Sorter!Test, Sorter!TimedOut,
     AnalysisProofs!Sorter!TimedOut, Sorter!ExitClosed, AnalysisProofs!Sorter!ExitClosed,
     Sorter!sorterVars, AnalysisProofs!Sorter!sorterVars, Sorter!histograms,
     AnalysisProofs!Sorter!histograms

LEMMA AnalysisInits == Init => AnalysisProofs!AnalysisInit
  BY DEF Init, Splitter!Init, Trigger!Init, Sorter!Init, Splitter!TaskInit, Trigger!TaskInit,
     Sorter!TaskInit, Splitter!OutputInit, Trigger!OutputInit,
     AnalysisProofs!AnalysisInit, AnalysisProofs!Init, AnalysisProofs!TaskInit,
     AnalysisProofs!OutputInit, AnalysisProofs!Sorter!Init, AnalysisProofs!Sorter!TaskInit

LEMMA AnalysisSteps ==
  ASSUME AnalysisStep PROVE [AnalysisProofs!Next]_(AnalysisProofs!vars)
  BY Zenon, SameTrigger, SameSorter
     DEF AnalysisStep, triggerSide, sorterSide, AnalysisProofs!vars, AnalysisProofs!triggerOnly,
     AnalysisProofs!sorterOnly, AnalysisProofs!options, AnalysisProofs!Next,
     AnalysisProofs!TriggerStep, AnalysisProofs!SorterStep, AnalysisProofs!ClusterArrives,
     AnalysisProofs!Arrive, AnalysisProofs!FinishTrigger, AnalysisProofs!Finish,
     AnalysisProofs!FinishSorter, AnalysisProofs!Sorter!Finish

\* The hits of the clusters are the hits.
LEMMA SameHitsOfClusters == AnalysisProofs!Hit = Hit
  BY Zenon, HitsOfClusters DEF ToSet, AnalysisProofs!Hit, AnalysisProofs!ToSet

\* What is assumed there holds of the program.
LEMMA AnalysisAssumptions ==
    /\ AnalysisProofs!CapacityAssumption /\ AnalysisProofs!TimesAssumption
    /\ AnalysisProofs!SortTypesAssumption /\ AnalysisProofs!WithTreeAssumption
    /\ AnalysisProofs!MaxInputAssumption
    /\ AnalysisProofs!ClustersAssumption /\ AnalysisProofs!HitsAssumption
  BY QueueAssumption, TimesAssumption, OptionsAssumption, SameHitsOfClusters, HitTime
     DEF Ns, Clusters, AnalysisProofs!CapacityAssumption, AnalysisProofs!TimesAssumption,
     AnalysisProofs!SortTypesAssumption, AnalysisProofs!WithTreeAssumption,
     AnalysisProofs!MaxInputAssumption, AnalysisProofs!ClustersAssumption,
     AnalysisProofs!HitsAssumption

\* So the plugin has been given the first events of the clusters that came.
LEMMA EventsAreGivenInOrder == Spec => []AnalysisProofs!GivenInOrder
<1>1. TasksInv /\ PoolProofs!IInv /\ [Next]_vars
          => [AnalysisProofs!Next]_(AnalysisProofs!vars)
  BY Zenon, StepsForAnalysis, AnalysisSteps
<1>2. AnalysisProofs!Spec => []AnalysisProofs!GivenInOrder
  BY Zenon, AnalysisAssumptions, AnalysisProofs!GivenInOrderCorrect
<1> QED
  BY AnalysisInits, TasksInvariance, PoolInvariance, <1>1, <1>2, PTL
     DEF Spec, AnalysisProofs!Spec

\* The events of sequences of clusters, one behind the other.
LEMMA EventsOfBoth ==
  ASSUME NEW cs \in Seq(Seq(Hit)), NEW ds \in Seq(Seq(Hit))
  PROVE  /\ EventsOf(cs \o ds)
              = AnalysisProofs!EventsOfAll(cs) \o AnalysisProofs!EventsOfAll(ds)
         /\ AnalysisProofs!EventsOfAll(ds) \in Seq(AnalysisProofs!Event)
<1>1. EventsOf(cs \o ds) = AnalysisProofs!EventsOfAll(cs \o ds)
  <2>1. \A es : [n \in DOMAIN es |-> Trigger!Events(es[n])] = AnalysisProofs!EventLists(es)
    BY SameEvents DEF AnalysisProofs!EventLists
  <2>2. \A lists : FlattenSeq(lists) = AnalysisProofs!FlattenSeq(lists)
    BY Zenon DEF FlattenSeq, AnalysisProofs!FlattenSeq
  <2> QED
    BY Zenon, <2>1, <2>2 DEF EventsOf, AnalysisProofs!EventsOfAll
<1> QED
  BY Zenon, <1>1, SameHitsOfClusters, AnalysisAssumptions, AnalysisProofs!EventsConcat

\* When the disorder of the hits that came is within the size of the buffer, the events
\* that the plugin has been given are the first ones of those that these hits hold in
\* order of time, each of them whole: what the threads, the reordering buffer and a
\* shutdown that leaves items behind in the queues may do to them (Pipeline.tla, RunSort).
THEOREM AnalysedEventsCorrect == Spec => []AnalysedEventsAreAPrefix
<1>1. ASSUME ReaderProofs!ScanInv, TasksInv, CalibratedInv, GroupingProofs!ClustersOfAnOrder,
             AnalysisProofs!GivenInOrder, DisorderWithinSize(Came)
      PROVE  \E clusters \in ClustersOfFiles[mapped_files][buffer_count] :
                 IsPrefix(userSort, EventsOf(clusters))
  <2>1. PICK closed \in ClustersOfFiles[mapped_files][buffer_count], more \in Seq(Seq(Hit)) :
                 closed = splitter_output \o more
    BY Zenon, <1>1, ClustersHaveCome
  <2>2. splitter_output \in Seq(Seq(Hit))
    BY <1>1 DEF TasksInv, SplitterInv, TaskState, Cluster
  <2>3. userSort \in Seq(AnalysisProofs!Event)
    <3>1. EventOf(sort_type) \subseteq AnalysisProofs!Event
      BY SameHitsOfClusters DEF EventOf, AnalysisProofs!Event
    <3> QED
      BY <1>1, <3>1 DEF TasksInv, SorterInv
  <2>4. PICK rest \in Seq(AnalysisProofs!Event) :
                 AnalysisProofs!EventsOfAll(splitter_output) = userSort \o rest
    BY Zenon, <1>1 DEF AnalysisProofs!GivenInOrder
  <2>5. PICK waiting \in Seq(AnalysisProofs!Event) :
                 EventsOf(closed) = AnalysisProofs!EventsOfAll(splitter_output) \o waiting
    BY Zenon, <2>1, <2>2, EventsOfBoth
  <2>6. IsPrefix(userSort, AnalysisProofs!EventsOfAll(splitter_output) \o waiting)
    BY Zenon, <2>3, <2>4, BeginningIsPrefix
  <2> QED
    BY Zenon, <2>1, <2>5, <2>6
<1>2. ReaderProofs!ScanInv /\ TasksInv /\ CalibratedInv /\ GroupingProofs!ClustersOfAnOrder
          /\ AnalysisProofs!GivenInOrder => AnalysedEventsAreAPrefix
  BY Zenon, <1>1 DEF AnalysedEventsAreAPrefix
<1> QED
  BY ScanInvariance, TasksInvariance, CalibratedInvariance, ClustersAreOfAnOrder,
     EventsAreGivenInOrder, <1>2, PTL
=============================================================================
