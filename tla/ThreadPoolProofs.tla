-------------------------- MODULE ThreadPoolProofs --------------------------
(***************************************************************************)
(* Proofs about ThreadPool for every number of tasks, capacity and bound:  *)
(* every step of the tasks and of main preserves the inductive invariant   *)
(* IInv, one lemma per action, and the order in which Wait() ends the      *)
(* tasks follows from it.                                                  *)
(***************************************************************************)
EXTENDS ThreadPool, TLAPS

\* Before any thread has been started nothing has finished.
LEMMA InitIInv == Init => IInv
<1> SUFFICES ASSUME Init PROVE IInv
  OBVIOUS
<1> USE DEF Init, Tasks, Queues
<1>1. TypeOK
  <2>1. pc \in [Tasks -> Labels] /\ done \in [Tasks -> BOOLEAN]
    BY DEF Labels
  <2>2. owed \in [Tasks -> Nat] /\ owed[N] = 0 /\ entries_processed \in [Tasks -> Nat]
    BY NAssumption
  <2>3. queue \in [Queues -> 0 .. Capacity] /\ pushed \in [Queues -> Nat]
    BY CapacityAssumption
  <2>4. next \in Tasks /\ remaining \in 0 .. Records
    BY NAssumption, BoundsAssumption
  <2> QED
    BY <2>1, <2>2, <2>3, <2>4 DEF TypeOK
<1>2. Joined /\ NotToldEarly /\ LoopEndsWhenTold /\ SourceReadsEverything
  BY NAssumption DEF Joined, NotToldEarly, LoopEndsWhenTold, SourceReadsEverything
<1>3. CountersAgree
  BY NAssumption DEF CountersAgree
<1> QED
  BY <1>1, <1>2, <1>3 DEF IInv

\* What main has joined stays joined while no thread comes back.
LEMMA JoinedStays ==
  ASSUME Joined, UNCHANGED <<main, next>>,
         \A j \in Tasks : /\ pc[j] = "exited" => pc'[j] = "exited"
                          /\ pc[j] = "new" => pc'[j] = "new"
  PROVE  Joined'
  BY NAssumption DEF Joined, Tasks

\* No task is told to finish by a step of a task.
LEMMA NotToldEarlyStays ==
  ASSUME NotToldEarly, UNCHANGED <<driver, done, main, next>>,
         \A j \in Tasks : pc[j] = "exited" => pc'[j] = "exited"
  PROVE  NotToldEarly'
  BY NAssumption DEF NotToldEarly, Tasks

\* The source reads a record.
LEMMA ReadStep == ASSUME IInv, Read PROVE IInv'
<1> USE DEF IInv, Read, Goto, taskVars, mainVars, Tasks, Queues
<1>1. TypeOK'
  <2>1. pc' \in [Tasks -> Labels]
    BY DEF TypeOK, Labels
  <2>2. owed' \in [Tasks -> Nat] /\ owed'[N] = 0
    <3>1. PICK n \in {0, 1} : owed' = [owed EXCEPT ![1] = n]
      OBVIOUS
    <3>2. n \in Nat /\ N # 1 /\ N \in Tasks
      BY NAssumption
    <3> QED
      BY <3>1, <3>2 DEF TypeOK
  <2>3. entries_processed' \in [Tasks -> Nat]
    <3>1. 1 \in Tasks
      BY NAssumption
    <3>2. entries_processed[1] + 1 \in Nat
      BY <3>1 DEF TypeOK
    <3> QED
      BY <3>2 DEF TypeOK
  <2>4. remaining' \in 0 .. Records
    BY BoundsAssumption DEF TypeOK
  <2> QED
    BY <2>1, <2>2, <2>3, <2>4 DEF TypeOK
<1>2. Joined'
  <2>1. \A j \in Tasks : /\ pc[j] = "exited" => pc'[j] = "exited"
                         /\ pc[j] = "new" => pc'[j] = "new"
    BY NAssumption DEF TypeOK
  <2> QED
    BY <2>1, JoinedStays
<1>3. NotToldEarly'
  <2>1. \A j \in Tasks : pc[j] = "exited" => pc'[j] = "exited"
    BY NAssumption DEF TypeOK
  <2> QED
    BY <2>1, NotToldEarlyStays
<1>4. LoopEndsWhenTold'
  BY NAssumption DEF LoopEndsWhenTold, TypeOK
<1>5. SourceReadsEverything'
  BY NAssumption DEF SourceReadsEverything, TypeOK, NotToldEarly
<1>6. CountersAgree'
  <2> SUFFICES ASSUME NEW q \in Queues
               PROVE  pushed[q] = entries_processed'[q + 1] + queue[q]
    BY DEF CountersAgree
  <2>1. q + 1 # 1 /\ q + 1 \in Tasks
    BY NAssumption
  <2>2. entries_processed'[q + 1] = entries_processed[q + 1]
    BY <2>1 DEF TypeOK
  <2> QED
    BY <2>2 DEF CountersAgree
<1> QED
  BY <1>1, <1>2, <1>3, <1>4, <1>5, <1>6

\* The source leaves its loop at the end of its files.
LEMMA SourceEndsStep == ASSUME IInv, SourceEnds PROVE IInv'
<1> USE DEF IInv, SourceEnds, Goto, taskVars, mainVars, Tasks, Queues
<1>1. TypeOK'
  BY NAssumption, CapacityAssumption, BoundsAssumption DEF TypeOK, Labels
<1>2. Joined'
  <2>1. \A j \in Tasks : /\ pc[j] = "exited" => pc'[j] = "exited"
                         /\ pc[j] = "new" => pc'[j] = "new"
    BY NAssumption DEF TypeOK
  <2> QED
    BY <2>1, JoinedStays
<1>3. NotToldEarly'
  <2>1. \A j \in Tasks : pc[j] = "exited" => pc'[j] = "exited"
    BY NAssumption DEF TypeOK
  <2> QED
    BY <2>1, NotToldEarlyStays
<1>4. LoopEndsWhenTold'
  BY NAssumption DEF LoopEndsWhenTold, TypeOK
<1>5. SourceReadsEverything'
  BY NAssumption DEF SourceReadsEverything, TypeOK, NotToldEarly
<1>6. CountersAgree'
  BY DEF CountersAgree
<1> QED
  BY <1>1, <1>2, <1>3, <1>4, <1>5, <1>6

\* A task tests done and goes around its loop or leaves it.
LEMMA TestStep == ASSUME IInv, NEW i \in Tasks \ {1}, Test(i) PROVE IInv'
<1> USE DEF IInv, Test, Goto, taskVars, mainVars, Tasks, Queues
<1>1. TypeOK'
  <2>1. pc' \in [Tasks -> Labels]
    BY DEF TypeOK, Labels
  <2>2. owed' \in [Tasks -> Nat] /\ owed'[N] = 0
    <3>1. 0 .. MaxDrain \subseteq Nat /\ N \in Tasks
      BY NAssumption, BoundsAssumption
    <3>2. \A n \in Nat : LET f == [owed EXCEPT ![i] = IF i < N THEN n ELSE 0]
                        IN  f \in [Tasks -> Nat] /\ f[N] = 0
      <4> TAKE n \in Nat
      <4>1. (IF i < N THEN n ELSE 0) \in Nat
        OBVIOUS
      <4>2. i = N => (IF i < N THEN n ELSE 0) = 0
        BY NAssumption
      <4> QED
        BY <3>1, <4>1, <4>2 DEF TypeOK
    <3> QED
      BY <3>1, <3>2 DEF TypeOK
  <2> QED
    BY <2>1, <2>2 DEF TypeOK
<1>2. Joined'
  <2>1. \A j \in Tasks : /\ pc[j] = "exited" => pc'[j] = "exited"
                         /\ pc[j] = "new" => pc'[j] = "new"
    BY NAssumption DEF TypeOK
  <2> QED
    BY <2>1, JoinedStays
<1>3. NotToldEarly'
  <2>1. \A j \in Tasks : pc[j] = "exited" => pc'[j] = "exited"
    BY NAssumption DEF TypeOK
  <2> QED
    BY <2>1, NotToldEarlyStays
<1>4. LoopEndsWhenTold'
  BY NAssumption DEF LoopEndsWhenTold, TypeOK
<1>5. SourceReadsEverything'
  <2>1. pc'[1] = pc[1]
    <3>1. pc' = [pc EXCEPT ![i] = "drain"] \/ pc' = [pc EXCEPT ![i] = "pop"]
      OBVIOUS
    <3>2. pc \in [Tasks -> Labels] /\ 1 \in Tasks /\ i # 1
      BY NAssumption DEF TypeOK
    <3> QED
      BY <3>1, <3>2
  <2> QED
    BY <2>1 DEF SourceReadsEverything
<1>6. CountersAgree'
  BY DEF CountersAgree
<1> QED
  BY <1>1, <1>2, <1>3, <1>4, <1>5, <1>6

\* A task takes an item out of its input queue.
LEMMA PopStep == ASSUME IInv, NEW i \in Tasks \ {1}, Pop(i) PROVE IInv'
<1> USE DEF IInv, Pop, Goto, taskVars, mainVars, Tasks, Queues
<1>1. TypeOK'
  <2>1. pc' \in [Tasks -> Labels]
    BY DEF TypeOK, Labels
  <2>2. owed' \in [Tasks -> Nat] /\ owed'[N] = 0
    <3>1. 0 .. MaxEmit \subseteq Nat /\ N \in Tasks
      BY NAssumption, BoundsAssumption
    <3>2. \A n \in Nat : LET f == [owed EXCEPT ![i] = IF i < N THEN n ELSE 0]
                        IN  f \in [Tasks -> Nat] /\ f[N] = 0
      <4> TAKE n \in Nat
      <4>1. (IF i < N THEN n ELSE 0) \in Nat
        OBVIOUS
      <4>2. i = N => (IF i < N THEN n ELSE 0) = 0
        BY NAssumption
      <4> QED
        BY <3>1, <4>1, <4>2 DEF TypeOK
    <3> QED
      BY <3>1, <3>2 DEF TypeOK
  <2>3. i - 1 \in Queues /\ queue[i - 1] \in 0 .. Capacity
    BY NAssumption DEF TypeOK
  <2>4. queue' \in [Queues -> 0 .. Capacity]
    BY <2>3, CapacityAssumption DEF TypeOK
  <2>5. entries_processed' \in [Tasks -> Nat]
    BY DEF TypeOK
  <2> QED
    BY <2>1, <2>2, <2>4, <2>5 DEF TypeOK
<1>2. Joined'
  <2>1. \A j \in Tasks : /\ pc[j] = "exited" => pc'[j] = "exited"
                         /\ pc[j] = "new" => pc'[j] = "new"
    BY NAssumption DEF TypeOK
  <2> QED
    BY <2>1, JoinedStays
<1>3. NotToldEarly'
  <2>1. \A j \in Tasks : pc[j] = "exited" => pc'[j] = "exited"
    BY NAssumption DEF TypeOK
  <2> QED
    BY <2>1, NotToldEarlyStays
<1>4. LoopEndsWhenTold'
  BY NAssumption DEF LoopEndsWhenTold, TypeOK
<1>5. SourceReadsEverything'
  <2>1. pc'[1] = pc[1]
    BY NAssumption DEF TypeOK
  <2> QED
    BY <2>1 DEF SourceReadsEverything
<1>6. CountersAgree'
  <2> SUFFICES ASSUME NEW q \in Queues
               PROVE  pushed[q] = entries_processed'[q + 1] + queue'[q]
    BY DEF CountersAgree
  <2>1. /\ pushed[q] = entries_processed[q + 1] + queue[q]
        /\ entries_processed[q + 1] \in Nat /\ queue[q] \in Nat /\ pushed[q] \in Nat
    <3>1. q + 1 \in Tasks
      BY NAssumption
    <3>2. queue[q] \in 0 .. Capacity /\ pushed[q] \in Nat
      BY DEF TypeOK
    <3>3. entries_processed[q + 1] \in Nat
      BY <3>1 DEF TypeOK
    <3> QED
      BY <3>2, <3>3, CapacityAssumption DEF CountersAgree
  <2>2. CASE q = i - 1
    <3>1. queue'[q] = queue[q] - 1
      BY <2>2 DEF TypeOK
    <3>2. q + 1 = i
      BY <2>2, NAssumption
    <3>3. entries_processed'[q + 1] = entries_processed[q + 1] + 1
      BY <3>2 DEF TypeOK
    <3> QED
      BY <2>1, <3>1, <3>3
  <2>3. CASE q # i - 1
    <3>1. q + 1 # i /\ q + 1 \in Tasks
      BY <2>3, NAssumption
    <3>2. queue'[q] = queue[q] /\ entries_processed'[q + 1] = entries_processed[q + 1]
      BY <2>3, <3>1 DEF TypeOK
    <3> QED
      BY <2>1, <3>2
  <2> QED
    BY <2>2, <2>3
<1> QED
  BY <1>1, <1>2, <1>3, <1>4, <1>5, <1>6

\* wait_and_pop() returns false.
LEMMA TimedOutStep == ASSUME IInv, NEW i \in Tasks \ {1}, TimedOut(i) PROVE IInv'
<1> USE DEF IInv, TimedOut, Goto, taskVars, mainVars, Tasks, Queues
<1>1. TypeOK'
  BY NAssumption, CapacityAssumption, BoundsAssumption DEF TypeOK, Labels
<1>2. Joined'
  <2>1. \A j \in Tasks : /\ pc[j] = "exited" => pc'[j] = "exited"
                         /\ pc[j] = "new" => pc'[j] = "new"
    BY NAssumption DEF TypeOK
  <2> QED
    BY <2>1, JoinedStays
<1>3. NotToldEarly'
  <2>1. \A j \in Tasks : pc[j] = "exited" => pc'[j] = "exited"
    BY NAssumption DEF TypeOK
  <2> QED
    BY <2>1, NotToldEarlyStays
<1>4. LoopEndsWhenTold'
  BY NAssumption DEF LoopEndsWhenTold, TypeOK
<1>5. SourceReadsEverything'
  <2>1. pc'[1] = pc[1]
    BY NAssumption DEF TypeOK
  <2> QED
    BY <2>1 DEF SourceReadsEverything
<1>6. CountersAgree'
  BY DEF CountersAgree
<1> QED
  BY <1>1, <1>2, <1>3, <1>4, <1>5, <1>6

\* A task puts an item into its output queue.
LEMMA PushStep == ASSUME IInv, NEW i \in Tasks, Push(i) PROVE IInv'
<1> USE DEF IInv, Push, taskVars, mainVars, Tasks, Queues
<1>1. TypeOK'
  <2>1. i \in Queues /\ i # N
    <3>1. owed[N] = 0 /\ owed[i] > 0
      BY DEF TypeOK
    <3>2. i # N
      BY <3>1
    <3> QED
      BY <3>2, NAssumption
  <2>2. owed' \in [Tasks -> Nat]
    <3>1. owed \in [Tasks -> Nat]
      BY DEF TypeOK
    <3>2. owed[i] - 1 \in Nat
      BY <3>1
    <3> QED
      BY <3>1, <3>2
  <2>3. owed'[N] = 0
    BY <2>1, NAssumption DEF TypeOK
  <2>4. queue[i] \in 0 .. Capacity /\ pushed[i] \in Nat
    BY <2>1 DEF TypeOK
  <2>5. queue[i] + 1 \in 0 .. Capacity /\ pushed[i] + 1 \in Nat
    BY <2>4, CapacityAssumption
  <2>6. queue' \in [Queues -> 0 .. Capacity]
    BY <2>5 DEF TypeOK
  <2>7. pushed' \in [Queues -> Nat]
    BY <2>5 DEF TypeOK
  <2> QED
    BY <2>2, <2>3, <2>6, <2>7 DEF TypeOK
<1>2. CountersAgree'
  <2> SUFFICES ASSUME NEW q \in Queues
               PROVE  pushed'[q] = entries_processed[q + 1] + queue'[q]
    BY DEF CountersAgree
  <2>1. /\ pushed[q] = entries_processed[q + 1] + queue[q]
        /\ entries_processed[q + 1] \in Nat /\ queue[q] \in Nat /\ pushed[q] \in Nat
    <3>1. q + 1 \in Tasks
      BY NAssumption
    <3>2. queue[q] \in 0 .. Capacity /\ pushed[q] \in Nat
      BY DEF TypeOK
    <3>3. entries_processed[q + 1] \in Nat
      BY <3>1 DEF TypeOK
    <3> QED
      BY <3>2, <3>3, CapacityAssumption DEF CountersAgree
  <2>2. CASE q = i
    <3>1. pushed'[q] = pushed[q] + 1 /\ queue'[q] = queue[q] + 1
      BY <2>2 DEF TypeOK
    <3> QED
      BY <2>1, <3>1
  <2>3. CASE q # i
    BY <2>1, <2>3 DEF TypeOK
  <2> QED
    BY <2>2, <2>3
<1>3. Joined' /\ NotToldEarly' /\ LoopEndsWhenTold' /\ SourceReadsEverything'
  BY DEF Joined, NotToldEarly, LoopEndsWhenTold, SourceReadsEverything
<1> QED
  BY <1>1, <1>2, <1>3

\* A task has pushed what its item gave.
LEMMA HandledStep == ASSUME IInv, NEW i \in Tasks, Handled(i) PROVE IInv'
<1> USE DEF IInv, Handled, Goto, taskVars, mainVars, Tasks, Queues
<1>1. TypeOK'
  BY NAssumption, CapacityAssumption, BoundsAssumption DEF TypeOK, Labels
<1>2. Joined'
  <2>1. \A j \in Tasks : /\ pc[j] = "exited" => pc'[j] = "exited"
                         /\ pc[j] = "new" => pc'[j] = "new"
    BY NAssumption DEF TypeOK
  <2> QED
    BY <2>1, JoinedStays
<1>3. NotToldEarly'
  <2>1. \A j \in Tasks : pc[j] = "exited" => pc'[j] = "exited"
    BY NAssumption DEF TypeOK
  <2> QED
    BY <2>1, NotToldEarlyStays
<1>4. LoopEndsWhenTold'
  BY NAssumption DEF LoopEndsWhenTold, TypeOK
<1>5. SourceReadsEverything'
  BY NAssumption DEF SourceReadsEverything, TypeOK, NotToldEarly
<1>6. CountersAgree'
  BY DEF CountersAgree
<1> QED
  BY <1>1, <1>2, <1>3, <1>4, <1>5, <1>6

\* The thread of a task ends.
LEMMA ExitStep == ASSUME IInv, NEW i \in Tasks, Exit(i) PROVE IInv'
<1> USE DEF IInv, Exit, Goto, taskVars, mainVars, Tasks, Queues
<1>1. TypeOK'
  BY NAssumption, CapacityAssumption, BoundsAssumption DEF TypeOK, Labels
<1>2. Joined'
  <2>1. \A j \in Tasks : /\ pc[j] = "exited" => pc'[j] = "exited"
                         /\ pc[j] = "new" => pc'[j] = "new"
    BY NAssumption DEF TypeOK
  <2> QED
    BY <2>1, JoinedStays
<1>3. NotToldEarly'
  <2>1. \A j \in Tasks : pc[j] = "exited" => pc'[j] = "exited"
    BY DEF TypeOK
  <2>2. \A j \in Tasks \ {1} : done'[j] = done[j]
    BY DEF TypeOK
  <2>3. done'[1] => done[1] \/ pc'[1] = "exited"
    BY NAssumption DEF TypeOK
  <2> QED
    BY <2>1, <2>2, <2>3, NAssumption DEF NotToldEarly
<1>4. LoopEndsWhenTold'
  BY NAssumption DEF LoopEndsWhenTold, TypeOK
<1>5. SourceReadsEverything'
  BY NAssumption DEF SourceReadsEverything, TypeOK, NotToldEarly
<1>6. CountersAgree'
  BY DEF CountersAgree
<1> QED
  BY <1>1, <1>2, <1>3, <1>4, <1>5, <1>6

\* An exception leaves the thread function.
LEMMA ThrowStep == ASSUME IInv, NEW i \in Tasks, Throw(i) PROVE IInv'
<1> USE DEF IInv, Throw, taskVars, mainVars, Tasks, Queues
<1>1. TypeOK'
  BY NAssumption, CapacityAssumption, BoundsAssumption DEF TypeOK, Labels
<1>2. Joined' /\ NotToldEarly' /\ LoopEndsWhenTold' /\ SourceReadsEverything' /\ CountersAgree'
  BY DEF Joined, NotToldEarly, LoopEndsWhenTold, SourceReadsEverything, CountersAgree
<1> QED
  BY <1>1, <1>2

\* main starts a thread.
LEMMA AddTaskStep == ASSUME IInv, AddTask PROVE IInv'
<1> USE DEF IInv, AddTask, Goto, taskVars, mainVars, Tasks, Queues
<1>1. TypeOK'
  <2>1. next' \in Tasks
    <3>1. next \in 1 .. N /\ N \in Nat /\ N >= 2
      BY NAssumption DEF TypeOK
    <3>2. CASE next < N
      BY <3>1, <3>2
    <3>3. CASE ~ (next < N)
      BY <3>1, <3>3
    <3> QED
      BY <3>2, <3>3
  <2>2. pc' \in [Tasks -> Labels]
    BY DEF TypeOK, Labels
  <2>3. main' \in {"add", "join_source", "end"}
    OBVIOUS
  <2> QED
    BY <2>1, <2>2, <2>3 DEF TypeOK
<1>2. Joined'
  <2> SUFFICES ASSUME next < N, NEW j \in Tasks, j >= next + 1
               PROVE  pc'[j] = "new"
    BY DEF Joined
  <2>1. j # next /\ j >= next /\ next \in Tasks
    BY NAssumption DEF TypeOK
  <2> QED
    BY <2>1 DEF Joined, TypeOK
<1>3. NotToldEarly'
  <2> SUFFICES ASSUME driver = "Wait"
               PROVE  /\ main' \in {"add", "join_source"}
                      /\ done[1] => pc'[1] = "exited"
                      /\ \A j \in Tasks \ {1} : ~done[j]
    BY DEF NotToldEarly
  <2>1. \A j \in Tasks \ {1} : ~done[j]
    BY DEF NotToldEarly
  <2>2. done[1] => pc[1] = "exited"
    BY DEF NotToldEarly
  <2>3. pc[1] = "exited" => next # 1
    BY NAssumption DEF Joined
  <2>4. main' \in {"add", "join_source"}
    OBVIOUS
  <2>5. next # 1 => pc'[1] = pc[1]
    BY NAssumption DEF TypeOK
  <2> QED
    BY <2>1, <2>2, <2>3, <2>4, <2>5
<1>4. LoopEndsWhenTold'
  BY NAssumption DEF LoopEndsWhenTold, TypeOK
<1>5. SourceReadsEverything'
  BY NAssumption DEF SourceReadsEverything, TypeOK, NotToldEarly
<1>6. CountersAgree'
  BY DEF CountersAgree
<1> QED
  BY <1>1, <1>2, <1>3, <1>4, <1>5, <1>6

\* Wait joins the source.
LEMMA JoinSourceStep == ASSUME IInv, JoinSource PROVE IInv'
<1> USE DEF IInv, JoinSource, taskVars, mainVars, Tasks, Queues
<1>1. TypeOK'
  BY NAssumption, CapacityAssumption, BoundsAssumption DEF TypeOK, Labels
<1>2. Joined'
  <2>1. \A j \in Tasks : ~ (j < 1)
    BY NAssumption
  <2> QED
    BY <2>1 DEF Joined, TypeOK
<1>3. NotToldEarly'
  BY NAssumption DEF NotToldEarly, TypeOK, Joined
<1>4. LoopEndsWhenTold' /\ SourceReadsEverything' /\ CountersAgree'
  BY DEF LoopEndsWhenTold, SourceReadsEverything, CountersAgree
<1> QED
  BY <1>1, <1>2, <1>3, <1>4

\* Wait tells the next task to finish.
LEMMA FinishNextStep == ASSUME IInv, FinishNext PROVE IInv'
<1> USE DEF IInv, FinishNext, taskVars, mainVars, Tasks, Queues
<1>1. TypeOK'
  BY NAssumption, CapacityAssumption, BoundsAssumption DEF TypeOK, Labels
<1>2. Joined'
  BY NAssumption DEF Joined, TypeOK
<1>3. NotToldEarly'
  <2>1. driver = "Wait" => \A j \in Tasks \ {1} : done'[j] => j <= next
    BY NAssumption DEF NotToldEarly, TypeOK
  <2>2. driver = "Wait" => (done'[1] => pc[1] = "exited")
    BY DEF Joined
  <2> QED
    BY <2>1, <2>2 DEF NotToldEarly
<1>4. LoopEndsWhenTold'
  BY NAssumption DEF LoopEndsWhenTold, TypeOK
<1>5. SourceReadsEverything' /\ CountersAgree'
  BY DEF SourceReadsEverything, CountersAgree
<1> QED
  BY <1>1, <1>2, <1>3, <1>4, <1>5

\* Wait joins the task it has told to finish.
LEMMA JoinNextStep == ASSUME IInv, JoinNext PROVE IInv'
<1> USE DEF IInv, JoinNext, taskVars, mainVars, Tasks, Queues
<1>1. TypeOK'
  <2>1. next' \in Tasks
    <3>1. next \in 1 .. N /\ N \in Nat /\ N >= 2
      BY NAssumption DEF TypeOK
    <3>2. CASE next < N
      BY <3>1, <3>2
    <3>3. CASE ~ (next < N)
      BY <3>1, <3>3
    <3> QED
      BY <3>2, <3>3
  <2>2. main' \in {"finish", "returned"}
    OBVIOUS
  <2> QED
    BY <2>1, <2>2 DEF TypeOK
<1>2. Joined'
  <2>1. \A j \in Tasks : j <= next => pc[j] = "exited"
    BY NAssumption DEF Joined, TypeOK
  <2>2. CASE next < N
    <3>1. \A j \in Tasks : j < next' => j <= next
      BY <2>2, NAssumption DEF TypeOK
    <3> QED
      BY <2>1, <2>2, <3>1 DEF Joined
  <2>3. CASE ~ (next < N)
    <3>1. \A j \in Tasks : j <= next
      BY <2>3, NAssumption DEF TypeOK
    <3> QED
      BY <2>1, <2>3, <3>1 DEF Joined
  <2> QED
    BY <2>2, <2>3
<1>3. NotToldEarly'
  <2>1. CASE next < N
    <3>1. \A j \in Tasks : j <= next => j < next'
      BY <2>1, NAssumption DEF TypeOK
    <3> QED
      BY <2>1, <3>1 DEF NotToldEarly
  <2>2. CASE ~ (next < N)
    BY <2>2 DEF NotToldEarly
  <2> QED
    BY <2>1, <2>2
<1>4. LoopEndsWhenTold' /\ SourceReadsEverything' /\ CountersAgree'
  BY DEF LoopEndsWhenTold, SourceReadsEverything, CountersAgree
<1> QED
  BY <1>1, <1>2, <1>3, <1>4

\* end_all tells the next task to finish.
LEMMA EndNextStep == ASSUME IInv, EndNext PROVE IInv'
<1> USE DEF IInv, EndNext, taskVars, mainVars, Tasks, Queues
<1>1. TypeOK'
  <2>1. next' \in Tasks
    <3>1. next \in 1 .. N /\ N \in Nat /\ N >= 2
      BY NAssumption DEF TypeOK
    <3>2. CASE next < N
      BY <3>1, <3>2
    <3>3. CASE ~ (next < N)
      BY <3>1, <3>3
    <3> QED
      BY <3>2, <3>3
  <2>2. main' \in {"end", "end_join"} /\ done' \in [Tasks -> BOOLEAN]
    BY DEF TypeOK
  <2> QED
    BY <2>1, <2>2 DEF TypeOK
<1>2. Joined'
  <2>1. main' = "end_join" => next' = 1
    OBVIOUS
  <2>2. main' \in {"end", "end_join"}
    OBVIOUS
  <2>3. \A j \in Tasks : ~ (j < 1)
    BY NAssumption
  <2> QED
    BY <2>1, <2>2, <2>3 DEF Joined
<1>3. NotToldEarly'
  BY NAssumption DEF NotToldEarly, TypeOK, Joined
<1>4. LoopEndsWhenTold'
  BY NAssumption DEF LoopEndsWhenTold, TypeOK
<1>5. SourceReadsEverything' /\ CountersAgree'
  BY DEF SourceReadsEverything, CountersAgree
<1> QED
  BY <1>1, <1>2, <1>3, <1>4, <1>5

\* end_all joins the next task.
LEMMA EndJoinNextStep == ASSUME IInv, EndJoinNext PROVE IInv'
<1> USE DEF IInv, EndJoinNext, taskVars, mainVars, Tasks, Queues
<1>1. TypeOK'
  <2>1. next' \in Tasks
    <3>1. next \in 1 .. N /\ N \in Nat /\ N >= 2
      BY NAssumption DEF TypeOK
    <3>2. CASE next < N
      BY <3>1, <3>2
    <3>3. CASE ~ (next < N)
      BY <3>1, <3>3
    <3> QED
      BY <3>2, <3>3
  <2>2. main' \in {"end_join", "returned"}
    OBVIOUS
  <2> QED
    BY <2>1, <2>2 DEF TypeOK
<1>2. Joined'
  <2>1. \A j \in Tasks : j <= next => pc[j] = "exited"
    BY NAssumption DEF Joined, TypeOK
  <2>2. CASE next < N
    <3>1. \A j \in Tasks : j < next' => j <= next
      BY <2>2, NAssumption DEF TypeOK
    <3> QED
      BY <2>1, <2>2, <3>1 DEF Joined
  <2>3. CASE ~ (next < N)
    <3>1. \A j \in Tasks : j <= next
      BY <2>3, NAssumption DEF TypeOK
    <3> QED
      BY <2>1, <2>3, <3>1 DEF Joined
  <2> QED
    BY <2>2, <2>3
<1>3. NotToldEarly'
  BY NAssumption DEF NotToldEarly, TypeOK, Joined
<1>4. LoopEndsWhenTold' /\ SourceReadsEverything' /\ CountersAgree'
  BY DEF LoopEndsWhenTold, SourceReadsEverything, CountersAgree
<1> QED
  BY <1>1, <1>2, <1>3, <1>4

-----------------------------------------------------------------------------
\* A step that changes no variable of the pool preserves the invariant.
LEMMA StutterStep == ASSUME IInv, UNCHANGED vars PROVE IInv'
  BY DEF IInv, vars, taskVars, mainVars, TypeOK, Joined, NotToldEarly, LoopEndsWhenTold,
     SourceReadsEverything, CountersAgree

\* Every reachable state of the pool satisfies the inductive invariant.
THEOREM Invariance == Spec => []IInv
<1>1. IInv /\ [Next]_vars => IInv'
  <2> SUFFICES ASSUME IInv, [Next]_vars PROVE IInv'
    OBVIOUS
  <2>1. CASE SourceStep
    BY <2>1, ReadStep, SourceEndsStep, PushStep, HandledStep, ExitStep, NAssumption
       DEF SourceStep, Tasks
  <2>2. CASE \E i \in Tasks \ {1} : WorkerStep(i)
    BY <2>2, TestStep, PopStep, TimedOutStep, PushStep, HandledStep, ExitStep DEF WorkerStep
  <2>3. CASE \E i \in Tasks : Throw(i)
    BY <2>3, ThrowStep
  <2>4. CASE MainStep
    BY <2>4, AddTaskStep, JoinSourceStep, FinishNextStep, JoinNextStep, EndNextStep,
       EndJoinNextStep DEF MainStep
  <2>5. CASE UNCHANGED vars
    BY <2>5, StutterStep
  <2> QED
    BY <2>1, <2>2, <2>3, <2>4, <2>5 DEF Next, Running, Terminated
<1> QED
  BY InitIInv, <1>1, PTL DEF Spec

\* Every variable of the pool keeps its type.
THEOREM TypeCorrect == Spec => []TypeOK
<1>1. IInv => TypeOK
  BY DEF IInv
<1> QED
  BY Invariance, <1>1, PTL

\* Wait() ends the tasks in the order of the chain: while a task has not exited,
\* the task that empties its output queue has not been told to finish.
THEOREM ShutdownOrder == Spec => []ConsumerOutlivesProducer
<1>1. IInv => ConsumerOutlivesProducer
  <2> SUFFICES ASSUME IInv, driver = "Wait", NEW i \in Queues, pc[i] # "exited"
               PROVE  ~done[i + 1] /\ pc[i + 1] \notin {"drain", "exited"}
    BY DEF ConsumerOutlivesProducer
  <2>1. i \in Tasks /\ i + 1 \in Tasks \ {1}
    BY NAssumption DEF Tasks, Queues
  <2>2. ~done[i + 1]
    <3> SUFFICES ASSUME done[i + 1] PROVE FALSE
      OBVIOUS
    <3>1. \/ main = "finish" /\ i + 1 < next
          \/ main = "join" /\ i + 1 <= next
          \/ main = "returned"
      BY <2>1 DEF IInv, NotToldEarly
    <3>2. main = "returned" \/ (main \in {"finish", "join"} /\ i < next)
      BY <2>1, <3>1, NAssumption DEF IInv, TypeOK, Tasks
    <3> QED
      BY <2>1, <3>2 DEF IInv, Joined
  <2> QED
    BY <2>1, <2>2 DEF IInv, LoopEndsWhenTold
<1> QED
  BY Invariance, <1>1, PTL

\* Wait() lets the source read all of its records.
THEOREM SourceComplete == Spec => []SourceReadsEverything
<1>1. IInv => SourceReadsEverything
  BY DEF IInv
<1> QED
  BY Invariance, <1>1, PTL

\* The counters main reads after Wait() or DoEnd() are final.
THEOREM CountersFinal == Spec => []CountersReadAfterExit
<1>1. IInv => CountersReadAfterExit
  BY DEF IInv, Joined, CountersReadAfterExit
<1> QED
  BY Invariance, <1>1, PTL

\* Between two tasks no item is lost or counted twice.
THEOREM Conservation == Spec => []CountersAgree
<1>1. IInv => CountersAgree
  BY DEF IInv
<1> QED
  BY Invariance, <1>1, PTL
=============================================================================
