-------------------------------- MODULE Task --------------------------------
(***************************************************************************)
(* What every task of the pipeline has, include/Tasks/Task.h: the flag by  *)
(* which another thread asks it to stop, its counter of entries, and the   *)
(* statement of Run() it is at.  TaskInput and TaskOutput add the two ends *)
(* of a queue, and the module of each task adds its own state.             *)
(*                                                                         *)
(* Statements: "test" is the condition of the loop, "pop" the call of      *)
(* wait_and_pop, "push" the rest of the body, "drain" what follows the     *)
(* loop.                                                                   *)
(***************************************************************************)
EXTENDS Integers, Sequences

CONSTANTS Capacity   \* of the queues, SIZE in Queue.h

ASSUME CapacityAssumption == Capacity \in Nat \ {0}

VARIABLES pc,                \* the statement the task is at
          done,              \* Base::done
          entries_processed  \* Base::entries_processed

TaskInit == pc = "test" /\ done = FALSE /\ entries_processed = 0

\* Called by ThreadPool from the main thread.
Finish == /\ done' = TRUE
          /\ UNCHANGED <<pc, entries_processed>>

TaskTypeOK == /\ pc \in {"test", "pop", "push", "drain", "exited"}
              /\ done \in BOOLEAN
              /\ entries_processed \in Nat
=============================================================================
