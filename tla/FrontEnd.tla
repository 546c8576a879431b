------------------------------ MODULE FrontEnd ------------------------------
(***************************************************************************)
(* XIAReader and Calibrator with the queue between them: from the list     *)
(* mode files to calibrated hits.  The pointers the reader pushes are the  *)
(* input of the calibrator, which looks into the same mapped files.  The   *)
(* rest of the program pops the hits, and main tells the two tasks to      *)
(* finish in the order of Wait(), the reader at any time.                  *)
(***************************************************************************)
EXTENDS XIAReader

CONSTANTS TimeWord, Entries   \* as in Calibrator

ASSUME TimeWordAssumption == TimeWord \in Nat \ {0} /\ Entries \in Nat

VARIABLES calibrator_pc, calibrator_done,
          hits_pending, hits, hits_taken,   \* the output of the calibrator
          dinfo, crashed

Calibrator == INSTANCE Calibrator WITH
    raw <- RecordAt,
    pc <- calibrator_pc, done <- calibrator_done, entries_processed <- taken,
    input <- output,
    pending <- hits_pending, output <- hits, taken <- hits_taken

readerOnly == <<pc, done, entries_processed, pending, readerVars>>
calibratorOnly == <<calibrator_pc, calibrator_done, hits_pending, hits, hits_taken, crashed>>
frontEndVars == <<readerOnly, output, taken, calibratorOnly>>

FrontEndInit == Init /\ Calibrator!Init

ReaderStep == ~crashed /\ Run /\ UNCHANGED calibratorOnly
CalibratorStep == Calibrator!Run /\ UNCHANGED readerOnly
TakeHit == ~crashed /\ Calibrator!Take /\ UNCHANGED <<readerOnly, output, crashed>>

FinishReader == ~crashed /\ Finish /\ UNCHANGED <<pending, output, taken, readerVars, calibratorOnly>>
FinishCalibrator == /\ ~crashed /\ pc = "exited"
                    /\ Calibrator!Finish
                    /\ UNCHANGED <<readerOnly, output, hits_pending, hits, hits_taken, crashed>>

\* The tasks while they run; the table does not change any more.
FrontEndNext == ReaderStep \/ CalibratorStep \/ TakeHit \/ FinishReader \/ FinishCalibrator
-----------------------------------------------------------------------------
(***************************************************************************)
(* Properties, beside those of XIAReader                                   *)
(***************************************************************************)
\* Those of Calibrator.tla, of the records of the files.
HitsOfTheKeptRecords == Calibrator!HitsOfTheKeptRecords
OneTimeAxis == Calibrator!OneTimeAxis
=============================================================================
