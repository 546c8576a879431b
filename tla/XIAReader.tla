----------------------------- MODULE XIAReader -----------------------------
(***************************************************************************)
(* Task::XIAReader (src/Tasks/XIAReader.cpp): scans the memory-mapped list *)
(* mode files from header to header and pushes a pointer to every record.  *)
(* A file is the sequence of the records the digitiser wrote, each with    *)
(* its length eventLen in words, and its size in words, which is less than *)
(* the sum of the lengths when the last record was cut off.  A pointer is  *)
(* a pair of the name of a file and a position in it.                      *)
(***************************************************************************)
EXTENDS TaskOutput, SequencesExt

CONSTANT Files   \* the files by their names

VARIABLES mapped_files,  \* the names of the files the constructor has mapped
          fno, pos       \* the file and the position of the scan

readerVars == <<mapped_files, fno, pos>>

\* The position of the i-th record of a file.
Start(file, i) == FoldLeft(LAMBDA sum, r : sum + r.eventLen, 0, SubSeq(file.records, 1, i - 1))

\* The records of a file follow one another, and only the last may be cut off.
FilesOK ==
    \A f \in DOMAIN Files :
        LET file == Files[f]
            n == Len(file.records)
        IN  /\ file.records \in Seq(ToSet(file.records))
            /\ \A i \in 1 .. n : file.records[i].eventLen \in Nat \ {0}
            /\ n > 0 => file.size \in Start(file, n) + 1 .. Start(file, n + 1)
            /\ n = 0 => file.size = 0

ASSUME FilesAssumption == FilesOK

\* The record of a file with its header at a position.
RecordIn(file, p) == file.records[CHOOSE i \in DOMAIN file.records : Start(file, i) = p]
IsHeader(file, p) == \E i \in DOMAIN file.records : Start(file, i) = p

\* The records of the files by the pointers to them.
Pointers == UNION {{<<f, Start(Files[f], i)>> : i \in DOMAIN Files[f].records} :
                       f \in DOMAIN Files}
RecordAt == [p \in Pointers |-> RecordIn(Files[p[1]], p[2])]

\* Between headers there is payload, which read as a header gives any length.
HeaderLen(file, p) == IF IsHeader(file, p) THEN RecordIn(file, p).eventLen ELSE 1

\* The constructor, but for the files it maps: see RunSort.
Init == TaskInit /\ OutputInit /\ fno = 1 /\ pos = 0
-----------------------------------------------------------------------------
InFile == fno <= Len(mapped_files)
File == Files[mapped_files[fno]]

\* Seeded fault: the end of a record is compared as if it were inside it.
FitsBeyond(p, len) == p + len <= File.size + 1

\* pos + header->eventLen <= end
Fits(p, len) == p + len <= File.size

\* One turn of the loop over a file.
Read ==
    /\ pc = "test" /\ InFile
    /\ pos < File.size /\ ~done
    /\ LET len == HeaderLen(File, pos) IN
         /\ pending' = IF Fits(pos, len) THEN <<<<mapped_files[fno], pos>>>> ELSE << >>
         /\ pos' = pos + len
    /\ entries_processed' = entries_processed + 1
    /\ pc' = "push"
    /\ UNCHANGED <<done, output, taken, mapped_files, fno>>

NextFile ==
    /\ pc = "test" /\ InFile
    /\ pos >= File.size \/ done
    /\ fno' = fno + 1 /\ pos' = 0
    /\ UNCHANGED <<pc, done, entries_processed, pending, output, taken, mapped_files>>

AllFilesRead ==
    /\ pc = "test" /\ ~InFile
    /\ pc' = "drain"
    /\ UNCHANGED <<done, entries_processed, pending, output, taken, readerVars>>

\* mark_as_finish(); the reader sets its own done
ExitDone == /\ pc = "drain"
            /\ pc' = "exited" /\ done' = TRUE
            /\ UNCHANGED <<entries_processed, pending, output, taken, readerVars>>

Run == \/ Read \/ NextFile \/ AllFilesRead \/ ExitDone
       \/ Push /\ UNCHANGED readerVars
       \/ Handled /\ UNCHANGED readerVars

-----------------------------------------------------------------------------
(***************************************************************************)
(* Properties                                                              *)
(***************************************************************************)
TypeOK == /\ TaskTypeOK
          /\ taken \in 0 .. Len(output)
          /\ fno \in 1 .. Len(mapped_files) + 1
          /\ Len(pending) <= 1

\* The pointers to the complete records of a list of files, in order.
CompleteRecordsOf(names) ==
    FlattenSeq([n \in DOMAIN names |->
        LET file == Files[names[n]]
            complete == {i \in DOMAIN file.records : Start(file, i + 1) <= file.size}
        IN  [i \in 1 .. Cardinality(complete) |-> <<names[n], Start(file, i)>>]])
CompleteRecords == CompleteRecordsOf(mapped_files)

RecordsOf(names) == FoldLeft(LAMBDA n, f : n + Len(Files[f].records), 0, names)
RecordsOfAllFiles == RecordsOf(mapped_files)

\* The scan pushes the complete records of all files, each once and in order,
\* never a piece of payload or a record cut off at the end of its file.
ReadsTheRecords ==
    /\ IsPrefix(output \o pending, CompleteRecords)
    /\ pc = "exited" /\ entries_processed = RecordsOfAllFiles => output = CompleteRecords

=============================================================================
