-------------------------- MODULE XIAReaderProofs --------------------------
(***************************************************************************)
(* Proofs about XIAReader for all files and lists of files: the scan       *)
(* stands at the header of a record, and what it has pushed are the        *)
(* complete records that it has passed.  The modules that compose the      *)
(* reader with other tasks use the invariant of this one.                  *)
(***************************************************************************)
EXTENDS XIAReader, SequenceLemmas

\* The sum of the lengths of records and the number of the records of files.
Nothing(p, s, value) == TRUE
Summing == INSTANCE SequenceLemmas WITH
    Op <- LAMBDA p, sum, r : sum + r.eventLen, base <- 0, Holds <- Nothing
Counting == INSTANCE SequenceLemmas WITH
    Op <- LAMBDA p, n, f : n + Len(Files[f].records), base <- 0, Holds <- Nothing
-----------------------------------------------------------------------------
(***************************************************************************)
(* One file                                                                *)
(***************************************************************************)
\* A record starts where the one before it ends.
LEMMA StartNext ==
  ASSUME NEW f \in DOMAIN Files
  PROVE  /\ Start(Files[f], 1) = 0
         /\ \A i \in 1 .. Len(Files[f].records) :
                Start(Files[f], i + 1) = Start(Files[f], i) + Files[f].records[i].eventLen
<1> DEFINE records == Files[f].records
<1>1. \A i : Start(Files[f], i) = Summing!Fold(0, SubSeq(records, 1, i - 1))
  BY Zenon DEF Start, FoldLeft, MapThenFoldSet, Max,
     Summing!Fold, Summing!FoldLeft, Summing!MapThenFoldSet, Summing!Max
<1>2. records \in Seq(ToSet(records))
  BY FilesAssumption DEF FilesOK
<1> HIDE DEF records
<1>3. Start(Files[f], 1) = 0
  <2>1. SubSeq(records, 1, 1 - 1) = << >>
    BY <1>2
  <2> QED
    BY <1>1, <2>1, Summing!FoldEmpty
<1>4. ASSUME NEW i \in 1 .. Len(records)
      PROVE  Start(Files[f], i + 1) = Start(Files[f], i) + records[i].eventLen
  <2>1. PICK n \in Nat : n = i - 1 /\ n + 1 = i /\ i + 1 - 1 = i /\ n < Len(records)
    BY <1>2, LenProperties
  <2>2. PICK s \in Seq(ToSet(records)) : s = SubSeq(records, 1, n)
    BY <1>2, <2>1, PrefixAppend
  <2>3. PICK r \in ToSet(records) : r = records[i]
    BY <1>2, <2>1, PrefixAppend
  <2>4. SubSeq(records, 1, i) = Append(s, r)
    BY <1>2, <2>1, <2>2, <2>3, PrefixAppend
  <2>5. Summing!Fold(0, Append(s, r)) = Summing!Fold(0, s) + r.eventLen
    BY Summing!FoldAppend
  <2>6. Start(Files[f], i) = Summing!Fold(0, s)
    BY <1>1, <2>1, <2>2
  <2>7. Start(Files[f], i + 1) = Summing!Fold(0, Append(s, r))
    <3>1. Start(Files[f], i + 1) = Summing!Fold(0, SubSeq(records, 1, i + 1 - 1))
      BY <1>1
    <3> QED
      BY <2>1, <2>4, <3>1
  <2> QED
    BY <2>3, <2>5, <2>6, <2>7
<1> QED
  BY <1>3, <1>4 DEF records

\* No two records start at the same place.
LEMMA StartsIncrease ==
  ASSUME NEW f \in DOMAIN Files
  PROVE  \A j \in 1 .. Len(Files[f].records) + 1 :
             /\ Start(Files[f], j) \in Nat
             /\ \A i \in 1 .. j - 1 : Start(Files[f], i) < Start(Files[f], j)
<1> DEFINE start(i) == Start(Files[f], i)
           up(j) == start(j) \in Nat /\ \A i \in 1 .. j - 1 : start(i) < start(j)
           good == {k \in Nat : k <= Len(Files[f].records) => \A j \in 1 .. k + 1 : up(j)}
<1>1. PICK n \in Nat : n = Len(Files[f].records)
  BY FilesAssumption, LenProperties DEF FilesOK
<1>2. /\ start(1) = 0
      /\ \A i \in 1 .. n : /\ start(i + 1) = start(i) + Files[f].records[i].eventLen
                           /\ Files[f].records[i].eventLen \in Nat \ {0}
  BY <1>1, StartNext, FilesAssumption DEF FilesOK
<1> HIDE DEF start
<1>3. 0 \in good
  BY <1>2
<1>4. ASSUME NEW k \in Nat, k \in good PROVE k + 1 \in good
  <2> SUFFICES ASSUME k + 1 <= n, NEW j \in 1 .. k + 2 PROVE up(j)
    BY <1>1
  <2>1. \A i \in 1 .. k + 1 : up(i)
    BY <1>1, <1>4
  <2>2. CASE j \in 1 .. k + 1
    BY <2>1, <2>2
  <2>3. CASE j = k + 2
    <3>1. PICK len \in Nat \ {0} : start(k + 2) = start(k + 1) + len
      <4>1. k + 1 \in 1 .. n /\ k + 1 + 1 = k + 2
        OBVIOUS
      <4> QED
        BY <1>2, <4>1
    <3>2. start(k + 1) \in Nat /\ \A i \in 1 .. k : start(i) < start(k + 1) /\ start(i) \in Nat
      BY <2>1
    <3>3. start(k + 2) \in Nat /\ start(k + 1) < start(k + 2)
      BY <3>1, <3>2
    <3>4. ASSUME NEW i \in 1 .. k + 1 PROVE start(i) < start(k + 2)
      <4>1. CASE i = k + 1
        BY <3>3, <4>1
      <4>2. CASE i \in 1 .. k
        BY <3>2, <3>3, <4>2
      <4> QED
        BY <4>1, <4>2
    <3> QED
      BY <2>3, <3>3, <3>4
  <2> QED
    BY <2>2, <2>3
<1>5. n \in good
  <2> HIDE DEF good
  <2> QED
    BY <1>3, <1>4, SetInduction
<1> QED
  BY <1>1, <1>5 DEF start

\* The records of a file that are complete, as FilesOK has them: all, or all but the last.
Completed(f) == {i \in DOMAIN Files[f].records : Start(Files[f], i + 1) <= Files[f].size}

\* The complete records are the first ones.
LEMMA CompleteAreFirst ==
  ASSUME NEW f \in DOMAIN Files
  PROVE  LET n == Len(Files[f].records)
             c == Cardinality(Completed(f))
         IN  /\ c \in 0 .. n /\ Completed(f) = 1 .. c
             /\ c < n => c = n - 1 /\ Files[f].size > Start(Files[f], n)
             /\ \A j \in 1 .. n + 1 : Start(Files[f], j) < Files[f].size <=> j <= n
<1>1. PICK n \in Nat : n = Len(Files[f].records) /\ DOMAIN Files[f].records = 1 .. n
  BY FilesAssumption, LenProperties DEF FilesOK
<1>2. PICK size : /\ size = Files[f].size
                  /\ n > 0 => size \in Start(Files[f], n) + 1 .. Start(Files[f], n + 1)
                  /\ n = 0 => size = 0
  BY <1>1, FilesAssumption DEF FilesOK
<1> DEFINE start(i) == Start(Files[f], i)
<1>3. /\ \A j \in 1 .. n + 1 : start(j) \in Nat /\ \A i \in 1 .. j - 1 : start(i) < start(j)
      /\ start(1) = 0
  BY <1>1, StartsIncrease, StartNext
<1>4. Completed(f) = {i \in 1 .. n : start(i + 1) <= size}
  BY <1>1, <1>2 DEF Completed
<1>5. n > 0 => size \in start(n) + 1 .. start(n + 1)
  BY <1>2
<1> HIDE DEF start
<1>6. size \in Nat
  <2>1. n \in 1 .. n + 1 \/ n = 0
    OBVIOUS
  <2>2. n + 1 \in 1 .. n + 1
    OBVIOUS
  <2> QED
    BY <1>2, <1>3, <1>5, <2>1, <2>2
<1>7. PICK c \in 0 .. n : /\ Completed(f) = 1 .. c
                          /\ c < n => c = n - 1 /\ size > start(n)
  <2>1. CASE n = 0
    BY <1>4, <2>1
  <2>2. CASE n > 0 /\ start(n + 1) <= size
    <3>1. ASSUME NEW i \in 1 .. n PROVE start(i + 1) <= size
      <4>1. CASE i = n
        BY <2>2, <4>1
      <4>2. CASE i # n
        <5>1. i + 1 \in 1 .. n + 1 - 1 /\ i + 1 \in 1 .. n + 1 /\ n + 1 \in 1 .. n + 1
          BY <4>2
        <5>2. start(i + 1) < start(n + 1) /\ start(i + 1) \in Nat /\ start(n + 1) \in Nat
          BY <1>3, <5>1
        <5> QED
          BY <1>6, <2>2, <5>2
      <4> QED
        BY <4>1, <4>2
    <3>2. Completed(f) = 1 .. n
      BY <1>4, <3>1
    <3> QED
      BY <3>2
  <2>3. CASE n > 0 /\ ~(start(n + 1) <= size)
    <3>1. ASSUME NEW i \in 1 .. n - 1 PROVE start(i + 1) <= size
      <4>1. i + 1 \in 1 .. n + 1 /\ n \in 1 .. n + 1 /\ (i + 1 \in 1 .. n - 1 \/ i + 1 = n)
        OBVIOUS
      <4>2. start(i + 1) <= start(n) /\ start(i + 1) \in Nat /\ start(n) \in Nat
        BY <1>3, <4>1
      <4> QED
        BY <1>5, <1>6, <2>3, <4>2
    <3>2. Completed(f) = 1 .. n - 1
      BY <1>4, <2>3, <3>1
    <3>3. size > start(n)
      <4>1. start(n) \in Nat
        BY <1>3, <2>3
      <4> QED
        BY <1>5, <1>6, <2>3, <4>1
    <3> QED
      BY <2>3, <3>2, <3>3
  <2> QED
    BY <2>1, <2>2, <2>3
<1>8. Cardinality(Completed(f)) = c
  BY <1>7, FS_Interval
<1>9. ASSUME NEW j \in 1 .. n + 1 PROVE start(j) < size <=> j <= n
  <2>1. CASE n = 0
    BY <1>2, <1>3, <2>1
  <2>2. CASE n > 0 /\ j <= n
    <3>1. n \in 1 .. n + 1 /\ (j \in 1 .. n - 1 \/ j = n)
      BY <2>2
    <3>2. start(j) <= start(n) /\ start(j) \in Nat /\ start(n) \in Nat
      BY <1>3, <3>1
    <3> QED
      BY <1>5, <1>6, <2>2, <3>2
  <2>3. CASE n > 0 /\ j = n + 1
    BY <1>3, <1>5, <1>6, <2>3
  <2> QED
    BY <2>1, <2>2, <2>3
<1> QED
  BY <1>1, <1>2, <1>7, <1>8, <1>9 DEF start

\* The size of a file is a number.
LEMMA SizeType ==
  ASSUME NEW f \in DOMAIN Files
  PROVE  Files[f].size \in Nat
<1>1. PICK n \in Nat : /\ n = Len(Files[f].records)
                       /\ n > 0 => Files[f].size \in Start(Files[f], n) + 1 .. Start(Files[f], n + 1)
                       /\ n = 0 => Files[f].size = 0
  BY FilesAssumption, LenProperties DEF FilesOK
<1>2. n > 0 => Start(Files[f], n) \in Nat /\ Start(Files[f], n + 1) \in Nat
  BY <1>1, StartsIncrease
<1> QED
  BY <1>1, <1>2

\* At the start of a record the reader sees its header.
LEMMA HeaderAtStart ==
  ASSUME NEW f \in DOMAIN Files, NEW j \in 1 .. Len(Files[f].records)
  PROVE  HeaderLen(Files[f], Start(Files[f], j)) = Files[f].records[j].eventLen
<1>1. PICK n \in Nat : n = Len(Files[f].records) /\ DOMAIN Files[f].records = 1 .. n
  BY FilesAssumption, LenProperties DEF FilesOK
<1> DEFINE start(i) == Start(Files[f], i)
<1>2. \A k \in 1 .. n + 1 : start(k) \in Nat /\ \A i \in 1 .. k - 1 : start(i) < start(k)
  BY <1>1, StartsIncrease
<1> HIDE DEF start
<1>3. ASSUME NEW i \in 1 .. n, start(i) = start(j) PROVE i = j
  <2>1. j \in 1 .. n
    BY <1>1
  <2>2. i \in 1 .. n + 1 /\ j \in 1 .. n + 1
    BY <2>1
  <2>3. start(i) \in Nat /\ (i \in 1 .. j - 1 => start(i) < start(j))
                         /\ (j \in 1 .. i - 1 => start(j) < start(i))
    BY <1>2, <2>2
  <2> QED
    BY <1>3, <2>1, <2>3
<1>4. (CHOOSE i \in DOMAIN Files[f].records : start(i) = start(j)) = j
  BY <1>1, <1>3
<1>5. IsHeader(Files[f], start(j))
  BY <1>1 DEF IsHeader, start
<1> QED
  BY <1>4, <1>5 DEF HeaderLen, RecordIn, start
-----------------------------------------------------------------------------
(***************************************************************************)
(* The files of a list                                                     *)
(***************************************************************************)
Names == Seq(DOMAIN Files)
RecordsIn(f) == Len(Files[f].records)
ListOf(f) == [i \in 1 .. Cardinality(Completed(f)) |-> <<f, Start(Files[f], i)>>]
Lists(names) == [n \in DOMAIN names |-> ListOf(names[n])]

\* The complete records and the number of all records of the first files of a list.
UpTo(names, f) == FlattenSeq(SubSeq(Lists(names), 1, f))
Total(names, f) == Counting!Fold(0, SubSeq(names, 1, f))

\* The complete records of a file are pointers to records.
LEMMA ListType ==
  ASSUME NEW f \in DOMAIN Files
  PROVE  /\ ListOf(f) \in Seq(Pointers) /\ Len(ListOf(f)) = Cardinality(Completed(f))
         /\ RecordsIn(f) \in Nat /\ Cardinality(Completed(f)) \in 0 .. RecordsIn(f)
<1>1. PICK n \in Nat : n = RecordsIn(f) /\ DOMAIN Files[f].records = 1 .. n
  BY FilesAssumption, LenProperties DEF FilesOK, RecordsIn
<1>2. PICK c \in 0 .. n : c = Cardinality(Completed(f))
  BY <1>1, CompleteAreFirst DEF RecordsIn
<1>3. ASSUME NEW i \in 1 .. c PROVE <<f, Start(Files[f], i)>> \in Pointers
  BY SMTT(30), <1>1 DEF Pointers
<1>4. PICK list : list = ListOf(f)
  OBVIOUS
<1>5. list = [i \in 1 .. c |-> <<f, Start(Files[f], i)>>]
  BY <1>2, <1>4 DEF ListOf
<1>6. list \in [1 .. c -> Pointers]
  BY <1>3, <1>5
<1>7. list \in Seq(Pointers) /\ Len(list) = c
  BY <1>6, IsASeq, LenProperties
<1> QED
  BY <1>1, <1>2, <1>4, <1>7

\* The lists of the complete records.
LEMMA ListsType ==
  ASSUME NEW names \in Names
  PROVE  /\ Lists(names) \in Seq(Seq(Pointers)) /\ Len(Lists(names)) = Len(names)
         /\ Len(names) \in Nat /\ DOMAIN names = 1 .. Len(names)
<1>1. PICK n \in Nat : n = Len(names) /\ DOMAIN names = 1 .. n
  BY LenProperties DEF Names
<1>2. PICK lists : lists = Lists(names)
  OBVIOUS
<1>3. \A k \in 1 .. n : names[k] \in DOMAIN Files
  BY <1>1, ElementOfSeq DEF Names
<1>4. \A k \in 1 .. n : ListOf(names[k]) \in Seq(Pointers)
  BY <1>3, ListType
<1>5. lists \in [1 .. n -> Seq(Pointers)]
  BY <1>1, <1>2, <1>4 DEF Lists
<1>6. lists \in Seq(Seq(Pointers)) /\ Len(lists) = n
  BY <1>5, IsASeq, LenProperties
<1> QED
  BY <1>1, <1>2, <1>6

\* They are what the property of the reader is stated with.
LEMMA CompleteIsUpTo ==
  ASSUME NEW names \in Names
  PROVE  CompleteRecordsOf(names) = UpTo(names, Len(names))
<1>1. CompleteRecordsOf(names) = FlattenSeq(Lists(names))
  BY DEF CompleteRecordsOf, Lists, ListOf, Completed
<1>2. SubSeq(Lists(names), 1, Len(names)) = Lists(names)
  BY ListsType
<1> QED
  BY <1>1, <1>2 DEF UpTo

\* No file has no records.
LEMMA UpToNone ==
  ASSUME NEW names \in Names
  PROVE  UpTo(names, 0) = << >> /\ Total(names, 0) = 0
<1>1. SubSeq(Lists(names), 1, 0) = << >> /\ SubSeq(names, 1, 0) = << >>
  BY ListsType DEF Names
<1>2. FlattenSeq(SubSeq(Lists(names), 1, 0)) = << >>
  BY <1>1, FlattenEmpty, Zenon
<1>3. Counting!Fold(0, SubSeq(names, 1, 0)) = 0
  BY <1>1, Counting!FoldEmpty, Zenon
<1> QED
  BY <1>2, <1>3 DEF UpTo, Total

\* One file more has its records.
LEMMA UpToNext ==
  ASSUME NEW names \in Names, NEW f \in Nat, f < Len(names)
  PROVE  /\ UpTo(names, f) \in Seq(Pointers) /\ names[f + 1] \in DOMAIN Files
         /\ UpTo(names, f + 1) = UpTo(names, f) \o ListOf(names[f + 1])
         /\ Total(names, f + 1) = Total(names, f) + RecordsIn(names[f + 1])
<1>1. PICK lists \in Seq(Seq(Pointers)) : lists = Lists(names) /\ f < Len(lists)
  BY ListsType
<1>2. PICK a \in Seq(Seq(Pointers)) : a = SubSeq(lists, 1, f)
  BY <1>1, PrefixAppend
<1>3. PICK name \in DOMAIN Files : name = names[f + 1] /\ f + 1 \in DOMAIN names
  BY PrefixAppend DEF Names
<1>4. PICK b \in Seq(DOMAIN Files) : b = SubSeq(names, 1, f)
  BY PrefixAppend DEF Names
<1>5. lists[f + 1] = ListOf(name)
  BY <1>1, <1>3 DEF Lists
<1>6. PICK list \in Seq(Pointers) : list = ListOf(name)
  BY ListType
<1>7. SubSeq(lists, 1, f + 1) = Append(a, list)
  BY <1>1, <1>2, <1>5, <1>6, PrefixAppend
<1>8. FlattenSeq(Append(a, list)) = FlattenSeq(a) \o list /\ FlattenSeq(a) \in Seq(Pointers)
  BY FlattenAppend, FlattenType
<1>9. SubSeq(names, 1, f + 1) = Append(b, name)
  BY <1>3, <1>4, PrefixAppend DEF Names
<1>10. Counting!Fold(0, Append(b, name)) = Counting!Fold(0, b) + Len(Files[name].records)
  BY Counting!FoldAppend
<1> QED
  BY <1>1, <1>2, <1>3, <1>4, <1>6, <1>7, <1>8, <1>9, <1>10 DEF UpTo, Total, RecordsIn

\* The files up to the k-th go on from those up to the f-th, and where there are no
\* more records there is nothing more to push.
GoesOn(names, f, k) ==
    /\ Total(names, f) \in Nat /\ Total(names, k) \in Nat
    /\ Total(names, f) <= Total(names, k)
    /\ UpTo(names, f) \in Seq(Pointers) /\ UpTo(names, k) \in Seq(Pointers)
    /\ \E rest \in Seq(Pointers) : UpTo(names, k) = UpTo(names, f) \o rest
    /\ Total(names, f) = Total(names, k) => UpTo(names, k) = UpTo(names, f)

\* The totals are numbers.
LEMMA TotalType ==
  ASSUME NEW names \in Names, NEW f \in 0 .. Len(names)
  PROVE  Total(names, f) \in Nat /\ UpTo(names, f) \in Seq(Pointers)
<1> DEFINE good == {k \in Nat : k <= Len(names) =>
                                    Total(names, k) \in Nat /\ UpTo(names, k) \in Seq(Pointers)}
<1>1. Len(names) \in Nat
  BY ListsType
<1>2. 0 \in good
  <2>1. << >> \in Seq(Pointers)
    OBVIOUS
  <2>2. UpTo(names, 0) = << >> /\ Total(names, 0) = 0
    BY UpToNone
  <2>3. UpTo(names, 0) \in Seq(Pointers) /\ Total(names, 0) \in Nat
    BY Zenon, <2>1, <2>2, 0 \in Nat
  <2> QED
    BY <2>3
<1>3. ASSUME NEW k \in Nat, k \in good PROVE k + 1 \in good
  <2> SUFFICES ASSUME k + 1 <= Len(names)
               PROVE  Total(names, k + 1) \in Nat /\ UpTo(names, k + 1) \in Seq(Pointers)
    OBVIOUS
  <2>1. k < Len(names) /\ Total(names, k) \in Nat
    BY <1>1, <1>3
  <2>2. /\ UpTo(names, k) \in Seq(Pointers) /\ names[k + 1] \in DOMAIN Files
        /\ UpTo(names, k + 1) = UpTo(names, k) \o ListOf(names[k + 1])
        /\ Total(names, k + 1) = Total(names, k) + RecordsIn(names[k + 1])
    BY <2>1, UpToNext
  <2>3. RecordsIn(names[k + 1]) \in Nat /\ ListOf(names[k + 1]) \in Seq(Pointers)
    BY <2>2, ListType
  <2>4. UpTo(names, k) \o ListOf(names[k + 1]) \in Seq(Pointers)
    BY <2>2, <2>3, ConcatProperties
  <2>5. Total(names, k + 1) \in Nat
    BY <2>1, <2>2, <2>3
  <2> QED
    BY <2>2, <2>4, <2>5
<1>4. f \in good
  <2> HIDE DEF good
  <2> QED
    BY <1>1, <1>2, <1>3, SetInduction
<1> QED
  BY <1>1, <1>4

\* The number of the records of all files mapped.
LEMMA AllIsTotal ==
  ASSUME mapped_files \in Names
  PROVE  RecordsOfAllFiles = Total(mapped_files, Len(mapped_files))
<1>1. RecordsOfAllFiles = Counting!Fold(0, mapped_files)
  BY Zenon DEF RecordsOfAllFiles, RecordsOf, FoldLeft, MapThenFoldSet, Max,
     Counting!Fold, Counting!FoldLeft, Counting!MapThenFoldSet, Counting!Max
<1>2. SubSeq(mapped_files, 1, Len(mapped_files)) = mapped_files
  BY DEF Names
<1> QED
  BY <1>1, <1>2 DEF Total

\* So they do.
LEMMA FilesGoOn ==
  ASSUME NEW names \in Names, NEW f \in 0 .. Len(names)
  PROVE  GoesOn(names, f, Len(names))
<1> DEFINE good == {d \in Nat : f + d <= Len(names) => GoesOn(names, f, f + d)}
<1>1. Len(names) \in Nat
  BY ListsType
<1>2. Total(names, f) \in Nat /\ UpTo(names, f) \in Seq(Pointers)
  BY TotalType
<1>3. 0 \in good
  <2>1. << >> \in Seq(Pointers) /\ UpTo(names, f) = UpTo(names, f) \o << >>
    BY <1>2
  <2>2. f + 0 = f
    BY <1>1
  <2>3. \E rest \in Seq(Pointers) : UpTo(names, f) = UpTo(names, f) \o rest
    BY Zenon, <2>1
  <2>4. Total(names, f) <= Total(names, f)
    BY <1>2
  <2>5. GoesOn(names, f, f)
    BY Zenon, <1>2, <2>3, <2>4 DEF GoesOn
  <2> QED
    BY <2>2, <2>5
<1>4. ASSUME NEW d \in Nat, d \in good PROVE d + 1 \in good
  <2> SUFFICES ASSUME f + (d + 1) <= Len(names) PROVE GoesOn(names, f, f + (d + 1))
    OBVIOUS
  <2>1. PICK k \in Nat : k = f + d /\ k + 1 = f + (d + 1) /\ k < Len(names) /\ k \in 0 .. Len(names)
    BY <1>1
  <2>2. GoesOn(names, f, k)
    BY <1>4, <2>1
  <2>3. PICK rest \in Seq(Pointers) : UpTo(names, k) = UpTo(names, f) \o rest
    BY <2>2 DEF GoesOn
  <2>4. /\ names[k + 1] \in DOMAIN Files
        /\ UpTo(names, k + 1) = UpTo(names, k) \o ListOf(names[k + 1])
        /\ Total(names, k + 1) = Total(names, k) + RecordsIn(names[k + 1])
    BY <2>1, UpToNext
  <2>5. PICK list \in Seq(Pointers) : list = ListOf(names[k + 1])
    BY <2>4, ListType
  <2>6. PICK n \in Nat : n = RecordsIn(names[k + 1]) /\ Len(list) \in 0 .. n
    BY <2>4, <2>5, ListType
  <2>7. UpTo(names, k + 1) = UpTo(names, f) \o (rest \o list) /\ rest \o list \in Seq(Pointers)
    <3>1. PICK before \in Seq(Pointers) : before = UpTo(names, f)
      BY <1>2
    <3>2. rest \o list \in Seq(Pointers)
      BY ConcatProperties
    <3>3. (before \o rest) \o list = before \o (rest \o list)
      OBVIOUS
    <3> QED
      BY <2>3, <2>4, <2>5, <3>1, <3>2, <3>3
  <2>8. k + 1 \in 0 .. Len(names)
    BY <1>1, <2>1
  <2>9. Total(names, k + 1) \in Nat /\ UpTo(names, k + 1) \in Seq(Pointers)
    BY <2>8, TotalType
  <2>10. Total(names, k) \in Nat /\ Total(names, f) <= Total(names, k)
    BY <2>2 DEF GoesOn
  <2>11. Total(names, f) <= Total(names, k + 1)
    BY <1>2, <2>4, <2>6, <2>10
  <2>12. ASSUME Total(names, f) = Total(names, k + 1)
         PROVE  UpTo(names, k + 1) = UpTo(names, f)
    <3>1. n = 0 /\ Total(names, f) = Total(names, k)
      BY <1>2, <2>4, <2>6, <2>10, <2>12
    <3>2. list = << >>
      BY <2>6, <3>1
    <3>3. UpTo(names, k) = UpTo(names, f)
      BY <2>2, <3>1 DEF GoesOn
    <3>4. UpTo(names, f) \o << >> = UpTo(names, f)
      BY <1>2
    <3> QED
      BY <2>4, <2>5, <3>2, <3>3, <3>4
  <2>13. GoesOn(names, f, k + 1)
    BY <1>2, <2>7, <2>9, <2>11, <2>12 DEF GoesOn
  <2> QED
    BY <2>1, <2>13
<1>5. PICK d \in Nat : f + d = Len(names)
  <2>1. Len(names) - f \in Nat /\ f + (Len(names) - f) = Len(names)
    BY <1>1
  <2> QED
    BY Zenon, <2>1
<1>6. d \in good
  <2> HIDE DEF good
  <2> QED
    BY <1>3, <1>4, SetInduction
<1> QED
  BY <1>1, <1>5, <1>6
-----------------------------------------------------------------------------
(***************************************************************************)
(* The scan                                                                *)
(***************************************************************************)
\* The complete ones among the first n records of a file.
FirstOf(f, n) ==
    SubSeq(ListOf(f), 1, IF n <= Cardinality(Completed(f)) THEN n ELSE Cardinality(Completed(f)))

\* What has been pushed when the scan stands at the j-th record of the f-th file.
Passed(names, f, j) ==
    UpTo(names, f - 1) \o (IF f <= Len(names) THEN FirstOf(names[f], j - 1) ELSE << >>)

\* The places it can stand at.
IsPlace(names, f, j) ==
    \/ f = Len(names) + 1 /\ j = 1
    \/ f \in 1 .. Len(names) /\ j \in 1 .. RecordsIn(names[f]) + 1

\* One record more is pushed if it is complete; no record and all of them.
LEMMA FirstOfNext ==
  ASSUME NEW f \in DOMAIN Files
  PROVE  /\ FirstOf(f, 0) = << >> /\ FirstOf(f, RecordsIn(f)) = ListOf(f)
         /\ \A n \in 0 .. RecordsIn(f) :
                /\ FirstOf(f, n) \in Seq(Pointers)
                /\ \E rest \in Seq(Pointers) : ListOf(f) = FirstOf(f, n) \o rest
         /\ \A j \in 1 .. RecordsIn(f) :
                FirstOf(f, j) = IF Start(Files[f], j + 1) <= Files[f].size
                                  THEN Append(FirstOf(f, j - 1), <<f, Start(Files[f], j)>>)
                                  ELSE FirstOf(f, j - 1)
<1>1. PICK n \in Nat : n = RecordsIn(f) /\ DOMAIN Files[f].records = 1 .. n
  BY FilesAssumption, LenProperties DEF FilesOK, RecordsIn
<1>2. PICK c \in 0 .. n : /\ c = Cardinality(Completed(f)) /\ Completed(f) = 1 .. c
                          /\ c < n => c = n - 1
  BY <1>1, CompleteAreFirst DEF RecordsIn
<1>3. PICK list \in Seq(Pointers) : list = ListOf(f) /\ Len(list) = c
  BY <1>2, ListType
<1>4. \A i \in 1 .. c : list[i] = <<f, Start(Files[f], i)>>
  BY <1>2, <1>3 DEF ListOf
<1>5. \A m : FirstOf(f, m) = SubSeq(list, 1, IF m <= c THEN m ELSE c)
  BY <1>2, <1>3 DEF FirstOf
<1>6. FirstOf(f, 0) = << >>
  <2>1. SubSeq(list, 1, 0) = << >> /\ 0 <= c
    BY <1>2
  <2> QED
    BY <1>5, <2>1
<1>7. FirstOf(f, n) = list
  <2>1. SubSeq(list, 1, c) = list
    BY <1>3
  <2>2. (IF n <= c THEN n ELSE c) = c
    BY <1>2
  <2> QED
    BY <1>5, <2>1, <2>2
<1>8. ASSUME NEW m \in 0 .. n
      PROVE  /\ FirstOf(f, m) \in Seq(Pointers)
             /\ \E rest \in Seq(Pointers) : list = FirstOf(f, m) \o rest
  <2>1. PICK k \in 0 .. c : k = IF m <= c THEN m ELSE c
    BY <1>2
  <2>2. FirstOf(f, m) = SubSeq(list, 1, k)
    BY <1>5, <2>1
  <2>3. k \in 0 .. Len(list)
    BY <1>3
  <2>4. SubSeq(list, 1, k) \in Seq(Pointers)
    BY <2>3, PrefixProperties
  <2>5. \E rest \in Seq(Pointers) : list = SubSeq(list, 1, k) \o rest
    BY <2>3, PrefixAndRest
  <2> QED
    BY <2>2, <2>4, <2>5
<1>9. ASSUME NEW j \in 1 .. n
      PROVE  FirstOf(f, j) = IF Start(Files[f], j + 1) <= Files[f].size
                               THEN Append(FirstOf(f, j - 1), <<f, Start(Files[f], j)>>)
                               ELSE FirstOf(f, j - 1)
  <2>1. j \in Completed(f) <=> Start(Files[f], j + 1) <= Files[f].size
    BY <1>1 DEF Completed
  <2>2. CASE j <= c
    <3>1. PICK k \in Nat : k = j - 1 /\ k + 1 = j /\ k <= c /\ k < c
      BY <1>2, <2>2
    <3>2. k < Len(list)
      BY <1>3, <3>1
    <3>3. SubSeq(list, 1, k + 1) = Append(SubSeq(list, 1, k), list[k + 1])
      BY <3>2, PrefixAppend
    <3>4. FirstOf(f, j) = SubSeq(list, 1, k + 1) /\ FirstOf(f, j - 1) = SubSeq(list, 1, k)
      BY <1>5, <2>2, <3>1
    <3>5. list[k + 1] = <<f, Start(Files[f], j)>>
      BY <1>4, <2>2, <3>1
    <3>6. j \in Completed(f)
      <4>1. j \in 1 .. c
        BY <1>2, <2>2
      <4> QED
        BY <1>2, <4>1
    <3> QED
      BY <2>1, <3>3, <3>4, <3>5, <3>6
  <2>3. CASE ~(j <= c)
    <3>1. j = n /\ c = n - 1
      BY <1>2, <2>3
    <3>2. FirstOf(f, j) = SubSeq(list, 1, c) /\ FirstOf(f, j - 1) = SubSeq(list, 1, c)
      BY <1>5, <2>3, <3>1
    <3>3. j \notin Completed(f)
      <4>1. j \notin 1 .. c
        BY <1>2, <2>3
      <4> QED
        BY <1>2, <4>1
    <3> QED
      BY <2>1, <3>2, <3>3
  <2> QED
    BY <2>2, <2>3
<1> QED
  BY <1>1, <1>3, <1>6, <1>7, <1>8, <1>9

\* At the start nothing has been passed.
LEMMA PassedNone ==
  ASSUME NEW names \in Names
  PROVE  /\ Passed(names, 1, 1) = << >> /\ Total(names, 0) = 0
         /\ IsPlace(names, 1, 1)
<1>1. UpTo(names, 1 - 1) = << >> /\ Total(names, 0) = 0
  BY UpToNone
<1>2. Len(names) \in Nat
  BY ListsType
<1>3. CASE 1 <= Len(names)
  <2>1. names[1] \in DOMAIN Files
    BY <1>3, ElementOfSeq, ListsType DEF Names
  <2>2. FirstOf(names[1], 1 - 1) = << >> /\ RecordsIn(names[1]) \in Nat
    BY <2>1, FirstOfNext, ListType
  <2>3. Passed(names, 1, 1) = << >> \o << >>
    BY <1>1, <1>3, <2>2 DEF Passed
  <2>4. << >> \o << >> = << >>
    OBVIOUS
  <2>5. IsPlace(names, 1, 1)
    BY <1>2, <1>3, <2>2 DEF IsPlace
  <2> QED
    BY <1>1, <2>3, <2>4, <2>5
<1>4. CASE ~(1 <= Len(names))
  <2>1. Passed(names, 1, 1) = << >> \o << >>
    BY <1>1, <1>4 DEF Passed
  <2>2. << >> \o << >> = << >>
    OBVIOUS
  <2>3. IsPlace(names, 1, 1)
    BY <1>2, <1>4 DEF IsPlace
  <2> QED
    BY <1>1, <2>1, <2>2, <2>3
<1> QED
  BY <1>3, <1>4

\* Where the scan stands, what has been passed is a prefix of the complete records,
\* and all of them if all records have been counted.
LEMMA PassedIsPrefix ==
  ASSUME NEW names \in Names, NEW f \in Nat, NEW j \in Nat, IsPlace(names, f, j)
  PROVE  LET counted == Total(names, f - 1) + (j - 1)
             all == Total(names, Len(names))
         IN  /\ Passed(names, f, j) \in Seq(Pointers)
             /\ IsPrefix(Passed(names, f, j), CompleteRecordsOf(names))
             /\ counted \in Nat /\ all \in Nat /\ counted <= all
             /\ counted = all => Passed(names, f, j) = CompleteRecordsOf(names)
<1>1. PICK n \in Nat : n = Len(names)
  BY ListsType
<1>2. CompleteRecordsOf(names) = UpTo(names, n)
  BY <1>1, CompleteIsUpTo
<1>3. CASE f = n + 1 /\ j = 1
  <2>1. f - 1 = n /\ ~(f <= n) /\ j - 1 = 0
    BY <1>3
  <2>2. UpTo(names, n) \in Seq(Pointers) /\ Total(names, n) \in Nat
    BY <1>1, TotalType
  <2>3. Passed(names, f, j) = UpTo(names, n) \o << >>
    BY <1>1, <2>1 DEF Passed
  <2>4. UpTo(names, n) \o << >> = UpTo(names, n) /\ << >> \in Seq(Pointers)
    BY <2>2
  <2>5. IsPrefix(UpTo(names, n), UpTo(names, n) \o << >>)
    BY <2>2, <2>4, FirstIsPrefix
  <2>6. Total(names, f - 1) + (j - 1) = Total(names, n)
    BY <2>1, <2>2
  <2> QED
    BY <1>1, <1>2, <2>2, <2>3, <2>4, <2>5, <2>6
<1>4. CASE f \in 1 .. n /\ j \in 1 .. RecordsIn(names[f]) + 1
  <2>1. PICK g \in Nat : g = f - 1 /\ g + 1 = f /\ g < n /\ f \in 0 .. n /\ g \in 0 .. n
    BY <1>4
  <2>2. /\ UpTo(names, g) \in Seq(Pointers) /\ names[f] \in DOMAIN Files
        /\ UpTo(names, f) = UpTo(names, g) \o ListOf(names[f])
        /\ Total(names, f) = Total(names, g) + RecordsIn(names[f])
    BY <1>1, <2>1, UpToNext
  <2>3. PICK m \in Nat : m = j - 1 /\ m \in 0 .. RecordsIn(names[f]) /\ RecordsIn(names[f]) \in Nat
    BY <1>4, <2>2, ListType
  <2>4. PICK first \in Seq(Pointers), rest \in Seq(Pointers) :
            first = FirstOf(names[f], m) /\ ListOf(names[f]) = first \o rest
    BY <2>2, <2>3, FirstOfNext
  <2>5. Passed(names, f, j) = UpTo(names, g) \o first
    BY <1>1, <1>4, <2>1, <2>3, <2>4 DEF Passed
  <2>6. Passed(names, f, j) \in Seq(Pointers)
    BY <2>2, <2>5, ConcatProperties
  <2>7. GoesOn(names, f, n)
    BY <1>1, <2>1, FilesGoOn
  <2>8. PICK more \in Seq(Pointers) : UpTo(names, n) = UpTo(names, f) \o more
    BY <2>7 DEF GoesOn
  <2>9. UpTo(names, n) = Passed(names, f, j) \o (rest \o more) /\ rest \o more \in Seq(Pointers)
    <3>1. (UpTo(names, g) \o (first \o rest)) \o more = (UpTo(names, g) \o first) \o (rest \o more)
      <4>1. PICK before \in Seq(Pointers) : before = UpTo(names, g)
        BY <2>2
      <4>2. before \o (first \o rest) = (before \o first) \o rest
        BY SMTT(30)
      <4>3. before \o first \in Seq(Pointers)
        BY ConcatProperties
      <4>4. ((before \o first) \o rest) \o more = (before \o first) \o (rest \o more)
        BY <4>3
      <4> QED
        BY Zenon, <4>1, <4>2, <4>4
    <3>2. rest \o more \in Seq(Pointers)
      BY ConcatProperties
    <3> QED
      BY <2>2, <2>4, <2>5, <2>8, <3>1, <3>2
  <2>10. IsPrefix(Passed(names, f, j), UpTo(names, n))
    BY <2>6, <2>9, FirstIsPrefix
  <2>11. /\ Total(names, f) \in Nat /\ Total(names, n) \in Nat /\ Total(names, g) \in Nat
         /\ Total(names, f) <= Total(names, n)
    BY <1>1, <2>1, <2>7, TotalType DEF GoesOn
  <2>12. /\ Total(names, f - 1) + (j - 1) = Total(names, g) + m
         /\ Total(names, g) + m \in Nat /\ Total(names, g) + m <= Total(names, n)
    BY SMTT(30), <2>1, <2>2, <2>3, <2>11
  <2>13. ASSUME Total(names, g) + m = Total(names, n)
         PROVE  Passed(names, f, j) = UpTo(names, n)
    <3>1. m = RecordsIn(names[f]) /\ Total(names, f) = Total(names, n)
      <4>1. PICK records \in Nat, before \in Nat, upto \in Nat, all \in Nat :
                /\ records = RecordsIn(names[f]) /\ before = Total(names, g)
                /\ upto = Total(names, f) /\ all = Total(names, n)
        BY <2>3, <2>11
      <4>2. upto = before + records /\ upto <= all /\ m \in 0 .. records /\ before + m = all
        BY <2>2, <2>3, <2>11, <2>13, <4>1
      <4>3. m = records /\ upto = all
        BY <4>2
      <4> QED
        BY <4>1, <4>3
    <3>2. first = ListOf(names[f])
      BY <2>2, <2>4, <3>1, FirstOfNext
    <3>3. UpTo(names, n) = UpTo(names, f)
      BY <2>7, <3>1 DEF GoesOn
    <3> QED
      BY <2>2, <2>5, <3>2, <3>3
  <2> QED
    BY <1>1, <1>2, <2>6, <2>10, <2>11, <2>12, <2>13
<1> QED
  BY <1>1, <1>3, <1>4 DEF IsPlace

\* At the end of a file the scan stands at the beginning of the next.
LEMMA PassedFile ==
  ASSUME NEW names \in Names, NEW f \in 1 .. Len(names)
  PROVE  LET n == RecordsIn(names[f]) IN
         /\ Passed(names, f, n + 1) = Passed(names, f + 1, 1)
         /\ Total(names, f - 1) + n = Total(names, f) /\ Total(names, f) \in Nat
         /\ IsPlace(names, f + 1, 1)
<1>1. PICK len \in Nat : len = Len(names) /\ f \in 1 .. len /\ f \in Nat
  BY ListsType
<1>2. PICK g \in Nat : g = f - 1 /\ g + 1 = f /\ g < len
  BY <1>1
<1>3. /\ UpTo(names, g) \in Seq(Pointers) /\ names[f] \in DOMAIN Files
      /\ UpTo(names, f) = UpTo(names, g) \o ListOf(names[f])
      /\ Total(names, f) = Total(names, g) + RecordsIn(names[f])
  BY <1>1, <1>2, UpToNext
<1>4. PICK n \in Nat : n = RecordsIn(names[f]) /\ n + 1 - 1 = n
  BY <1>3, ListType
<1>5. Passed(names, f, n + 1) = UpTo(names, f)
  <2>1. FirstOf(names[f], n) = ListOf(names[f])
    BY <1>3, <1>4, FirstOfNext
  <2>2. PICK j : j = n + 1 /\ j - 1 = n
    BY <1>4
  <2>3. Passed(names, f, j) = UpTo(names, g) \o FirstOf(names[f], n)
    BY <1>1, <1>2, <2>2 DEF Passed
  <2> QED
    BY <1>3, <2>1, <2>2, <2>3
<1>6. UpTo(names, f) \in Seq(Pointers) /\ Total(names, f) \in Nat
  BY <1>1, TotalType
<1>7. UpTo(names, f) \o << >> = UpTo(names, f)
  BY <1>6
<1>8. Passed(names, f + 1, 1) = UpTo(names, f) \o << >> /\ IsPlace(names, f + 1, 1)
  <2>1. PICK h \in Nat : h = f + 1 /\ h - 1 = f /\ 1 - 1 = 0 /\ h \in 1 .. len + 1
    BY <1>1
  <2>2. CASE h <= len
    <3>1. f < Len(names)
      BY <1>1, <2>1, <2>2
    <3>2. names[h] \in DOMAIN Files
      BY <1>1, <2>1, <3>1, UpToNext
    <3>3. FirstOf(names[h], 0) = << >> /\ RecordsIn(names[h]) \in Nat
      BY <3>2, FirstOfNext, ListType
    <3>4. Passed(names, h, 1) = UpTo(names, f) \o << >>
      BY <1>1, <2>1, <2>2, <3>3 DEF Passed
    <3>5. IsPlace(names, h, 1)
      BY <1>1, <2>1, <2>2, <3>3 DEF IsPlace
    <3> QED
      BY <2>1, <3>4, <3>5
  <2>3. CASE ~(h <= len)
    <3>1. Passed(names, h, 1) = UpTo(names, f) \o << >>
      BY <1>1, <2>1, <2>3 DEF Passed
    <3>2. IsPlace(names, h, 1)
      BY <1>1, <2>1, <2>3 DEF IsPlace
    <3> QED
      BY <2>1, <3>1, <3>2
  <2> QED
    BY <2>2, <2>3
<1> QED
  BY <1>2, <1>3, <1>4, <1>5, <1>6, <1>7, <1>8

\* One record on, it has been passed, and pushed if it is complete.
LEMMA PassedRecord ==
  ASSUME NEW names \in Names, NEW f \in 1 .. Len(names), NEW j \in 1 .. RecordsIn(names[f])
  PROVE  LET file == Files[names[f]] IN
         /\ Passed(names, f, j) \in Seq(Pointers) /\ IsPlace(names, f, j + 1)
         /\ <<names[f], Start(file, j)>> \in Pointers
         /\ Passed(names, f, j + 1) =
                IF Start(file, j + 1) <= file.size
                  THEN Append(Passed(names, f, j), <<names[f], Start(file, j)>>)
                  ELSE Passed(names, f, j)
<1>1. PICK len \in Nat : len = Len(names) /\ f \in 1 .. len /\ f \in Nat
  BY ListsType
<1>2. PICK g \in Nat : g = f - 1 /\ g + 1 = f /\ g < len
  BY <1>1
<1>3. UpTo(names, g) \in Seq(Pointers) /\ names[f] \in DOMAIN Files
  BY <1>1, <1>2, UpToNext
<1>4. PICK n \in Nat : n = RecordsIn(names[f]) /\ j \in 1 .. n /\ DOMAIN Files[names[f]].records = 1 .. n
  BY <1>3, FilesAssumption, LenProperties DEF FilesOK, RecordsIn
<1>5. PICK m \in Nat : m = j - 1 /\ m \in 0 .. n /\ j + 1 - 1 = j
  BY <1>4
<1>6. PICK first \in Seq(Pointers) : first = FirstOf(names[f], m)
  BY <1>3, <1>4, <1>5, FirstOfNext
<1>7. PICK p \in Pointers : p = <<names[f], Start(Files[names[f]], j)>>
  <2>1. PICK name \in DOMAIN Files : name = names[f] /\ j \in DOMAIN Files[name].records
    BY <1>3, <1>4
  <2>2. <<name, Start(Files[name], j)>> \in Pointers
    BY <2>1 DEF Pointers
  <2> QED
    BY <2>1, <2>2
<1>8. FirstOf(names[f], j) = IF Start(Files[names[f]], j + 1) <= Files[names[f]].size
                               THEN Append(first, p) ELSE first
  BY <1>3, <1>4, <1>5, <1>6, <1>7, FirstOfNext
<1>9. Passed(names, f, j) = UpTo(names, g) \o first
  BY <1>1, <1>2, <1>5, <1>6 DEF Passed
<1>10. Passed(names, f, j + 1) = UpTo(names, g) \o FirstOf(names[f], j)
  BY <1>1, <1>2, <1>5 DEF Passed
<1>11. UpTo(names, g) \o Append(first, p) = Append(UpTo(names, g) \o first, p)
  BY <1>3, ConcatAppend
<1>12. IsPlace(names, f, j + 1)
  BY <1>1, <1>4 DEF IsPlace
<1>13. UpTo(names, g) \o first \in Seq(Pointers)
  BY <1>3, ConcatProperties
<1> QED
  BY <1>7, <1>8, <1>9, <1>10, <1>11, <1>12, <1>13

\* It stands at a record: what has been pushed, and what is about to be, are the
\* complete ones among the records that have been counted.  Once the reader has been
\* told to finish, the file and the position may go on without it.
ScanAt(f, j) ==
    /\ IsPlace(mapped_files, f, j)
    /\ output \o pending = Passed(mapped_files, f, j)
    /\ entries_processed = Total(mapped_files, f - 1) + (j - 1)
    /\ ~done => /\ f = fno
                /\ f <= Len(mapped_files) => pos = Start(Files[mapped_files[f]], j)

ScanInv ==
    /\ mapped_files \in Names /\ fno \in 1 .. Len(mapped_files) + 1
    /\ output \in Seq(Pointers) /\ pending \in Seq(Pointers) /\ Len(pending) <= 1
    /\ pc \in {"test", "push", "drain", "exited"}
    /\ pc # "push" => pending = << >>
    /\ pc = "drain" => fno = Len(mapped_files) + 1
    /\ \E f, j \in Nat : ScanAt(f, j)

\* Before the reader runs, with any files mapped.
LEMMA ScanInvInit ==
  ASSUME mapped_files \in Names, pc = "test", entries_processed = 0, pending = << >>,
         output = << >>, fno = 1, pos = 0
  PROVE  ScanInv
<1>1. PICK n \in Nat : n = Len(mapped_files)
  BY ListsType
<1>2. /\ Passed(mapped_files, 1, 1) = << >> /\ Total(mapped_files, 1 - 1) = 0
      /\ IsPlace(mapped_files, 1, 1)
  BY PassedNone
<1>3. 1 <= n => pos = Start(Files[mapped_files[1]], 1)
  <2> SUFFICES ASSUME 1 <= n PROVE pos = Start(Files[mapped_files[1]], 1)
    OBVIOUS
  <2>1. mapped_files[1] \in DOMAIN Files
    BY <1>1, ElementOfSeq, ListsType DEF Names
  <2> QED
    BY <2>1, StartNext
<1>4. output \o pending = << >>
  OBVIOUS
<1>5. ScanAt(1, 1)
  BY <1>1, <1>2, <1>3, <1>4 DEF ScanAt
<1>6. << >> \in Seq(Pointers) /\ Len(<< >>) = 0
  OBVIOUS
<1> QED
  BY <1>1, <1>5, <1>6 DEF ScanInv

\* What the next task, or main with Finish(), does to the reader.
LEMMA ScanInvOthers ==
  ASSUME ScanInv, UNCHANGED <<pc, entries_processed, pending, output, readerVars>>, done => done'
  PROVE  ScanInv'
<1> USE DEF ScanInv, readerVars
<1>1. PICK f \in Nat, j \in Nat : ScanAt(f, j)
  OBVIOUS
<1>2. ScanAt(f, j)'
  BY <1>1 DEF ScanAt
<1> QED
  BY <1>2

\* One turn of the loop finds the header where the scan stands, and pushes the record
\* if it is complete.
LEMMA ReadKeeps == ScanInv /\ Read => ScanInv'
<1> SUFFICES ASSUME ScanInv, Read PROVE ScanInv'
  OBVIOUS
<1> USE DEF ScanInv
<1> DEFINE names == mapped_files
<1>1. PICK f \in Nat, j \in Nat : ScanAt(f, j)
  OBVIOUS
<1>2. /\ pc = "test" /\ fno <= Len(names) /\ pos < File.size /\ ~done
      /\ pc' = "push" /\ UNCHANGED <<done, output, mapped_files, fno>>
      /\ entries_processed' = entries_processed + 1
  BY DEF Read, InFile
<1>3. PICK n \in Nat : n = Len(names)
  BY ListsType
<1>4. /\ f = fno /\ f \in 1 .. n /\ j \in 1 .. RecordsIn(names[f]) + 1
      /\ pos = Start(Files[names[f]], j)
  BY <1>1, <1>2, <1>3 DEF ScanAt, IsPlace
<1>5. PICK name \in DOMAIN Files : name = names[f] /\ File = Files[name]
  BY <1>3, <1>4, ElementOfSeq, ListsType DEF Names, File
<1>6. RecordsIn(name) \in Nat
  BY ListType
<1>7. j \in 1 .. RecordsIn(name)
  BY <1>2, <1>4, <1>5, <1>6, CompleteAreFirst DEF RecordsIn
<1>8. HeaderLen(File, pos) = Files[name].records[j].eventLen
  BY <1>4, <1>5, <1>7, HeaderAtStart DEF RecordsIn
<1>9. pos + HeaderLen(File, pos) = Start(Files[name], j + 1)
  BY <1>4, <1>5, <1>7, <1>8, StartNext DEF RecordsIn
<1>10. /\ pos' = Start(Files[name], j + 1)
       /\ pending' = IF Start(Files[name], j + 1) <= Files[name].size
                       THEN <<<<name, Start(Files[name], j)>>>> ELSE << >>
  BY <1>4, <1>5, <1>9 DEF Read, Fits
<1>11. PICK p \in Pointers : p = <<name, Start(Files[name], j)>>
  BY <1>3, <1>4, <1>5, <1>7, PassedRecord
<1>12. /\ Passed(names, f, j + 1) = IF Start(Files[name], j + 1) <= Files[name].size
                                       THEN Append(Passed(names, f, j), p)
                                       ELSE Passed(names, f, j)
       /\ IsPlace(names, f, j + 1)
  BY <1>3, <1>4, <1>5, <1>7, <1>11, PassedRecord
<1>13. output = Passed(names, f, j)
  <2>1. output \o << >> = output /\ pending = << >>
    BY <1>2
  <2> QED
    BY <1>1, <2>1 DEF ScanAt
<1>14. /\ output' \o pending' = Passed(names, f, j + 1)
       /\ pending' \in Seq(Pointers) /\ Len(pending') <= 1
  <2>1. CASE Start(Files[name], j + 1) <= Files[name].size
    <3>1. pending' = <<p>>
      BY <1>10, <1>11, <2>1
    <3>2. output \o <<p>> = Append(output, p) /\ <<p>> \in Seq(Pointers) /\ Len(<<p>>) = 1
      OBVIOUS
    <3> QED
      BY SMTT(30), <1>2, <1>12, <1>13, <2>1, <3>1, <3>2
  <2>2. CASE ~(Start(Files[name], j + 1) <= Files[name].size)
    <3>1. pending' = << >>
      BY <1>10, <2>2
    <3>2. output \o << >> = output /\ << >> \in Seq(Pointers) /\ Len(<< >>) = 0
      OBVIOUS
    <3> QED
      BY <1>2, <1>12, <1>13, <2>2, <3>1, <3>2
  <2> QED
    BY <2>1, <2>2
<1>15. entries_processed' = Total(names, f - 1) + (j + 1 - 1)
  <2>1. entries_processed = Total(names, f - 1) + (j - 1)
    BY <1>1 DEF ScanAt
  <2>2. Total(names, f - 1) \in Nat
    <3>1. f - 1 \in 0 .. n
      BY <1>4
    <3> QED
      BY <1>3, <3>1, TotalType
  <2> QED
    BY <1>2, <2>1, <2>2
<1>16. ScanAt(f, j + 1)'
  <2>1. IsPlace(names', f, j + 1) /\ output' \o pending' = Passed(names', f, j + 1)
    BY <1>2, <1>12, <1>14
  <2>2. entries_processed' = Total(names', f - 1) + (j + 1 - 1)
    BY <1>2, <1>15
  <2>3. f = fno' /\ pos' = Start(Files[names'[f]], j + 1)
    BY <1>2, <1>4, <1>5, <1>10
  <2> QED
    BY <2>1, <2>2, <2>3 DEF ScanAt
<1>17. j + 1 \in Nat
  OBVIOUS
<1> QED
  BY <1>2, <1>14, <1>16, <1>17

\* At the end of a file nothing of it is left, unless the reader was told to finish.
LEMMA NextFileKeeps == ScanInv /\ NextFile => ScanInv'
<1> SUFFICES ASSUME ScanInv, NextFile PROVE ScanInv'
  OBVIOUS
<1> USE DEF ScanInv
<1> DEFINE names == mapped_files
<1>1. PICK f \in Nat, j \in Nat : ScanAt(f, j)
  OBVIOUS
<1>2. /\ pc = "test" /\ fno <= Len(names) /\ (pos >= File.size \/ done)
      /\ fno' = fno + 1 /\ pos' = 0
      /\ UNCHANGED <<pc, done, entries_processed, pending, output, mapped_files>>
  BY DEF NextFile, InFile
<1>3. PICK n \in Nat : n = Len(names)
  BY ListsType
<1>4. fno' \in 1 .. n + 1
  BY <1>2, <1>3
<1>5. CASE done
  <2>1. ScanAt(f, j)'
    BY <1>1, <1>2, <1>5 DEF ScanAt
  <2> QED
    BY <1>2, <1>3, <1>4, <2>1
<1>6. CASE ~done
  <2>1. /\ f = fno /\ f \in 1 .. n /\ j \in 1 .. RecordsIn(names[f]) + 1
        /\ pos = Start(Files[names[f]], j)
    BY <1>1, <1>2, <1>3, <1>6 DEF ScanAt, IsPlace
  <2>2. PICK name \in DOMAIN Files : name = names[f] /\ File = Files[name]
    BY <1>3, <2>1, ElementOfSeq, ListsType DEF Names, File
  <2>3. PICK m \in Nat : m = RecordsIn(name)
    BY ListType
  <2>4. j = m + 1
    <3>1. (Start(Files[name], j) < Files[name].size) <=> j <= m
      BY <2>1, <2>2, <2>3, CompleteAreFirst DEF RecordsIn
    <3>2. Start(Files[name], j) \in Nat /\ Files[name].size \in Nat
      <4>1. Start(Files[name], j) \in Nat
        BY <2>1, <2>2, <2>3, StartsIncrease DEF RecordsIn
      <4> QED
        BY <4>1, SizeType
    <3>3. ~(Start(Files[name], j) < Files[name].size)
      BY <1>2, <1>6, <2>1, <2>2, <3>2
    <3> QED
      BY <2>1, <2>2, <2>3, <3>1, <3>3
  <2>5. /\ Passed(names, f, m + 1) = Passed(names, f + 1, 1)
        /\ Total(names, f - 1) + m = Total(names, f) /\ Total(names, f) \in Nat
        /\ IsPlace(names, f + 1, 1)
    BY <1>3, <2>1, <2>2, <2>3, PassedFile
  <2>6. f + 1 - 1 = f /\ 1 - 1 = 0 /\ m + 1 - 1 = m
    BY <2>1
  <2>7. f + 1 <= n => pos' = Start(Files[names[f + 1]], 1)
    <3> SUFFICES ASSUME f + 1 <= n PROVE pos' = Start(Files[names[f + 1]], 1)
      OBVIOUS
    <3>1. names[f + 1] \in DOMAIN Files
      BY <1>3, <2>1, ElementOfSeq, ListsType DEF Names
    <3> QED
      BY <1>2, <3>1, StartNext
  <2>8. output' \o pending' = Passed(names, f + 1, 1)
    BY <1>1, <1>2, <2>4, <2>5 DEF ScanAt
  <2>9. entries_processed' = Total(names, f + 1 - 1) + (1 - 1)
    BY <1>1, <1>2, <2>4, <2>5, <2>6 DEF ScanAt
  <2>10. ScanAt(f + 1, 1)'
    BY SMTT(30), <1>2, <1>3, <2>1, <2>5, <2>7, <2>8, <2>9 DEF ScanAt
  <2>11. f + 1 \in Nat /\ 1 \in Nat
    OBVIOUS
  <2> QED
    BY <1>2, <1>3, <1>4, <2>10, <2>11
<1> QED
  BY <1>5, <1>6

\* Every step of the reader keeps it.
LEMMA ScanInvRun == ScanInv /\ Run => ScanInv'
<1> SUFFICES ASSUME ScanInv, Run PROVE ScanInv'
  OBVIOUS
<1>1. PICK f \in Nat, j \in Nat : ScanAt(f, j)
  BY DEF ScanInv
<1>2. CASE AllFilesRead
  <2>1. ScanAt(f, j)'
    BY <1>1, <1>2 DEF ScanAt, AllFilesRead, readerVars
  <2>2. fno = Len(mapped_files) + 1
    BY <1>2, ListsType DEF ScanInv, AllFilesRead, InFile
  <2> QED
    BY <1>2, <2>1, <2>2 DEF ScanInv, AllFilesRead, readerVars
<1>3. CASE ExitDone
  <2>1. ScanAt(f, j)'
    BY <1>1, <1>3 DEF ScanAt, ExitDone, readerVars
  <2> QED
    BY <1>3, <2>1 DEF ScanInv, ExitDone, readerVars
<1>4. CASE Push /\ UNCHANGED readerVars
  <2>1. /\ pending # << >> /\ output' = Append(output, Head(pending))
        /\ pending' = Tail(pending) /\ pc = "push"
        /\ UNCHANGED <<pc, done, entries_processed, readerVars>>
    BY <1>4 DEF Push, ScanInv
  <2>2. output \in Seq(Pointers) /\ pending \in Seq(Pointers)
    BY DEF ScanInv
  <2>3. Head(pending) \in Pointers /\ Tail(pending) \in Seq(Pointers) /\ Len(Tail(pending)) <= 1
    <3>1. Len(pending) <= 1 /\ Len(pending) \in Nat
      BY LenProperties DEF ScanInv
    <3>2. Head(pending) \in Pointers /\ Tail(pending) \in Seq(Pointers) /\ Len(Tail(pending)) = Len(pending) - 1
      BY <2>1, <2>2, HeadTailProperties
    <3> QED
      BY <3>1, <3>2
  <2>4. output' \o pending' = output \o pending
    BY <2>1, <2>2, HeadMoves
  <2>5. ScanAt(f, j)'
    BY <1>1, <2>1, <2>4 DEF ScanAt, readerVars
  <2>6. output' \in Seq(Pointers)
    BY <2>1, <2>2, <2>3, AppendProperties
  <2> QED
    BY <2>1, <2>3, <2>5, <2>6 DEF ScanInv, readerVars
<1>5. CASE Handled /\ UNCHANGED readerVars
  <2>1. ScanAt(f, j)'
    BY <1>1, <1>5 DEF ScanAt, Handled, readerVars
  <2> QED
    BY <1>5, <2>1 DEF ScanInv, Handled, readerVars
<1> QED
  BY <1>2, <1>3, <1>4, <1>5, ReadKeeps, NextFileKeeps DEF Run
-----------------------------------------------------------------------------
(***************************************************************************)
(* What follows from it                                                    *)
(***************************************************************************)
\* The bound of the counter, and its value when the scan has come to the end.
LEMMA RecordsCounted ==
  ASSUME ScanInv
  PROVE  /\ RecordsOfAllFiles \in Nat /\ entries_processed \in 0 .. RecordsOfAllFiles
         /\ ~done /\ fno > Len(mapped_files) => entries_processed = RecordsOfAllFiles
<1>1. PICK n \in Nat : n = Len(mapped_files) /\ mapped_files \in Names
  BY ListsType DEF ScanInv
<1>2. PICK f \in Nat, j \in Nat : ScanAt(f, j)
  BY DEF ScanInv
<1>3. RecordsOfAllFiles = Total(mapped_files, n)
  BY <1>1, AllIsTotal
<1>4. LET counted == Total(mapped_files, f - 1) + (j - 1)
          all == Total(mapped_files, Len(mapped_files))
      IN  counted \in Nat /\ all \in Nat /\ counted <= all
  BY <1>1, <1>2, PassedIsPrefix DEF ScanAt
<1>5. ASSUME ~done, fno > Len(mapped_files) PROVE entries_processed = RecordsOfAllFiles
  <2>1. f = n + 1 /\ j = 1
    BY <1>1, <1>2, <1>5 DEF ScanAt, IsPlace
  <2>2. f - 1 = n /\ j - 1 = 0
    BY <2>1
  <2> QED
    BY <1>1, <1>2, <1>3, <1>4, <2>2 DEF ScanAt
<1> QED
  BY <1>1, <1>2, <1>3, <1>4, <1>5 DEF ScanAt

\* What the reader promises.
LEMMA ScanReadsTheRecords == ScanInv => ReadsTheRecords
<1> SUFFICES ASSUME ScanInv PROVE ReadsTheRecords
  OBVIOUS
<1>1. PICK n \in Nat : n = Len(mapped_files) /\ mapped_files \in Names
  BY ListsType DEF ScanInv
<1>2. PICK f \in Nat, j \in Nat : ScanAt(f, j)
  BY DEF ScanInv
<1>3. LET counted == Total(mapped_files, f - 1) + (j - 1)
          all == Total(mapped_files, Len(mapped_files))
      IN  /\ IsPrefix(Passed(mapped_files, f, j), CompleteRecordsOf(mapped_files))
          /\ counted = all => Passed(mapped_files, f, j) = CompleteRecordsOf(mapped_files)
  BY <1>1, <1>2, PassedIsPrefix DEF ScanAt
<1>4. RecordsOfAllFiles = Total(mapped_files, n)
  BY <1>1, AllIsTotal
<1>5. pc = "exited" => output \o pending = output
  BY DEF ScanInv
<1> QED
  BY <1>1, <1>2, <1>3, <1>4, <1>5 DEF ScanAt, ReadsTheRecords, CompleteRecords

\* No record of a file is pushed twice, nor is one of another file.
LEMMA ListDistinct ==
  ASSUME NEW f \in DOMAIN Files
  PROVE  /\ IsInjective(ListOf(f))
         /\ \A p \in ToSet(ListOf(f)) : p[1] = f
<1>1. PICK n \in Nat, c \in Nat : c \in 0 .. n /\ n = RecordsIn(f) /\ c = Cardinality(Completed(f))
  BY ListType
<1> DEFINE start(i) == Start(Files[f], i)
<1>2. PICK list : list = ListOf(f)
  OBVIOUS
<1>3. DOMAIN list = 1 .. c /\ \A i \in 1 .. c : list[i] = <<f, start(i)>>
  BY <1>1, <1>2 DEF ListOf
<1>4. \A j \in 1 .. c : start(j) \in Nat /\ \A i \in 1 .. j - 1 : start(i) < start(j)
  BY <1>1, StartsIncrease DEF RecordsIn
<1> HIDE DEF start
<1>5. ASSUME NEW i \in 1 .. c, NEW j \in 1 .. c, list[i] = list[j] PROVE i = j
  <2>1. start(i) = start(j)
    BY <1>3, <1>5
  <2>2. /\ start(i) \in Nat /\ (j \in 1 .. i - 1 => start(j) < start(i))
        /\ start(j) \in Nat /\ (i \in 1 .. j - 1 => start(i) < start(j))
    BY <1>4
  <2> QED
    BY <2>1, <2>2
<1>6. IsInjective(list)
  BY <1>3, <1>5 DEF IsInjective
<1>7. \A p \in ToSet(list) : p[1] = f
  BY <1>3 DEF ToSet
<1> QED
  BY <1>2, <1>6, <1>7

\* A list of files that names none of them twice has no record twice.
LEMMA CompleteAreDistinct ==
  ASSUME NEW names \in Names, IsInjective(names)
  PROVE  CompleteRecordsOf(names) \in Seq(Pointers) /\ IsInjective(CompleteRecordsOf(names))
<1>1. PICK n \in Nat : n = Len(names) /\ DOMAIN names = 1 .. n
  BY ListsType
<1> DEFINE Distinct(k) == /\ UpTo(names, k) \in Seq(Pointers) /\ IsInjective(UpTo(names, k))
                          /\ \A p \in ToSet(UpTo(names, k)) : \E i \in 1 .. k : p[1] = names[i]
           good == {k \in Nat : k <= n => Distinct(k)}
<1>2. 0 \in good
  <2>1. UpTo(names, 0) = << >>
    BY UpToNone
  <2>2. << >> \in Seq(Pointers) /\ IsInjective(<< >>) /\ ToSet(<< >>) = {}
    BY DEF IsInjective, ToSet
  <2> QED
    BY <2>1, <2>2
<1>3. ASSUME NEW k \in Nat, k \in good PROVE k + 1 \in good
  <2> SUFFICES ASSUME k + 1 <= n PROVE Distinct(k + 1)
    BY <1>3
  <2>1. k < Len(names) /\ k <= n /\ k + 1 \in 1 .. n
    BY <1>1
  <2>2. Distinct(k)
    BY <1>3, <2>1
  <2>3. PICK before \in Seq(Pointers) : before = UpTo(names, k)
    BY <2>2
  <2>4. PICK name \in DOMAIN Files : /\ name = names[k + 1]
                                     /\ UpTo(names, k + 1) = before \o ListOf(name)
    BY <2>1, <2>3, UpToNext
  <2>5. PICK list \in Seq(Pointers) : list = ListOf(name)
    BY <2>4, ListType
  <2>6. IsInjective(list) /\ \A p \in ToSet(list) : p[1] = name
    BY <2>5, ListDistinct
  <2>7. IsInjective(before) /\ \A p \in ToSet(before) : \E i \in 1 .. k : p[1] = names[i]
    BY <2>2, <2>3
  <2>8. \A i \in 1 .. k : names[i] # name
    BY <1>1, <2>1, <2>4 DEF IsInjective
  <2>9. ToSet(before) \cap ToSet(list) = {}
    BY <2>6, <2>7, <2>8
  <2>10. IsInjective(before \o list)
    BY <2>6, <2>7, <2>9, ConcatInjective
  <2>11. ToSet(before \o list) = ToSet(before) \cup ToSet(list) /\ before \o list \in Seq(Pointers)
    BY ToSetConcat, ConcatProperties
  <2>12. ASSUME NEW p \in ToSet(before \o list) PROVE \E i \in 1 .. k + 1 : p[1] = names[i]
    <3>1. p \in ToSet(before) \/ p \in ToSet(list)
      BY <2>11
    <3>2. \A i \in 1 .. k : i \in 1 .. k + 1
      OBVIOUS
    <3>3. k + 1 \in 1 .. k + 1
      OBVIOUS
    <3> QED
      BY Zenon, <2>4, <2>6, <2>7, <3>1, <3>2, <3>3
  <2>13. UpTo(names, k + 1) = before \o list
    BY <2>4, <2>5
  <2> QED
    BY <2>10, <2>11, <2>12, <2>13
<1>4. n \in good
  <2> HIDE DEF good
  <2> QED
    BY <1>2, <1>3, SetInduction
<1>5. Distinct(n)
  BY <1>4
<1> QED
  BY <1>1, <1>5, CompleteIsUpTo

\* What has been pushed are the first of the complete records.
LEMMA PushedAreFirst ==
  ASSUME ScanInv
  PROVE  /\ CompleteRecords \in Seq(Pointers)
         /\ \A n \in 0 .. Len(output) : /\ n \in 0 .. Len(CompleteRecords)
                                        /\ SubSeq(output, 1, n) = SubSeq(CompleteRecords, 1, n)
<1>1. CompleteRecords \in Seq(Pointers)
  <2>1. PICK n \in Nat : n = Len(mapped_files) /\ n \in 0 .. n
    BY ListsType DEF ScanInv
  <2>2. UpTo(mapped_files, n) \in Seq(Pointers)
    BY <2>1, TotalType DEF ScanInv
  <2> QED
    BY <2>1, <2>2, CompleteIsUpTo DEF ScanInv, CompleteRecords
<1>2. PICK s \in Seq(Pointers), t \in Seq(Pointers) : s = output /\ t = pending
  BY DEF ScanInv
<1>3. PICK c \in Seq(Pointers) : c = CompleteRecords
  BY <1>1
<1>4. IsPrefix(s \o t, c)
  BY <1>2, <1>3, ScanReadsTheRecords DEF ReadsTheRecords
<1>5. PICK m \in Nat, l \in Nat : m = Len(s) /\ l = Len(c)
  BY LenProperties
<1>6. m <= l /\ \A i \in 1 .. m : s[i] = c[i]
  <2>1. PICK u \in Seq(Pointers) : u = s \o t /\ Len(u) >= m /\ \A i \in 1 .. m : u[i] = s[i]
    <3>1. /\ s \o t \in Seq(Pointers) /\ Len(s \o t) = Len(s) + Len(t)
          /\ \A i \in 1 .. Len(s) : (s \o t)[i] = s[i]
      BY Zenon, ConcatElements
    <3>2. Len(s) + Len(t) >= m
      BY <1>5, LenProperties
    <3> QED
      BY <1>5, <3>1, <3>2
  <2>2. Len(u) <= Len(c) /\ SubSeq(u, 1, Len(u)) = SubSeq(c, 1, Len(u))
    BY <1>4, <2>1 DEF IsPrefix
  <2>3. PICK k \in Nat : k = Len(u) /\ k >= m /\ k <= l
    BY <1>5, <2>1, <2>2, LenProperties
  <2>4. \A i \in 1 .. k : SubSeq(u, 1, k)[i] = u[i] /\ SubSeq(c, 1, k)[i] = c[i]
    BY <1>5, <2>3, PrefixProperties
  <2>5. SubSeq(u, 1, k) = SubSeq(c, 1, k)
    BY <2>2, <2>3
  <2>6. \A i \in 1 .. k : u[i] = c[i]
    BY Zenon, <2>4, <2>5
  <2>7. m <= l /\ \A i \in 1 .. m : i \in 1 .. k
    BY <2>3
  <2> QED
    BY Zenon, <2>1, <2>6, <2>7
<1>7. ASSUME NEW n \in 0 .. m PROVE SubSeq(s, 1, n) = SubSeq(c, 1, n) /\ n \in 0 .. l
  <2>1. n \in 0 .. Len(s) /\ n \in 0 .. Len(c)
    BY <1>5, <1>6
  <2>2. /\ SubSeq(s, 1, n) \in Seq(Pointers) /\ Len(SubSeq(s, 1, n)) = n
        /\ \A i \in 1 .. n : SubSeq(s, 1, n)[i] = s[i]
    BY Zenon, <2>1, PrefixProperties
  <2>3. /\ SubSeq(c, 1, n) \in Seq(Pointers) /\ Len(SubSeq(c, 1, n)) = n
        /\ \A i \in 1 .. n : SubSeq(c, 1, n)[i] = c[i]
    BY Zenon, <2>1, PrefixProperties
  <2>4. \A i \in 1 .. n : s[i] = c[i]
    BY <1>6
  <2>5. PICK v \in Seq(Pointers), w \in Seq(Pointers) :
            v = SubSeq(s, 1, n) /\ w = SubSeq(c, 1, n)
    BY <2>2, <2>3
  <2>6. Len(v) = Len(w) /\ \A i \in 1 .. Len(v) : v[i] = w[i]
    BY <2>2, <2>3, <2>4, <2>5
  <2>7. v = w
    BY <2>6, SeqEqual
  <2> QED
    BY <1>5, <2>1, <2>5, <2>7
<1> QED
  <2>1. output = s /\ CompleteRecords = c
    BY <1>2, <1>3
  <2>2. 0 .. Len(output) = 0 .. m /\ 0 .. Len(CompleteRecords) = 0 .. l
    BY Zenon, <1>5, <2>1
  <2> QED
    BY Zenon, <1>1, <1>7, <2>1, <2>2
=============================================================================
