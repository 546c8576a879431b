--------------------------- MODULE GroupingProofs ---------------------------
(***************************************************************************)
(* Proofs about Buffer and Splitter, joined in Grouping, for every size    *)
(* of the buffer, gap, capacity of the queues and number of hits: the      *)
(* buffer conserves the hits and puts them in order as far as its size     *)
(* allows, and the splitter partitions what comes out into clusters, cut   *)
(* at every gap and nowhere else.                                          *)
(***************************************************************************)
EXTENDS Grouping, SequenceLemmas, FiniteSetTheorems

\* Two sequences in order, the first not later than the second, are in order together.
LEMMA InOrderConcat ==
  ASSUME NEW s \in Seq(Hits), NEW u \in Seq(Hits), InOrder(s), InOrder(u),
         \A a \in ToSet(s), b \in ToSet(u) : ~Earlier(b, a)
  PROVE  InOrder(s \o u)
<1> SUFFICES ASSUME NEW i \in 1 .. Len(s) + Len(u), NEW j \in 1 .. Len(s) + Len(u), i < j
             PROVE  ~Earlier((s \o u)[j], (s \o u)[i])
  BY ConcatProperties, LenProperties DEF InOrder
<1>0. Len(s) \in Nat /\ Len(u) \in Nat /\ DOMAIN s = 1 .. Len(s) /\ DOMAIN u = 1 .. Len(u)
  BY LenProperties
<1>1. /\ (s \o u)[i] = IF i <= Len(s) THEN s[i] ELSE u[i - Len(s)]
      /\ (s \o u)[j] = IF j <= Len(s) THEN s[j] ELSE u[j - Len(s)]
  BY ConcatProperties
<1>2. CASE j <= Len(s)
  <2>1. i \in DOMAIN s /\ j \in DOMAIN s /\ i <= Len(s)
    BY <1>0, <1>2
  <2> QED
    BY <1>1, <1>2, <2>1 DEF InOrder
<1>3. CASE i > Len(s)
  <2>1. /\ i - Len(s) \in DOMAIN u /\ j - Len(s) \in DOMAIN u /\ i - Len(s) < j - Len(s)
        /\ ~(i <= Len(s)) /\ ~(j <= Len(s))
    BY <1>0, <1>3
  <2> QED
    BY <1>1, <2>1 DEF InOrder
<1>4. CASE i <= Len(s) /\ j > Len(s)
  <2>1. i \in DOMAIN s /\ j - Len(s) \in DOMAIN u /\ ~(j <= Len(s))
    BY <1>0, <1>4
  <2>2. s[i] \in ToSet(s) /\ u[j - Len(s)] \in ToSet(u)
    BY <2>1 DEF ToSet
  <2> QED
    BY <1>1, <1>4, <2>1, <2>2
<1> QED
  BY <1>0, <1>2, <1>3, <1>4

\* A hit appended that is not earlier than those before it leaves the sequence in order.
LEMMA InOrderAppend ==
  ASSUME NEW s \in Seq(Hits), NEW x \in Hits, InOrder(s), \A a \in ToSet(s) : ~Earlier(x, a)
  PROVE  InOrder(Append(s, x))
<1>1. <<x>> \in Seq(Hits) /\ Append(s, x) = s \o <<x>> /\ ToSet(<<x>>) = {x}
  BY DEF ToSet
<1>2. InOrder(<<x>>)
  BY DEF InOrder
<1>3. InOrder(s \o <<x>>)
  BY <1>1, <1>2, InOrderConcat
<1> QED
  BY <1>1, <1>3

\* A finite set of hits has one that is not earlier than any other.
LEMMA LatestExists ==
  ASSUME NEW S \in SUBSET Hits, IsFiniteSet(S), S # {}
  PROVE  \E h \in S : \A g \in S : ~Earlier(h, g)
<1> DEFINE Latest(T) == \E h \in T : \A g \in T : ~Earlier(h, g)
           good == {n \in Nat : \A T \in SUBSET Hits :
                                    IsFiniteSet(T) /\ Cardinality(T) = n + 1 => Latest(T)}
<1>1. ASSUME NEW T \in SUBSET Hits, IsFiniteSet(T), NEW n \in Nat, Cardinality(T) = n + 1
      PROVE  \E x \in T : /\ T \ {x} \in SUBSET Hits /\ IsFiniteSet(T \ {x})
                          /\ Cardinality(T \ {x}) = n
  <2>1. T # {}
    BY <1>1, FS_EmptySet
  <2>2. PICK x \in T : TRUE
    BY <2>1
  <2>3. IsFiniteSet(T \ {x}) /\ Cardinality(T \ {x}) = Cardinality(T) - 1
    BY <1>1, FS_RemoveElement
  <2> QED
    BY <1>1, <2>3
<1>2. 0 \in good
  <2> SUFFICES ASSUME NEW T \in SUBSET Hits, IsFiniteSet(T), Cardinality(T) = 0 + 1
               PROVE  Latest(T)
    OBVIOUS
  <2>1. PICK x \in T : IsFiniteSet(T \ {x}) /\ Cardinality(T \ {x}) = 0
    BY <1>1
  <2>2. T \ {x} = {}
    BY <2>1, FS_EmptySet
  <2>3. \A g \in T : g = x
    BY <2>2
  <2>4. ~Earlier(x, x)
    BY HitsAssumption DEF Earlier
  <2> QED
    BY <2>3, <2>4
<1>3. ASSUME NEW n \in Nat, n \in good PROVE n + 1 \in good
  <2> SUFFICES ASSUME NEW T \in SUBSET Hits, IsFiniteSet(T), Cardinality(T) = (n + 1) + 1
               PROVE  Latest(T)
    OBVIOUS
  <2>1. PICK x \in T : /\ T \ {x} \in SUBSET Hits /\ IsFiniteSet(T \ {x})
                       /\ Cardinality(T \ {x}) = n + 1
    BY <1>1
  <2>2. PICK h \in T \ {x} : \A g \in T \ {x} : ~Earlier(h, g)
    BY <1>3, <2>1
  <2>3. ASSUME NEW a \in T, NEW b \in T, NEW c \in T, ~Earlier(a, b), ~Earlier(b, c)
        PROVE  ~Earlier(a, c)
    BY <2>3, HitsAssumption DEF Earlier
  <2>4. ~Earlier(x, x) /\ (~Earlier(h, x) \/ ~Earlier(x, h))
    BY HitsAssumption DEF Earlier
  <2>5. CASE ~Earlier(h, x)
    BY <2>2, <2>5
  <2>6. CASE ~Earlier(x, h)
    <3>1. \A g \in T : ~Earlier(x, g)
      BY <2>2, <2>3, <2>4, <2>6
    <3> QED
      BY <3>1
  <2> QED
    BY <2>4, <2>5, <2>6
<1>4. PICK n \in Nat : Cardinality(S) = n + 1
  <2>1. PICK m \in Nat : m = Cardinality(S) /\ m # 0
    BY FS_CardinalityType, FS_EmptySet
  <2>2. m - 1 \in Nat /\ m = (m - 1) + 1
    BY <2>1
  <2> QED
    BY Zenon, <2>1, <2>2
<1>5. n \in good
  <2> HIDE DEF good
  <2> QED
    BY <1>2, <1>3, SetInduction
<1> QED
  BY <1>4, <1>5

\* As many hits as a set has, and all of them, are an order of it.
LEMMA IsAnOrder ==
  ASSUME NEW S \in SUBSET Hits, IsFiniteSet(S), NEW order \in Seq(Hits),
         ToSet(order) = S, Len(order) = Cardinality(S), InOrder(order)
  PROVE  order \in Orders(S)
<1>1. PICK n \in Nat : n = Cardinality(S) /\ Len(order) = n /\ DOMAIN order = 1 .. n
  BY LenProperties
<1>2. order \in [1 .. n -> S]
  <2>1. order \in [1 .. n -> Hits]
    BY <1>1
  <2>2. \A i \in 1 .. n : order[i] \in S
    BY <1>1 DEF ToSet
  <2> QED
    BY <2>1, <2>2
<1>3. order \in Surjection(1 .. n, S)
  BY <1>1, <1>2 DEF Surjection, ToSet
<1>4. IsFiniteSet(1 .. n) /\ Cardinality(1 .. n) = Cardinality(S)
  <2>1. Cardinality(S) \in Nat
    BY FS_CardinalityType
  <2> QED
    BY <1>1, <2>1, FS_Interval
<1>5. order \in Injection(1 .. n, S)
  BY <1>3, <1>4, FS_SurjSameCardinalityImpliesInj
<1>6. \A i, j \in 1 .. n : i # j => order[i] # order[j]
  <2>1. \A i, j \in DOMAIN order : order[i] = order[j] => i = j
    BY <1>5 DEF Injection, IsInjective
  <2> QED
    BY <1>1, <2>1
<1> QED
  BY <1>1, <1>2, <1>6 DEF Orders, SetToSeqs

\* An order of a set has all of its hits.
LEMMA OrderHasAll ==
  ASSUME NEW S \in SUBSET Hits, IsFiniteSet(S), NEW order \in Orders(S)
  PROVE  /\ order \in Seq(Hits) /\ ToSet(order) = S /\ Len(order) = Cardinality(S)
         /\ InOrder(order)
<1>1. PICK n \in Nat : n = Cardinality(S)
  BY FS_CardinalityType
<1>2. order \in [1 .. n -> S] /\ \A i, j \in 1 .. n : i # j => order[i] # order[j]
  BY <1>1 DEF SetToSeqs, Orders
<1>3. order \in Seq(Hits) /\ Len(order) = n /\ DOMAIN order = 1 .. n
  <2>1. order \in [1 .. n -> Hits]
    BY <1>2
  <2> QED
    BY <2>1
<1>4. order \in Injection(1 .. n, S)
  BY <1>2 DEF Injection, IsInjective
<1>5. IsFiniteSet(1 .. n) /\ Cardinality(1 .. n) = Cardinality(S)
  BY <1>1, FS_Interval
<1>6. order \in Surjection(1 .. n, S)
  BY <1>4, <1>5, FS_Injection
<1>7. ToSet(order) = S
  BY <1>2, <1>3, <1>6 DEF Surjection, ToSet
<1> QED
  BY <1>1, <1>3, <1>7 DEF Orders

\* A finite set of hits can be put in order.
LEMMA OrderExists ==
  ASSUME NEW S \in SUBSET Hits, IsFiniteSet(S)
  PROVE  Orders(S) # {}
<1> DEFINE Sorted(T) == \E order \in Seq(Hits) : /\ ToSet(order) = T
                                                 /\ Len(order) = Cardinality(T)
                                                 /\ InOrder(order)
           good == {n \in Nat : \A T \in SUBSET Hits :
                                    IsFiniteSet(T) /\ Cardinality(T) = n => Sorted(T)}
<1>1. 0 \in good
  <2> SUFFICES ASSUME NEW T \in SUBSET Hits, IsFiniteSet(T), Cardinality(T) = 0
               PROVE  Sorted(T)
    OBVIOUS
  <2>1. T = {}
    BY FS_EmptySet
  <2>2. << >> \in Seq(Hits) /\ ToSet(<< >>) = {} /\ Len(<< >>) = 0 /\ InOrder(<< >>)
    BY DEF ToSet, InOrder
  <2> QED
    BY <2>1, <2>2
<1>2. ASSUME NEW n \in Nat, n \in good PROVE n + 1 \in good
  <2> SUFFICES ASSUME NEW T \in SUBSET Hits, IsFiniteSet(T), Cardinality(T) = n + 1
               PROVE  Sorted(T)
    OBVIOUS
  <2>1. T # {}
    BY FS_EmptySet
  <2>2. PICK h \in T : \A g \in T : ~Earlier(h, g)
    BY <2>1, LatestExists
  <2>3. IsFiniteSet(T \ {h}) /\ Cardinality(T \ {h}) = n /\ T \ {h} \in SUBSET Hits
    <3>1. IsFiniteSet(T \ {h}) /\ Cardinality(T \ {h}) = Cardinality(T) - 1
      BY FS_RemoveElement
    <3> QED
      BY <3>1
  <2>4. Sorted(T \ {h})
    <3> HIDE DEF Sorted
    <3> QED
      BY <1>2, <2>3
  <2>5. PICK order \in Seq(Hits) : /\ ToSet(order) = T \ {h} /\ Len(order) = n
                                   /\ InOrder(order)
    BY Zenon, <2>3, <2>4
  <2>6. Append(order, h) \in Seq(Hits) /\ Len(Append(order, h)) = n + 1
    <3>1. Append(order, h) \in Seq(Hits) /\ Len(Append(order, h)) = Len(order) + 1
      BY AppendProperties
    <3> QED
      BY <2>5, <3>1
  <2>7. ToSet(Append(order, h)) = T
    <3>1. ToSet(Append(order, h)) = ToSet(order) \cup {h}
      BY ToSetAppend
    <3>2. (T \ {h}) \cup {h} = T
      OBVIOUS
    <3> QED
      BY Zenon, <2>5, <3>1, <3>2
  <2>8. InOrder(Append(order, h))
    BY <2>2, <2>5, InOrderAppend
  <2>9. PICK longer \in Seq(Hits) : /\ longer = Append(order, h) /\ ToSet(longer) = T
                                    /\ Len(longer) = n + 1 /\ InOrder(longer)
    BY Zenon, <2>6, <2>7, <2>8
  <2>10. Len(longer) = Cardinality(T)
    BY <2>9
  <2> QED
    BY Zenon, <2>9, <2>10
<1>3. Cardinality(S) \in good
  <2> HIDE DEF good
  <2> QED
    BY <1>1, <1>2, SetInduction, FS_CardinalityType
<1>4. Sorted(S)
  <2> HIDE DEF Sorted
  <2> QED
    BY <1>3
<1> QED
  BY <1>4, IsAnOrder
-----------------------------------------------------------------------------
(***************************************************************************)
(* The buffer                                                              *)
(***************************************************************************)
Out == output \o pending

\* The hits popped so far that are not earlier than a hit, by their numbers.
Late(h, n) == {j \in 1 .. n : ~Earlier(input[j], h)}

\* What the buffer has in each statement; no two hits are of the same record.
BufferState ==
    /\ pc \in {"test", "pop", "push", "drain", "exited"}
    /\ input \in Seq(Hits)
    /\ \A i, j \in 1 .. Len(input) : input[i].from = input[j].from => i = j
    /\ entries_processed \in 0 .. Len(input)
    /\ output \in Seq(Hits) /\ pending \in Seq(Hits)
    /\ buffer \in SUBSET Hits /\ IsFiniteSet(buffer)
    /\ pc \in {"test", "pop", "exited"} => pending = << >>
    /\ pc \in {"drain", "exited"} => buffer = {}

\* The hits popped so far.
Arrived(n) == {input[i] : i \in 1 .. n}

Conserved ==
    /\ buffer \cup ToSet(Out) = Arrived(entries_processed)
    /\ Cardinality(buffer) + Len(Out) = entries_processed

\* A hit that left before the drain left more than Size hits behind that are not
\* earlier, so that one that comes later and is earlier has too much disorder.
LeftLate ==
    pc \in {"test", "pop", "push"} =>
        \A o \in ToSet(Out) : Cardinality(Late(o, entries_processed)) > Size

WithinSize(n) == \A k \in 1 .. n : Overtaken(k) <= Size

\* The hits in the buffer are not earlier than those that have left it.
Ordered ==
    WithinSize(entries_processed) =>
        /\ InOrder(Out)
        /\ \A h \in buffer, o \in ToSet(Out) : ~Earlier(h, o)

BufferInv == BufferState /\ Conserved /\ LeftLate /\ Ordered

\* The hits popped are the first of those that have arrived.
LEMMA PoppedIsArrived ==
  ASSUME BufferState
  PROVE  /\ Popped \in Seq(Hits) /\ Len(Popped) = entries_processed
         /\ \A i \in 1 .. entries_processed : Popped[i] = input[i]
         /\ ToSet(Popped) = Arrived(entries_processed)
<1>1. /\ Popped \in Seq(Hits) /\ Len(Popped) = entries_processed
      /\ \A i \in 1 .. entries_processed : Popped[i] = input[i]
  BY SubSeqProperties DEF BufferState, Popped
<1>2. DOMAIN Popped = 1 .. entries_processed
  BY <1>1, LenProperties
<1> QED
  BY <1>1, <1>2 DEF ToSet, Arrived

\* The hits behind one that are not earlier become no fewer.
LEMMA LateFinite ==
  ASSUME NEW h, NEW n \in Nat
  PROVE  /\ IsFiniteSet(Late(h, n)) /\ Cardinality(Late(h, n)) \in Nat
         /\ Cardinality(Late(h, n)) <= Cardinality(Late(h, n + 1))
<1>1. IsFiniteSet(1 .. n + 1)
  BY FS_Interval
<1>2. Late(h, n) \subseteq Late(h, n + 1) /\ Late(h, n + 1) \subseteq 1 .. n + 1
  BY DEF Late
<1>3. IsFiniteSet(Late(h, n + 1))
  BY <1>1, <1>2, FS_Subset
<1> QED
  BY <1>2, <1>3, FS_Subset, FS_CardinalityType

\* A hit pushed into the full buffer makes the earliest leave, Size others stay.
LEMMA TopIsLate ==
  ASSUME NEW n \in Nat, NEW hits, NEW top \in Tops(hits),
         hits \subseteq Arrived(n), IsFiniteSet(hits)
  PROVE  Cardinality(hits) <= Cardinality(Late(top, n))
<1> DEFINE place(h) == CHOOSE i \in 1 .. n : input[i] = h
           number == [h \in hits |-> place(h)]
<1>1. \A h \in hits : place(h) \in 1 .. n /\ input[place(h)] = h
  <2> SUFFICES ASSUME NEW h \in hits PROVE place(h) \in 1 .. n /\ input[place(h)] = h
    OBVIOUS
  <2>1. \E i \in 1 .. n : input[i] = h
    BY DEF Arrived
  <2> QED
    BY <2>1
<1> HIDE DEF place
<1>2. \A h \in hits : place(h) \in Late(top, n)
  <2> SUFFICES ASSUME NEW h \in hits PROVE place(h) \in Late(top, n)
    OBVIOUS
  <2>1. ~Earlier(h, top)
    BY DEF Tops
  <2> QED
    BY <1>1, <2>1 DEF Late
<1>3. number \in [hits -> Late(top, n)]
  BY <1>2
<1>4. \A g, h \in hits : number[g] = number[h] => g = h
  BY <1>1
<1>5. number \in Injection(hits, Late(top, n))
  BY <1>3, <1>4 DEF Injection, IsInjective
<1>6. IsFiniteSet(Late(top, n))
  BY LateFinite
<1> HIDE DEF number
<1> QED
  BY <1>5, <1>6, FS_Injection

\* buffer.push(event), and what is over the size leaves.
LEMMA PopStep == ASSUME BufferInv, Pop PROVE BufferInv'
<1>1. PICK n \in Nat : n = entries_processed
  BY LenProperties DEF BufferInv, BufferState
<1>2. PICK x : x = NextItem
  OBVIOUS
<1>3. /\ pc = "pop" /\ pc' = "push" /\ n < Len(input) /\ entries_processed' = n + 1
      /\ input' = input /\ output' = output /\ pending = << >> /\ x = input[n + 1]
  BY <1>1, <1>2 DEF Pop, PopNext, ItemWaiting, NextItem, BufferInv, BufferState
<1>4. Len(input) \in Nat /\ input \in Seq(Hits) /\ output \in Seq(Hits)
  BY LenProperties DEF BufferInv, BufferState
<1>5. x \in Hits /\ n + 1 \in 1 .. Len(input)
  BY <1>3, <1>4, ElementOfSeq
<1>6. Out = output
  BY <1>3, <1>4 DEF Out
<1>7. Arrived(n + 1) = Arrived(n) \cup {x} /\ Arrived(n + 1)' = Arrived(n + 1)
  BY <1>3 DEF Arrived
<1>8. buffer \subseteq Arrived(n) /\ ToSet(output) \subseteq Arrived(n)
  BY <1>1, <1>6 DEF BufferInv, Conserved
<1>9. x \notin buffer
  <2> SUFFICES ASSUME x \in buffer PROVE FALSE
    OBVIOUS
  <2>1. PICK i \in 1 .. n : input[i] = x
    BY <1>8 DEF Arrived
  <2>2. i \in 1 .. Len(input) /\ i # n + 1
    BY <1>3, <1>4
  <2>3. input[i].from = input[n + 1].from => i = n + 1
    BY <1>5, <2>2 DEF BufferInv, BufferState
  <2> QED
    BY <1>3, <2>1, <2>2, <2>3
<1> DEFINE hits == buffer \cup {x}
<1>10. /\ IsFiniteSet(buffer) /\ IsFiniteSet(hits) /\ Cardinality(buffer) \in Nat
       /\ Cardinality(hits) = Cardinality(buffer) + 1
  BY <1>9, FS_AddElement, FS_CardinalityType DEF BufferInv, BufferState
<1>11. hits \subseteq Arrived(n + 1) /\ hits \in SUBSET Hits
  BY <1>5, <1>7, <1>8 DEF BufferInv, BufferState
\* No hit that has left is later than x when the disorder is within the size.
<1>12. ASSUME WithinSize(n + 1), NEW o \in ToSet(output) PROVE ~Earlier(x, o)
  <2> SUFFICES ASSUME Earlier(x, o) PROVE FALSE
    OBVIOUS
  <2> DEFINE over == {j \in 1 .. n : Earlier(input[n + 1], input[j])}
  <2>1. Cardinality(Late(o, n)) > Size
    BY <1>1, <1>3, <1>6 DEF BufferInv, LeftLate
  <2>2. o \in Hits
    BY <1>4 DEF ToSet
  <2>3. Late(o, n) \subseteq over
    <3> SUFFICES ASSUME NEW j \in 1 .. n, ~Earlier(input[j], o)
                 PROVE  Earlier(x, input[j])
      BY <1>3 DEF Late
    <3>1. input[j] \in Hits
      BY <1>3, <1>4, ElementOfSeq
    <3> QED
      BY <1>5, <2>2, <3>1, HitsAssumption DEF Earlier
  <2>4. Overtaken(n + 1) = Cardinality(over) /\ Overtaken(n + 1) <= Size
    BY <1>12 DEF Overtaken, WithinSize
  <2>5. IsFiniteSet(over)
    <3>1. over \subseteq 1 .. n /\ IsFiniteSet(1 .. n)
      BY FS_Interval
    <3> QED
      BY <3>1, FS_Subset
  <2>6. /\ Cardinality(over) \in Nat /\ Cardinality(Late(o, n)) \in Nat
        /\ Cardinality(Late(o, n)) <= Cardinality(over)
    BY <2>3, <2>5, FS_Subset, FS_CardinalityType
  <2> QED
    BY <2>1, <2>4, <2>6, SizeAssumption
<1>13. ASSUME WithinSize(n + 1)
       PROVE  /\ InOrder(output)
              /\ \A h \in hits, o \in ToSet(output) : ~Earlier(h, o)
  <2>1. WithinSize(n)
    BY <1>13 DEF WithinSize
  <2>2. InOrder(output) /\ \A h \in buffer, o \in ToSet(output) : ~Earlier(h, o)
    BY <1>1, <1>6, <2>1 DEF BufferInv, Ordered
  <2> QED
    BY <1>12, <1>13, <2>2
<1>14. ASSUME NEW o \in ToSet(output) PROVE Cardinality(Late(o, n + 1)) > Size
  <2>1. Cardinality(Late(o, n)) > Size
    BY <1>1, <1>3, <1>6 DEF BufferInv, LeftLate
  <2> QED
    BY <2>1, LateFinite, SizeAssumption
<1>15. /\ \A o : Late(o, entries_processed)' = Late(o, n + 1)
       /\ WithinSize(entries_processed)' = WithinSize(n + 1)
  BY <1>3 DEF Late, WithinSize, Overtaken
<1>16. n + 1 \in 0 .. Len(input)
  BY <1>3, <1>4
<1>17. CASE Cardinality(hits) > Size
  <2>1. PICK top \in Tops(hits) : buffer' = hits \ {top} /\ pending' = <<top>>
    BY <1>2, <1>17 DEF Pop
  <2>2. top \in hits /\ \A h \in hits : ~Earlier(h, top)
    BY DEF Tops
  <2>3. top \in Hits
    BY <1>11, <2>2
  <2>4. Out' = Append(output, top) /\ Out' \in Seq(Hits) /\ Len(Out') = Len(output) + 1
    BY <1>3, <1>4, <2>1, <2>3 DEF Out
  <2>5. ToSet(Out') = ToSet(output) \cup {top}
    BY <1>4, <2>3, <2>4, ToSetAppend
  <2>6. /\ IsFiniteSet(buffer') /\ buffer' \in SUBSET Hits
        /\ Cardinality(buffer') = Cardinality(buffer)
    <3>1. hits \ {top} \in SUBSET Hits /\ Cardinality(hits) - 1 = Cardinality(buffer)
      BY <1>10, <1>11
    <3> HIDE DEF hits
    <3>2. IsFiniteSet(hits \ {top}) /\ Cardinality(hits \ {top}) = Cardinality(hits) - 1
      BY <1>10, <2>2, FS_RemoveElement
    <3> QED
      BY <2>1, <3>1, <3>2
  <2>7. BufferState'
    BY <1>3, <1>4, <1>16, <2>1, <2>3, <2>6 DEF BufferInv, BufferState
  <2>8. Conserved'
    <3>1. buffer' \cup ToSet(Out') = hits \cup ToSet(output)
      BY <2>1, <2>2, <2>5
    <3>2. hits \cup ToSet(output) = Arrived(n + 1)
      BY <1>1, <1>6, <1>7 DEF BufferInv, Conserved
    <3>3. Cardinality(buffer) + Len(output) = n
      BY <1>1, <1>6 DEF BufferInv, Conserved
    <3>4. Cardinality(buffer') + Len(Out') = n + 1
      <4>1. Len(output) \in Nat /\ Cardinality(buffer) \in Nat
        BY <1>4, <1>10, LenProperties
      <4> QED
        BY <2>4, <2>6, <3>3, <4>1
    <3>5. Arrived(entries_processed)' = Arrived(n + 1)
      BY <1>3 DEF Arrived
    <3>6. (buffer \cup ToSet(Out))' = Arrived(n + 1)
      BY <3>1, <3>2
    <3> QED
      BY <1>3, <3>4, <3>5, <3>6 DEF Conserved
  <2>9. LeftLate'
    <3>1. Cardinality(Late(top, n + 1)) > Size
      <4>1. Cardinality(hits) <= Cardinality(Late(top, n + 1))
        BY <1>10, <1>11, <1>16, <2>1, TopIsLate
      <4> QED
        BY <1>10, <1>17, <4>1, LateFinite, SizeAssumption
    <3>2. \A o \in ToSet(Out') : Cardinality(Late(o, n + 1)) > Size
      BY <1>14, <2>5, <3>1
    <3> QED
      BY <1>15, <3>2 DEF LeftLate
  <2>10. Ordered'
    <3> SUFFICES ASSUME WithinSize(n + 1)
                 PROVE  /\ InOrder(Out')
                        /\ \A h \in buffer', o \in ToSet(Out') : ~Earlier(h, o)
      BY <1>15 DEF Ordered, InOrder, Earlier
    <3>1. InOrder(Out')
      BY <1>4, <1>13, <2>2, <2>3, <2>4, InOrderAppend
    <3>2. \A h \in buffer', o \in ToSet(Out') : ~Earlier(h, o)
      BY <1>13, <2>1, <2>2, <2>5
    <3> QED
      BY <3>1, <3>2
  <2> QED
    BY <2>7, <2>8, <2>9, <2>10 DEF BufferInv
<1>18. CASE ~(Cardinality(hits) > Size)
  <2>1. buffer' = hits /\ pending' = << >>
    BY <1>2, <1>18 DEF Pop
  <2>2. Out' = output
    BY <1>3, <1>4, <2>1 DEF Out
  <2>3. BufferState'
    BY <1>3, <1>4, <1>10, <1>11, <1>16, <2>1 DEF BufferInv, BufferState
  <2>4. Conserved'
    <3>1. hits \cup ToSet(output) = Arrived(n + 1)
      BY <1>1, <1>6, <1>7 DEF BufferInv, Conserved
    <3>2. Cardinality(hits) + Len(output) = n + 1
      BY <1>1, <1>4, <1>6, <1>10, LenProperties DEF BufferInv, Conserved
    <3>3. Arrived(entries_processed)' = Arrived(n + 1)
      BY <1>3 DEF Arrived
    <3>4. (buffer \cup ToSet(Out))' = Arrived(n + 1)
      BY <2>1, <2>2, <3>1
    <3> QED
      BY <1>3, <2>1, <2>2, <3>2, <3>3, <3>4 DEF Conserved
  <2>5. LeftLate'
    BY <1>14, <1>15, <2>2 DEF LeftLate
  <2>6. Ordered'
    BY <1>13, <1>15, <2>1, <2>2 DEF Ordered, InOrder, Earlier
  <2> QED
    BY <2>3, <2>4, <2>5, <2>6 DEF BufferInv
<1> QED
  BY <1>17, <1>18

\* What holds of the hits stays when none arrives at the buffer or leaves it.
LEMMA SameHits ==
  ASSUME BufferInv, input' = input, entries_processed' = entries_processed,
         buffer' = buffer, Out' = Out,
         pc' \in {"test", "pop", "push"} => pc \in {"test", "pop", "push"}
  PROVE  Conserved' /\ LeftLate' /\ Ordered'
<1>1. Arrived(entries_processed)' = Arrived(entries_processed)
  BY DEF Arrived
<1>2. Conserved'
  <2>1. (buffer \cup ToSet(Out))' = buffer \cup ToSet(Out)
    OBVIOUS
  <2> QED
    BY <1>1, <2>1 DEF BufferInv, Conserved
<1>3. \A o : Late(o, entries_processed)' = Late(o, entries_processed)
  BY DEF Late
<1>4. WithinSize(entries_processed)' = WithinSize(entries_processed)
  BY DEF WithinSize, Overtaken
<1>5. LeftLate'
  BY <1>3 DEF BufferInv, LeftLate
<1>6. Ordered'
  BY <1>4 DEF BufferInv, Ordered, InOrder, Earlier
<1> QED
  BY <1>2, <1>5, <1>6

\* while ( !done ), and the drain of what is left in the queue in order of time.
LEMMA TestStep == ASSUME BufferInv, TestAndDrain PROVE BufferInv'
<1> USE DEF BufferInv
<1>1. /\ pc = "test" /\ input' = input /\ entries_processed' = entries_processed
      /\ output' = output /\ pending = << >> /\ output \in Seq(Hits) /\ Out = output
  BY DEF TestAndDrain, Test, BufferState, Out
<1>2. CASE ~done
  <2>1. pc' = "pop" /\ pending' = pending /\ buffer' = buffer
    BY <1>2 DEF TestAndDrain, Test
  <2>2. Out' = Out
    BY <1>1, <2>1 DEF Out
  <2>3. BufferState'
    BY <1>1, <2>1 DEF BufferState
  <2> QED
    BY <1>1, <2>1, <2>2, <2>3, SameHits
<1>3. CASE done
  <2>1. pc' = "drain" /\ buffer' = {}
    BY <1>3 DEF TestAndDrain, Test
  <2>2. PICK order \in Orders(buffer) : pending' = order
    BY <1>3 DEF TestAndDrain
  <2>3. PICK n \in Nat : n = Cardinality(buffer)
    BY FS_CardinalityType DEF BufferState
  <2>4. IsFiniteSet(buffer) /\ buffer \in SUBSET Hits
    BY DEF BufferState
  <2>5. order \in Seq(Hits) /\ ToSet(order) = buffer /\ Len(order) = n /\ InOrder(order)
    BY Zenon, <2>3, <2>4, OrderHasAll
  <2>8. Out' = output \o order /\ Len(Out') = Len(output) + n /\ Out' \in Seq(Hits)
    BY <1>1, <2>2, <2>5, ConcatProperties DEF Out
  <2>9. ToSet(Out') = ToSet(output) \cup buffer
    BY <1>1, <2>5, <2>8, ToSetConcat
  <2>10. BufferState'
    BY <1>1, <2>1, <2>2, <2>5, FS_EmptySet DEF BufferState
  <2>11. Conserved'
    <3>1. Arrived(entries_processed)' = Arrived(entries_processed)
      BY <1>1 DEF Arrived
    <3>2. (buffer \cup ToSet(Out))' = buffer \cup ToSet(Out)
      BY <1>1, <2>1, <2>9
    <3>3. Cardinality(buffer)' = 0
      BY <2>1, FS_EmptySet
    <3>4. Cardinality(buffer) + Len(output) = entries_processed /\ Len(output) \in Nat
      BY <1>1, LenProperties DEF Conserved
    <3>5. Cardinality(buffer)' + Len(Out)' = entries_processed'
      BY <1>1, <2>3, <2>4, <2>8, <3>3, <3>4
    <3> QED
      BY <3>1, <3>2, <3>5 DEF Conserved
  <2>12. LeftLate'
    BY <2>1 DEF LeftLate
  <2>13. Ordered'
    <3>1. WithinSize(entries_processed)' = WithinSize(entries_processed)
      BY <1>1 DEF WithinSize, Overtaken
    <3>2. ASSUME WithinSize(entries_processed) PROVE InOrder(Out')
      <4>1. /\ InOrder(output)
            /\ \A h \in buffer, o \in ToSet(output) : ~Earlier(h, o)
        BY <1>1, <3>2 DEF Ordered
      <4> QED
        BY <1>1, <2>5, <2>8, <4>1, InOrderConcat
    <3> QED
      BY <2>1, <3>1, <3>2 DEF Ordered, InOrder, Earlier
  <2> QED
    BY <2>10, <2>11, <2>12, <2>13
<1> QED
  BY <1>2, <1>3

\* The other steps of the buffer move no hit but from the pending ones to the queue.
LEMMA OtherBufferSteps ==
  ASSUME BufferInv,
         \/ TimedOut /\ UNCHANGED <<pending, output, taken, buffer>>
         \/ Push /\ UNCHANGED <<input, buffer>>
         \/ Handled /\ UNCHANGED <<input, buffer>>
         \/ Exit /\ UNCHANGED <<input, buffer>>
         \/ Finish /\ UNCHANGED <<input, pending, output, taken, buffer>>
         \/ UNCHANGED <<bufferOnly, output>>
  PROVE  BufferInv'
<1> USE DEF BufferInv
<1>1. /\ output \in Seq(Hits) /\ pending \in Seq(Hits)
      /\ input' = input /\ entries_processed' = entries_processed /\ buffer' = buffer
  BY DEF BufferState, TimedOut, Push, Handled, Exit, Finish, bufferOnly
<1>2. Out' = Out
  <2>1. CASE Push
    BY <1>1, <2>1, HeadMoves DEF Push, Out
  <2>2. CASE UNCHANGED <<output, pending>>
    BY <2>2 DEF Out
  <2> QED
    BY <2>1, <2>2 DEF TimedOut, Handled, Exit, Finish, bufferOnly
<1>3. pc' \in {"test", "pop", "push"} => pc \in {"test", "pop", "push"}
  BY DEF TimedOut, Push, Handled, Exit, Finish, bufferOnly
<1>4. BufferState'
  <2>1. CASE Push
    <3>1. Head(pending) \in Hits /\ Tail(pending) \in Seq(Hits)
      BY <1>1, <2>1, HeadTailProperties DEF Push
    <3>2. output' \in Seq(Hits) /\ pending' \in Seq(Hits)
      BY <1>1, <2>1, <3>1 DEF Push
    <3> QED
      BY <1>1, <2>1, <3>2 DEF Push, BufferState
  <2>2. CASE UNCHANGED <<output, pending>>
    BY <1>1, <2>2 DEF BufferState, TimedOut, Push, Handled, Exit, Finish, bufferOnly
  <2> QED
    BY <2>1, <2>2 DEF TimedOut, Handled, Exit, Finish, bufferOnly
<1> QED
  BY <1>1, <1>2, <1>3, <1>4, SameHits

\* A hit arrives: those popped so far are the same.
LEMMA ArriveStep == ASSUME BufferInv, HitArrives PROVE BufferInv'
<1> USE DEF BufferInv
<1>1. PICK h \in Hits : /\ \A i \in DOMAIN input : input[i].from # h.from
                        /\ input' = Append(input, h)
  BY DEF HitArrives, Arrive
<1>2. /\ pc' = pc /\ entries_processed' = entries_processed /\ pending' = pending
      /\ output' = output /\ buffer' = buffer
  BY DEF HitArrives, Arrive
<1>3. /\ input \in Seq(Hits) /\ Len(input) \in Nat /\ entries_processed \in 0 .. Len(input)
      /\ DOMAIN input = 1 .. Len(input)
      /\ \A i, j \in 1 .. Len(input) : input[i].from = input[j].from => i = j
  BY LenProperties DEF BufferState
<1>5. /\ input' \in Seq(Hits) /\ Len(input') = Len(input) + 1 /\ input'[Len(input) + 1] = h
      /\ \A i \in 1 .. Len(input) : input'[i] = input[i]
  BY <1>1, <1>3, AppendProperties
<1>6. \A i, j \in 1 .. Len(input') : input'[i].from = input'[j].from => i = j
  <2>1. \A i \in 1 .. Len(input') : i \in 1 .. Len(input) \/ i = Len(input) + 1
    BY <1>3, <1>5
  <2> QED
    BY <1>1, <1>3, <1>5, <2>1
<1>7. BufferState'
  BY <1>2, <1>3, <1>5, <1>6 DEF BufferState
<1>8. \A i \in 1 .. entries_processed : input'[i] = input[i]
  BY <1>3, <1>5
<1>9. Arrived(entries_processed)' = Arrived(entries_processed)
  BY <1>2, <1>8 DEF Arrived
<1>10. \A o : Late(o, entries_processed)' = Late(o, entries_processed)
  BY <1>2, <1>8 DEF Late, Earlier
<1>11. WithinSize(entries_processed)' = WithinSize(entries_processed)
  <2>1. \A k \in 1 .. entries_processed : Overtaken(k)' = Overtaken(k)
    <3> SUFFICES ASSUME NEW k \in 1 .. entries_processed
                 PROVE  Overtaken(k)' = Overtaken(k)
      OBVIOUS
    <3>1. \A j \in 1 .. k - 1 : j \in 1 .. entries_processed
      BY <1>3
    <3>2. {j \in 1 .. k - 1 : Earlier(input'[k], input'[j])}
              = {j \in 1 .. k - 1 : Earlier(input[k], input[j])}
      BY <1>8, <3>1
    <3> QED
      BY <3>2 DEF Overtaken, Earlier
  <2> QED
    BY <1>2, <2>1 DEF WithinSize
<1>12. Out' = Out
  BY <1>2 DEF Out
<1>13. Conserved'
  BY <1>2, <1>9, <1>12 DEF Conserved
<1>14. LeftLate'
  BY <1>2, <1>10, <1>12 DEF LeftLate
<1>15. Ordered'
  BY <1>2, <1>11, <1>12 DEF Ordered, InOrder, Earlier
<1> QED
  BY <1>7, <1>13, <1>14, <1>15
-----------------------------------------------------------------------------
(***************************************************************************)
(* The clusters of the hits in order of time                               *)
(***************************************************************************)
\* The clusters as a fold: p is the set of the hits.
AreClusters(p, s, cs) == cs \in Seq(Seq(p))
ClusterFold == INSTANCE SequenceLemmas WITH
    Op <- LAMBDA p, cs, h :
              IF cs = << >> \/ h.t - Last(Last(cs)).t > Gap
                THEN Append(cs, <<h>>) ELSE Append(Front(cs), Append(Last(cs), h)),
    base <- << >>, Holds <- AreClusters

All(hits) == ClusterFold!Fold(Hits, hits)

\* They are that fold.
LEMMA ClustersAreTheFold ==
  ASSUME NEW hits
  PROVE  Splitter!ClosedClusters(hits) = Front(All(hits))
<1>1. Splitter!AllClusters(hits) = All(hits)
  BY Zenon DEF Splitter!AllClusters, Splitter!FoldLeft, Splitter!MapThenFoldSet, Splitter!Max,
     Splitter!Last, Splitter!Front, All, ClusterFold!Fold, ClusterFold!FoldLeft,
     ClusterFold!MapThenFoldSet, ClusterFold!Max, Last, Front
<1> QED
  BY Zenon, <1>1 DEF Splitter!ClosedClusters, Splitter!Front, Front

\* The last element and those before it.
LEMMA FrontAndLast ==
  ASSUME NEW S, NEW s \in Seq(S), s # << >>
  PROVE  Front(s) \in Seq(S) /\ Last(s) \in S /\ s = Append(Front(s), Last(s))
<1>1. PICK n \in Nat : n = Len(s) - 1 /\ Len(s) = n + 1 /\ n < Len(s)
  <2>1. PICK m \in Nat : m = Len(s) /\ m # 0
    BY LenProperties, EmptySeq
  <2>2. m - 1 \in Nat /\ m = (m - 1) + 1 /\ m - 1 < m
    BY <2>1
  <2> QED
    BY Zenon, <2>1, <2>2
<1>2. /\ SubSeq(s, 1, n) \in Seq(S) /\ s[n + 1] \in S
      /\ SubSeq(s, 1, n + 1) = Append(SubSeq(s, 1, n), s[n + 1])
  BY Zenon, <1>1, PrefixAppend
<1>3. SubSeq(s, 1, n + 1) = s
  BY <1>1, SubSeqFull
<1> QED
  BY <1>1, <1>2, <1>3 DEF Front, Last

\* The elements before an appended one.
LEMMA FrontOfAppend ==
  ASSUME NEW S, NEW s \in Seq(S), NEW x \in S
  PROVE  Front(Append(s, x)) = s /\ Last(Append(s, x)) = x
<1>1. PICK n \in Nat : n = Len(s)
  BY LenProperties
<1>2. /\ Append(s, x) \in Seq(S) /\ Len(Append(s, x)) = n + 1 /\ Append(s, x)[n + 1] = x
  BY <1>1, AppendProperties
<1>3. SubSeq(Append(s, x), 1, n) = SubSeq(s, 1, n)
  BY <1>1, PrefixStays
<1>4. SubSeq(s, 1, n) = s
  BY <1>1, SubSeqFull
<1> QED
  BY <1>1, <1>2, <1>3, <1>4 DEF Front, Last

\* Before no element there is none.
LEMMA FrontOfNone == Front(<< >>) = << >>
<1>1. << >> \in Seq({}) /\ Len(<< >>) = 0 /\ 0 - 1 \in Int /\ ~(1 <= 0 - 1)
  OBVIOUS
<1>2. Len(SubSeq(<< >>, 1, 0 - 1)) = 0 /\ SubSeq(<< >>, 1, 0 - 1) \in Seq({})
  BY SubSeqProperties
<1> QED
  BY <1>1, <1>2, EmptySeq DEF Front

\* They are sequences of hits.
LEMMA ClustersType ==
  ASSUME NEW hits \in Seq(Hits)
  PROVE  All(hits) \in Seq(Seq(Hits)) /\ Front(All(hits)) \in Seq(Seq(Hits))
<1>1. ASSUME NEW x \in Hits, NEW cs \in Seq(Seq(Hits))
      PROVE  (IF cs = << >> \/ x.t - Last(Last(cs)).t > Gap
                THEN Append(cs, <<x>>) ELSE Append(Front(cs), Append(Last(cs), x)))
                  \in Seq(Seq(Hits))
  <2>1. Append(cs, <<x>>) \in Seq(Seq(Hits))
    BY AppendProperties
  <2>2. ASSUME cs # << >> PROVE Append(Front(cs), Append(Last(cs), x)) \in Seq(Seq(Hits))
    <3>1. Front(cs) \in Seq(Seq(Hits)) /\ Last(cs) \in Seq(Hits)
      BY <2>2, FrontAndLast
    <3> QED
      BY <3>1, AppendProperties
  <2> QED
    BY <2>1, <2>2
<1>2. \A n \in Nat : n < Len(hits) => hits[n + 1] \in Hits
  BY PrefixAppend
<1>3. AreClusters(Hits, << >>, << >>)
  BY DEF AreClusters
<1>4. \A n \in Nat : n < Len(hits) =>
          \A cs : AreClusters(Hits, SubSeq(hits, 1, n), cs) =>
              AreClusters(Hits, SubSeq(hits, 1, n + 1),
                IF cs = << >> \/ hits[n + 1].t - Last(Last(cs)).t > Gap
                  THEN Append(cs, <<hits[n + 1]>>)
                  ELSE Append(Front(cs), Append(Last(cs), hits[n + 1])))
  BY Zenon, <1>1, <1>2 DEF AreClusters
<1>5. AreClusters(Hits, hits, ClusterFold!Fold(Hits, hits))
  BY Zenon, <1>3, <1>4, ClusterFold!FoldInduction
<1>6. PICK cs \in Seq(Seq(Hits)) : cs = All(hits)
  BY <1>5 DEF AreClusters, All
<1>7. CASE cs = << >>
  BY Zenon, <1>6, <1>7, FrontOfNone, EmptySeq
<1>8. CASE cs # << >>
  BY <1>6, <1>8, FrontAndLast
<1> QED
  BY <1>6, <1>7, <1>8

\* One hit more, after none or too far behind the last one, begins a cluster.
LEMMA ClustersAppend ==
  ASSUME NEW hits \in Seq(Hits), NEW h \in Hits
  PROVE  All(Append(hits, h)) =
             IF All(hits) = << >> \/ h.t - Last(Last(All(hits))).t > Gap
               THEN Append(All(hits), <<h>>)
               ELSE Append(Front(All(hits)), Append(Last(All(hits)), h))
<1>1. ClusterFold!Fold(Hits, Append(hits, h)) =
          IF ClusterFold!Fold(Hits, hits) = << >>
                \/ h.t - Last(Last(ClusterFold!Fold(Hits, hits))).t > Gap
            THEN Append(ClusterFold!Fold(Hits, hits), <<h>>)
            ELSE Append(Front(ClusterFold!Fold(Hits, hits)),
                        Append(Last(ClusterFold!Fold(Hits, hits)), h))
  BY ClusterFold!FoldAppend
<1> QED
  BY Zenon, <1>1 DEF All

\* A hit more closes at most one cluster.
LEMMA ClosedAppend ==
  ASSUME NEW hits \in Seq(Hits), NEW h \in Hits
  PROVE  \E more \in Seq(Seq(Hits)) : Front(All(Append(hits, h))) = Front(All(hits)) \o more
<1>1. PICK cs \in Seq(Seq(Hits)) : cs = All(hits) /\ Front(cs) \in Seq(Seq(Hits))
  BY ClustersType
<1>2. << >> \in Seq(Seq(Hits)) /\ <<h>> \in Seq(Hits)
  BY EmptySeq
<1>3. CASE All(Append(hits, h)) = Append(cs, <<h>>)
  <2>1. Front(All(Append(hits, h))) = cs
    BY Zenon, <1>2, <1>3, FrontOfAppend
  <2>2. CASE cs = << >>
    <3>1. << >> = << >> \o << >>
      BY <1>2, ConcatEmptySeq
    <3> QED
      BY Zenon, <1>1, <1>2, <2>1, <2>2, <3>1, FrontOfNone
  <2>3. CASE cs # << >>
    <3>1. Last(cs) \in Seq(Hits) /\ cs = Append(Front(cs), Last(cs))
      BY <2>3, FrontAndLast
    <3>2. PICK e \in Seq(Hits), others \in Seq(Seq(Hits)) : e = Last(cs) /\ others = Front(cs)
      BY <1>1, <3>1
    <3>3. <<e>> \in Seq(Seq(Hits)) /\ Append(others, e) = others \o <<e>>
      BY AppendIsConcat
    <3> QED
      BY Zenon, <1>1, <2>1, <3>1, <3>2, <3>3
  <2> QED
    BY <2>2, <2>3
<1>4. CASE /\ cs # << >>
           /\ All(Append(hits, h)) = Append(Front(cs), Append(Last(cs), h))
  <2>1. Last(cs) \in Seq(Hits)
    BY <1>4, FrontAndLast
  <2>2. Append(Last(cs), h) \in Seq(Hits)
    BY <2>1, AppendProperties
  <2>3. Front(All(Append(hits, h))) = Front(cs)
    BY Zenon, <1>1, <1>4, <2>2, FrontOfAppend
  <2>4. Front(cs) \o << >> = Front(cs)
    BY <1>1, ConcatEmptySeq
  <2> QED
    BY Zenon, <1>1, <1>2, <2>3, <2>4
<1> QED
  BY <1>1, <1>3, <1>4, ClustersAppend

\* The clusters closed stay what they are when hits follow.
LEMMA ClosedStay ==
  ASSUME NEW hits \in Seq(Hits), NEW rest \in Seq(Hits)
  PROVE  \E more \in Seq(Seq(Hits)) : Front(All(hits \o rest)) = Front(All(hits)) \o more
<1> DEFINE upTo(n) == hits \o SubSeq(rest, 1, n)
           Stay(n) == \E more \in Seq(Seq(Hits)) :
                          Front(All(upTo(n))) = Front(All(hits)) \o more
           good == {n \in Nat : n <= Len(rest) => Stay(n)}
<1>1. Front(All(hits)) \in Seq(Seq(Hits)) /\ << >> \in Seq(Seq(Hits))
  BY ClustersType, EmptySeq
<1>2. 0 \in good
  <2>1. upTo(0) = hits
    BY ConcatEmptySeq
  <2>2. Front(All(hits)) = Front(All(hits)) \o << >>
    BY <1>1, ConcatEmptySeq
  <2>3. Stay(0)
    BY <1>1, <2>1, <2>2
  <2> HIDE DEF Stay
  <2> QED
    BY <2>3
<1>3. ASSUME NEW n \in Nat, n \in good PROVE n + 1 \in good
  <2> HIDE DEF Stay
  <2> SUFFICES ASSUME n + 1 <= Len(rest) PROVE Stay(n + 1)
    OBVIOUS
  <2>1. n < Len(rest) /\ n <= Len(rest)
    BY LenProperties
  <2>2. PICK s \in Seq(Hits), x \in Hits : /\ s = SubSeq(rest, 1, n)
                                           /\ SubSeq(rest, 1, n + 1) = Append(s, x)
    <3>1. /\ SubSeq(rest, 1, n) \in Seq(Hits) /\ rest[n + 1] \in Hits
          /\ SubSeq(rest, 1, n + 1) = Append(SubSeq(rest, 1, n), rest[n + 1])
      BY Zenon, <2>1, PrefixAppend
    <3> QED
      BY Zenon, <3>1
  <2>3. upTo(n) \in Seq(Hits) /\ upTo(n + 1) = Append(upTo(n), x)
    BY <2>2, ConcatAppend, ConcatProperties
  <2>4. PICK one \in Seq(Seq(Hits)) : Front(All(upTo(n))) = Front(All(hits)) \o one
    <3>1. Stay(n)
      BY <1>3, <2>1
    <3> QED
      BY <3>1 DEF Stay
  <2> HIDE DEF upTo
  <2>5. PICK two \in Seq(Seq(Hits)) : Front(All(upTo(n + 1))) = Front(All(upTo(n))) \o two
    BY Zenon, <2>3, ClosedAppend
  <2>6. PICK closed \in Seq(Seq(Hits)) : closed = Front(All(hits))
    BY <1>1
  <2>7. one \o two \in Seq(Seq(Hits)) /\ (closed \o one) \o two = closed \o (one \o two)
    OBVIOUS
  <2> QED
    BY Zenon, <2>4, <2>5, <2>6, <2>7 DEF Stay
<1>4. Len(rest) \in good
  <2> HIDE DEF good
  <2> QED
    BY <1>2, <1>3, SetInduction, LenProperties
<1>5. upTo(Len(rest)) = hits \o rest
  BY SubSeqFull
<1>6. Len(rest) <= Len(rest)
  BY LenProperties
<1>7. Stay(Len(rest))
  <2> HIDE DEF Stay
  <2> QED
    BY <1>4, <1>6
<1> HIDE DEF upTo
<1> QED
  BY <1>5, <1>7

\* What the splitter makes of one hit more.
LEMMA CollectedNext ==
  ASSUME NEW old \in Seq(Hits), NEW cs \in Seq(Seq(Hits)), NEW e \in Seq(Hits), NEW x \in Hits,
         e = << >> => cs = << >>,
         All(old) = IF e = << >> THEN << >> ELSE Append(cs, e)
  PROVE  All(Append(old, x)) = IF e # << >> /\ x.t - Last(e).t > Gap
                                 THEN Append(Append(cs, e), <<x>>)
                                 ELSE Append(cs, Append(e, x))
<1>1. CASE e = << >>
  <2>1. All(old) = << >> /\ cs = << >> /\ Append(e, x) = <<x>>
    BY <1>1
  <2> QED
    BY <1>1, <2>1, ClustersAppend
<1>2. CASE e # << >>
  <2>1. All(old) = Append(cs, e)
    BY <1>2
  <2>2. Front(Append(cs, e)) = cs /\ Last(Append(cs, e)) = e
    BY FrontOfAppend
  <2>3. Append(cs, e) # << >>
    BY AppendProperties
  <2>4. All(Append(old, x)) =
           IF Append(cs, e) = << >> \/ x.t - Last(Last(Append(cs, e))).t > Gap
             THEN Append(Append(cs, e), <<x>>)
             ELSE Append(Front(Append(cs, e)), Append(Last(Append(cs, e)), x))
    BY Zenon, <2>1, ClustersAppend
  <2> QED
    BY Zenon, <1>2, <2>2, <2>3, <2>4
<1> QED
  BY <1>1, <1>2
-----------------------------------------------------------------------------
(***************************************************************************)
(* The splitter                                                            *)
(***************************************************************************)
Cuts == clusters \o clusters_pending

\* Splitter has operators on sequences of its own, which are the same.
LEMMA SameOperators ==
  /\ \A s : Splitter!FlattenSeq(s) = FlattenSeq(s)
  /\ \A s : Splitter!ToSet(s) = ToSet(s)
  /\ \A s : Splitter!Last(s) = Last(s)
<1>1. ASSUME NEW s PROVE Splitter!FlattenSeq(s) = FlattenSeq(s)
  BY Zenon DEF Splitter!FlattenSeq, FlattenSeq
<1> QED
  BY <1>1 DEF Splitter!ToSet, ToSet, Splitter!Last, Last

\* Where the clusters of a sequence begin.
StartsOf(cs) == {1 + Len(FlattenSeq(SubSeq(cs, 1, n))) : n \in 0 .. Len(cs)}

SplitterState ==
    /\ splitter_pc \in {"test", "pop", "push", "drain", "exited"}
    /\ taken \in 0 .. Len(output) /\ output \in Seq(Hits)
    /\ entries \in Seq(Hits)
    /\ taken > 0 => entries # << >>
    /\ clusters \in Seq(Seq(Hits)) /\ clusters_pending \in Seq(Seq(Hits))
    /\ splitter_pc # "push" => clusters_pending = << >>

Partition == /\ FlattenSeq(Cuts) \o entries = SubSeq(output, 1, taken)
             /\ << >> \notin ToSet(Cuts)

CutsAtGaps == \A i \in 2 .. taken :
                  i \in StartsOf(Cuts) <=> output[i].t - output[i - 1].t > Gap

\* No cluster begins behind the one being collected.
StartsBehind == \A s \in StartsOf(Cuts) : s + Len(entries) <= taken + 1

\* The clusters cut so far and the one being collected are those of the hits popped.
Collected ==
    /\ entries = << >> => Cuts = << >>
    /\ All(SubSeq(output, 1, taken)) = IF entries = << >> THEN << >> ELSE Append(Cuts, entries)

SplitterInv == SplitterState /\ Partition /\ CutsAtGaps /\ StartsBehind /\ Collected

\* A cluster more begins where the hits of those before it end.
LEMMA StartsAppend ==
  ASSUME NEW cs \in Seq(Seq(Hits)), NEW e \in Seq(Hits)
  PROVE  StartsOf(Append(cs, e)) = StartsOf(cs) \cup {1 + Len(FlattenSeq(cs)) + Len(e)}
<1>1. PICK m \in Nat : m = Len(cs)
  BY LenProperties
<1>2. PICK ds \in Seq(Seq(Hits)) : ds = Append(cs, e)
  BY AppendProperties
<1>3. Len(ds) = m + 1 /\ \A i \in 1 .. m : ds[i] = cs[i]
  BY <1>1, <1>2, AppendProperties
<1>4. ASSUME NEW n \in 0 .. m PROVE SubSeq(ds, 1, n) = SubSeq(cs, 1, n)
  <2>1. /\ SubSeq(ds, 1, n) \in Seq(Seq(Hits)) /\ SubSeq(cs, 1, n) \in Seq(Seq(Hits))
        /\ Len(SubSeq(ds, 1, n)) = n /\ Len(SubSeq(cs, 1, n)) = n
        /\ \A i \in 1 .. n : SubSeq(ds, 1, n)[i] = ds[i] /\ SubSeq(cs, 1, n)[i] = cs[i]
    BY <1>1, <1>3, SubSeqProperties
  <2> QED
    BY <1>3, <2>1, SeqEqual
<1>5. SubSeq(ds, 1, m + 1) = ds
  BY <1>3, SubSeqFull
<1>6. Len(FlattenSeq(ds)) = Len(FlattenSeq(cs)) + Len(e)
  <2>1. FlattenSeq(ds) = FlattenSeq(cs) \o e /\ FlattenSeq(cs) \in Seq(Hits)
    BY <1>2, FlattenAppend, FlattenType
  <2> QED
    BY <2>1, ConcatProperties
<1>7. /\ Len(FlattenSeq(cs)) \in Nat /\ Len(e) \in Nat
      /\ 1 + Len(FlattenSeq(ds)) = 1 + Len(FlattenSeq(cs)) + Len(e)
  <2>1. FlattenSeq(cs) \in Seq(Hits)
    BY FlattenType
  <2> QED
    BY <1>6, <2>1, LenProperties
<1> DEFINE at(n) == 1 + Len(FlattenSeq(SubSeq(ds, 1, n)))
<1>8. StartsOf(ds) = {at(n) : n \in 0 .. m + 1}
  BY <1>3 DEF StartsOf
<1>9. {at(n) : n \in 0 .. m + 1} = {at(n) : n \in 0 .. m} \cup {at(m + 1)}
  <2> HIDE DEF at
  <2>1. 0 .. m + 1 = 0 .. m \cup {m + 1}
    OBVIOUS
  <2> QED
    BY <2>1
<1>10. {at(n) : n \in 0 .. m} = StartsOf(cs)
  BY <1>1, <1>4 DEF StartsOf
<1>11. at(m + 1) = 1 + Len(FlattenSeq(cs)) + Len(e)
  BY <1>5, <1>7
<1> QED
  BY <1>2, <1>8, <1>9, <1>10, <1>11

\* The splitter begins with nothing popped and no cluster.
LEMMA SplitterInit == GroupingInit => SplitterInv
<1> SUFFICES ASSUME GroupingInit PROVE SplitterInv
  OBVIOUS
<1>1. /\ splitter_pc = "test" /\ taken = 0 /\ output = << >> /\ entries = << >>
      /\ clusters = << >> /\ clusters_pending = << >>
  BY DEF GroupingInit, Init, Splitter!Init, Splitter!TaskInit, Splitter!OutputInit, OutputInit
<1>2. SplitterState
  BY <1>1 DEF SplitterState
<1>3. Cuts = << >>
  BY <1>1 DEF Cuts
<1>4. Partition
  <2>1. FlattenSeq(Cuts) = << >>
    BY <1>3, FlattenEmpty, Zenon
  <2>2. SubSeq(output, 1, taken) = << >>
    BY <1>1
  <2>3. FlattenSeq(Cuts) \o entries = << >> /\ << >> \notin ToSet(Cuts)
    BY <1>1, <1>3, <2>1 DEF ToSet
  <2> QED
    BY <2>2, <2>3 DEF Partition
<1>5. CutsAtGaps
  BY <1>1 DEF CutsAtGaps
<1>6. StartsBehind
  <2>1. StartsOf(Cuts) = {1}
    <3>1. SubSeq(Cuts, 1, 0) = << >>
      BY <1>3
    <3>2. FlattenSeq(SubSeq(Cuts, 1, 0)) = << >>
      BY <3>1, FlattenEmpty, Zenon
    <3>3. Len(Cuts) = 0 /\ 0 .. 0 = {0}
      BY <1>3
    <3> QED
      BY <3>2, <3>3 DEF StartsOf
  <2> QED
    BY <1>1, <2>1 DEF StartsBehind
<1>7. Collected
  <2>1. SubSeq(output, 1, taken) = << >>
    BY <1>1
  <2>2. All(<< >>) = << >>
    BY Zenon, ClusterFold!FoldEmpty DEF All
  <2> QED
    BY <1>1, <1>3, <2>1, <2>2 DEF Collected
<1> QED
  BY <1>2, <1>4, <1>5, <1>6, <1>7 DEF SplitterInv

\* What holds of the clusters stays when no hit is popped.
LEMMA SameClusters ==
  ASSUME SplitterInv, taken' = taken, entries' = entries, Cuts' = Cuts,
         output' \in Seq(Hits), Len(output) <= Len(output'),
         \A i \in 1 .. Len(output) : output'[i] = output[i]
  PROVE  Partition' /\ CutsAtGaps' /\ StartsBehind' /\ Collected'
<1> USE DEF SplitterInv
<1>1. /\ output \in Seq(Hits) /\ taken \in 0 .. Len(output)
      /\ Len(output) \in Nat /\ Len(output') \in Nat
  BY LenProperties DEF SplitterState
<1>2. SubSeq(output', 1, taken) = SubSeq(output, 1, taken)
  <2>1. /\ SubSeq(output, 1, taken) \in Seq(Hits) /\ SubSeq(output', 1, taken) \in Seq(Hits)
        /\ Len(SubSeq(output, 1, taken)) = taken /\ Len(SubSeq(output', 1, taken)) = taken
        /\ \A i \in 1 .. taken : SubSeq(output, 1, taken)[i] = output[i]
                                 /\ SubSeq(output', 1, taken)[i] = output'[i]
    BY <1>1, SubSeqProperties
  <2>2. \A i \in 1 .. taken : SubSeq(output', 1, taken)[i] = SubSeq(output, 1, taken)[i]
    BY <1>1, <2>1
  <2> QED
    BY <2>1, <2>2, SeqEqual
<1>3. Partition'
  BY <1>2 DEF Partition
<1>4. StartsOf(Cuts)' = StartsOf(Cuts)
  BY DEF StartsOf
<1>5. CutsAtGaps'
  <2> SUFFICES ASSUME NEW i \in 2 .. taken
               PROVE  i \in StartsOf(Cuts) <=> output'[i].t - output'[i - 1].t > Gap
    BY <1>4 DEF CutsAtGaps
  <2>1. output'[i] = output[i] /\ output'[i - 1] = output[i - 1]
    BY <1>1
  <2> QED
    BY <2>1 DEF CutsAtGaps
<1>6. StartsBehind'
  BY <1>4 DEF StartsBehind
<1>7. Collected'
  <2>1. All(SubSeq(output, 1, taken))' = All(SubSeq(output', 1, taken))
    BY Zenon DEF All
  <2> QED
    BY <1>2, <2>1 DEF Collected
<1> QED
  BY <1>3, <1>5, <1>6, <1>7

\* The hit popped last is the last of the cluster being collected.
LEMMA LastOfCluster ==
  ASSUME SplitterInv, entries # << >>
  PROVE  taken > 0 /\ Last(entries) = output[taken] /\ Len(FlattenSeq(Cuts)) + Len(entries) = taken
<1> USE DEF SplitterInv
<1>1. /\ output \in Seq(Hits) /\ taken \in 0 .. Len(output) /\ Len(output) \in Nat
      /\ entries \in Seq(Hits) /\ Len(entries) \in Nat \ {0}
  BY LenProperties, EmptySeq DEF SplitterState
<1>2. PICK flat \in Seq(Hits) : flat = FlattenSeq(Cuts)
  BY FlattenType, ConcatProperties DEF SplitterState, Cuts
<1>3. /\ Len(flat) \in Nat /\ Len(flat \o entries) = Len(flat) + Len(entries)
      /\ (flat \o entries)[Len(flat) + Len(entries)] = entries[Len(entries)]
  BY <1>1, ConcatProperties, LenProperties
<1>4. /\ Len(SubSeq(output, 1, taken)) = taken
      /\ taken > 0 => SubSeq(output, 1, taken)[taken] = output[taken]
  BY <1>1, SubSeqProperties
<1>5. flat \o entries = SubSeq(output, 1, taken)
  BY <1>2 DEF Partition
<1>6. Len(flat) + Len(entries) = taken
  BY <1>3, <1>4, <1>5
<1> QED
  BY <1>1, <1>2, <1>3, <1>4, <1>5, <1>6 DEF Last

\* The hit extends the cluster, or closes it and starts the next one.
LEMMA SplitterPopStep ==
  ASSUME SplitterInv, Splitter!Pop
  PROVE  SplitterInv'
<1> USE DEF SplitterInv
<1>1. PICK n \in Nat : n = taken
  BY LenProperties DEF SplitterState
<1>2. PICK x : x = Splitter!NextItem
  OBVIOUS
<1>3. /\ splitter_pc = "pop" /\ splitter_pc' = "push" /\ n < Len(output) /\ taken' = n + 1
      /\ output' = output /\ clusters' = clusters /\ clusters_pending = << >>
      /\ x = output[n + 1]
  BY <1>1, <1>2 DEF Splitter!Pop, Splitter!PopNext, Splitter!ItemWaiting, Splitter!NextItem,
     SplitterState
<1>4. /\ output \in Seq(Hits) /\ Len(output) \in Nat /\ entries \in Seq(Hits)
      /\ clusters \in Seq(Seq(Hits)) /\ n + 1 \in 1 .. Len(output)
  BY <1>3, LenProperties DEF SplitterState
<1>5. x \in Hits
  BY <1>3, <1>4, ElementOfSeq
<1>6. Cuts = clusters
  BY <1>3, <1>4, ConcatEmptySeq DEF Cuts
<1>7. PICK flat \in Seq(Hits) : flat = FlattenSeq(clusters)
  BY <1>4, FlattenType
<1>8. PICK old \in Seq(Hits) : old = SubSeq(output, 1, n) /\ flat \o entries = old
  <2>1. flat \o entries \in Seq(Hits)
    BY <1>4, ConcatProperties
  <2> QED
    BY <1>1, <1>6, <1>7, <2>1 DEF Partition
<1>9. SubSeq(output, 1, n + 1) = Append(old, x)
  BY <1>3, <1>4, <1>8, SubSeqRecursiveSecond
<1>10. << >> \notin ToSet(clusters)
  BY <1>6 DEF Partition
<1>11. \A i \in 2 .. n : i \in StartsOf(clusters) <=> output[i].t - output[i - 1].t > Gap
  BY <1>1, <1>6 DEF CutsAtGaps
<1>12. Len(entries) \in Nat /\ \A s \in StartsOf(clusters) : s + Len(entries) <= n + 1
  BY <1>1, <1>4, <1>6, LenProperties DEF StartsBehind
<1>13. StartsOf(clusters) \subseteq Int
  <2> SUFFICES ASSUME NEW m \in 0 .. Len(clusters)
               PROVE  1 + Len(FlattenSeq(SubSeq(clusters, 1, m))) \in Int
    BY DEF StartsOf
  <2>1. SubSeq(clusters, 1, m) \in Seq(Seq(Hits))
    BY <1>4, LenProperties, SubSeqProperties
  <2>2. FlattenSeq(SubSeq(clusters, 1, m)) \in Seq(Hits)
    BY <2>1, FlattenType
  <2> QED
    BY <2>2, LenProperties
<1>14. entries # << >> => n > 0 /\ Last(entries) = output[n] /\ Len(flat) + Len(entries) = n
  BY <1>1, <1>6, <1>7, LastOfCluster
<1>15. n > 0 => output[n] \in Hits
  <2> SUFFICES ASSUME n > 0 PROVE output[n] \in Hits
    OBVIOUS
  <2>1. n \in 1 .. Len(output)
    BY <1>3, <1>4
  <2> QED
    BY <1>4, <2>1, ElementOfSeq
<1>16. All(Append(old, x)) = IF entries # << >> /\ x.t - Last(entries).t > Gap
                               THEN Append(Append(clusters, entries), <<x>>)
                               ELSE Append(clusters, Append(entries, x))
  <2>1. /\ entries = << >> => clusters = << >>
        /\ All(old) = IF entries = << >> THEN << >> ELSE Append(clusters, entries)
    BY <1>1, <1>6, <1>8 DEF Collected
  <2> QED
    BY Zenon, <1>4, <1>5, <2>1, CollectedNext
<1>17. CASE entries = << >> \/ Splitter!Joins(x)
  <2>1. entries' = Append(entries, x) /\ clusters_pending' = << >>
    BY <1>2, <1>17 DEF Splitter!Pop
  <2>2. Cuts' = clusters
    BY <1>3, <1>4, <2>1, ConcatEmptySeq DEF Cuts
  <2>3. entries' \in Seq(Hits) /\ entries' # << >> /\ Len(entries') = Len(entries) + 1
    BY <1>4, <1>5, <2>1, AppendProperties, EmptySeq
  <2>4. SplitterState'
    BY <1>3, <1>4, <2>1, <2>3 DEF SplitterState
  <2>5. Partition'
    <3>1. flat \o Append(entries, x) = Append(old, x)
      BY <1>4, <1>5, <1>8, ConcatAppend, SMTT(30)
    <3> QED
      BY <1>3, <1>7, <1>9, <1>10, <2>1, <2>2, <3>1 DEF Partition
  <2>6. StartsBehind'
    <3>1. StartsOf(Cuts)' = StartsOf(clusters)
      BY <2>2 DEF StartsOf
    <3> QED
      BY <1>3, <1>12, <1>13, <2>3, <3>1 DEF StartsBehind
  <2>7. CutsAtGaps'
    <3>1. StartsOf(Cuts)' = StartsOf(clusters)
      BY <2>2 DEF StartsOf
    <3> SUFFICES ASSUME NEW i \in 2 .. n + 1
                 PROVE  i \in StartsOf(clusters) <=> output[i].t - output[i - 1].t > Gap
      BY <1>3, <3>1 DEF CutsAtGaps
    <3>2. CASE i \in 2 .. n
      BY <1>11, <3>2
    <3>3. CASE i = n + 1
      <4>1. n > 0
        BY <3>3
      <4>2. entries # << >>
        BY <1>1, <4>1 DEF SplitterState
      <4>3. Len(entries) > 0
        BY <1>4, <4>2, EmptySeq
      <4>4. n + 1 \notin StartsOf(clusters)
        BY <1>12, <4>3
      <4>5. x.t - output[n].t <= Gap
        BY <1>14, <1>17, <4>2, SameOperators DEF Splitter!Joins
      <4>6. x.t \in Int /\ output[n].t \in Int
        BY <1>5, <1>15, <4>1, HitsAssumption
      <4> QED
        BY <1>3, <3>3, <4>4, <4>5, <4>6, GapAssumption
    <3> QED
      BY <3>2, <3>3
  <2>8. Collected'
    <3>1. ~(entries # << >> /\ x.t - Last(entries).t > Gap)
      <4> SUFFICES ASSUME entries # << >> PROVE ~(x.t - Last(entries).t > Gap)
        OBVIOUS
      <4>1. x.t - Last(entries).t <= Gap
        BY <1>17, SameOperators DEF Splitter!Joins
      <4>2. x.t \in Int /\ Last(entries).t \in Int
        BY <1>5, <1>14, <1>15, HitsAssumption
      <4> QED
        BY <4>1, <4>2, GapAssumption
    <3>2. All(SubSeq(output, 1, taken))' = All(Append(old, x))
      BY Zenon, <1>3, <1>9 DEF All
    <3> QED
      BY Zenon, <1>16, <2>1, <2>2, <2>3, <3>1, <3>2 DEF Collected
  <2> QED
    BY <2>4, <2>5, <2>6, <2>7, <2>8
<1>18. CASE ~(entries = << >> \/ Splitter!Joins(x))
  <2>1. entries' = <<x>> /\ clusters_pending' = <<entries>>
    BY <1>2, <1>18 DEF Splitter!Pop
  <2>2. Cuts' = Append(clusters, entries)
    BY <1>3, <1>4, <2>1, AppendIsConcat DEF Cuts
  <2>3. entries' \in Seq(Hits) /\ entries' # << >> /\ Len(entries') = 1
    BY <1>5, <2>1
  <2>4. clusters_pending' \in Seq(Seq(Hits))
    BY <1>4, <2>1
  <2>5. SplitterState'
    BY <1>3, <1>4, <2>3, <2>4 DEF SplitterState
  <2>6. Partition'
    <3>1. FlattenSeq(Append(clusters, entries)) = old
      BY <1>4, <1>7, <1>8, FlattenAppend
    <3>2. old \o <<x>> = Append(old, x)
      BY <1>5, AppendIsConcat
    <3>3. ToSet(Append(clusters, entries)) = ToSet(clusters) \cup {entries}
      BY <1>4, ToSetAppend
    <3> QED
      BY <1>3, <1>9, <1>10, <1>18, <2>1, <2>2, <3>1, <3>2, <3>3 DEF Partition
  <2>7. n > 0 /\ Last(entries) = output[n] /\ Len(flat) + Len(entries) = n
    BY <1>14, <1>18
  <2>8. StartsOf(Cuts)' = StartsOf(clusters) \cup {n + 1}
    <3>1. StartsOf(Append(clusters, entries))
              = StartsOf(clusters) \cup {1 + Len(FlattenSeq(clusters)) + Len(entries)}
      BY <1>4, StartsAppend
    <3>2. 1 + Len(FlattenSeq(clusters)) + Len(entries) = n + 1
      BY <1>7, <1>12, <2>7, LenProperties
    <3> QED
      BY <2>2, <3>1, <3>2 DEF StartsOf
  <2>9. StartsBehind'
    BY <1>3, <1>12, <1>13, <2>3, <2>8 DEF StartsBehind
  <2>10. CutsAtGaps'
    <3> SUFFICES ASSUME NEW i \in 2 .. n + 1
                 PROVE  i \in StartsOf(clusters) \cup {n + 1}
                            <=> output[i].t - output[i - 1].t > Gap
      BY <1>3, <2>8 DEF CutsAtGaps
    <3>1. CASE i \in 2 .. n
      BY <1>11, <3>1
    <3>2. CASE i = n + 1
      <4>1. ~(x.t - output[n].t <= Gap)
        BY <1>18, <2>7, SameOperators DEF Splitter!Joins
      <4>2. x.t \in Int /\ output[n].t \in Int
        BY <1>5, <1>15, <2>7, HitsAssumption
      <4> QED
        BY <1>3, <3>2, <4>1, <4>2, GapAssumption
    <3> QED
      BY <3>1, <3>2
  <2>11. Collected'
    <3>1. entries # << >> /\ x.t - Last(entries).t > Gap
      <4>1. ~(x.t - Last(entries).t <= Gap)
        BY <1>18, SameOperators DEF Splitter!Joins
      <4>2. x.t \in Int /\ Last(entries).t \in Int
        BY <1>5, <1>15, <2>7, HitsAssumption
      <4> QED
        BY <1>18, <4>1, <4>2, GapAssumption
    <3>2. All(SubSeq(output, 1, taken))' = All(Append(old, x))
      BY Zenon, <1>3, <1>9 DEF All
    <3> QED
      BY Zenon, <1>16, <2>1, <2>2, <2>3, <3>1, <3>2 DEF Collected
  <2> QED
    BY <2>5, <2>6, <2>9, <2>10, <2>11
<1> QED
  BY <1>17, <1>18

\* Every step of the splitter that pops no hit, and the trigger's.
LEMMA OtherSplitterSteps ==
  ASSUME SplitterInv, output' = output, taken' = taken, entries' = entries,
         \/ Splitter!Test /\ UNCHANGED <<clusters_pending, clusters>>
         \/ Splitter!TimedOut /\ UNCHANGED <<clusters_pending, clusters>>
         \/ Splitter!Push
         \/ Splitter!Handled
         \/ Splitter!Exit
         \/ Splitter!Take
         \/ UNCHANGED splitterOnly
         \/ UNCHANGED <<splitter_pc, clusters_pending, clusters>>
  PROVE  SplitterInv'
<1> USE DEF SplitterInv
<1>1. /\ output \in Seq(Hits) /\ Len(output) \in Nat
      /\ clusters \in Seq(Seq(Hits)) /\ clusters_pending \in Seq(Seq(Hits))
  BY LenProperties DEF SplitterState
<1>2. CASE Splitter!Push
  <2>1. /\ splitter_pc' = splitter_pc /\ splitter_pc \in {"push", "drain"}
        /\ clusters_pending # << >>
        /\ clusters' = Append(clusters, Head(clusters_pending))
        /\ clusters_pending' = Tail(clusters_pending)
    BY <1>2 DEF Splitter!Push
  <2>2. Cuts' = Cuts
    BY <1>1, <2>1, HeadMoves DEF Cuts
  <2>3. splitter_pc = "push"
    BY <2>1 DEF SplitterState
  <2>4. /\ Head(clusters_pending) \in Seq(Hits) /\ Tail(clusters_pending) \in Seq(Seq(Hits))
    BY <1>1, <2>1, HeadTailProperties
  <2>5. clusters' \in Seq(Seq(Hits)) /\ clusters_pending' \in Seq(Seq(Hits))
    BY <1>1, <2>1, <2>4, AppendProperties
  <2>6. SplitterState'
    BY <2>1, <2>3, <2>5 DEF SplitterState
  <2> QED
    BY <1>1, <2>2, <2>6, SameClusters
<1>3. CASE ~Splitter!Push
  <2>1. clusters' = clusters /\ clusters_pending' = clusters_pending
    BY <1>3 DEF Splitter!Handled, Splitter!Exit, Splitter!Take, splitterOnly
  <2>2. Cuts' = Cuts
    BY <2>1 DEF Cuts
  <2>3. SplitterState'
    BY <1>3, <2>1 DEF SplitterState, Splitter!Test, Splitter!TimedOut, Splitter!Handled,
       Splitter!Exit, Splitter!Take, splitterOnly
  <2> QED
    BY <1>1, <2>2, <2>3, SameClusters
<1> QED
  BY <1>2, <1>3

\* The buffer pushes a hit behind those the splitter has popped, or none.
LEMMA BufferBehind ==
  ASSUME BufferInv, SplitterInv, BufferStep \/ HitArrives \/ FinishBuffer
  PROVE  SplitterInv'
<1> USE DEF SplitterInv
<1>1. /\ output \in Seq(Hits) /\ Len(output) \in Nat /\ pending \in Seq(Hits)
  BY LenProperties DEF BufferInv, BufferState
<1>2. taken' = taken /\ UNCHANGED splitterOnly
  BY DEF BufferStep, Run, TestAndDrain, Pop, Push, Handled, Exit, HitArrives, FinishBuffer
<1>3. \/ output' = output
      \/ pending # << >> /\ output' = Append(output, Head(pending))
  <2>1. CASE BufferStep
    BY <2>1 DEF BufferStep, Run, TestAndDrain, Pop, TimedOut, Push, Handled, Exit
  <2>2. CASE HitArrives \/ FinishBuffer
    BY <2>2 DEF HitArrives, FinishBuffer
  <2> QED
    BY <2>1, <2>2
<1>4. /\ output' \in Seq(Hits) /\ Len(output') \in Nat /\ Len(output) <= Len(output')
      /\ \A i \in 1 .. Len(output) : output'[i] = output[i]
  <2>1. CASE output' = output
    BY <1>1, <2>1
  <2>2. CASE pending # << >> /\ output' = Append(output, Head(pending))
    <3>1. Head(pending) \in Hits
      BY <1>1, <2>2, HeadTailProperties
    <3> QED
      BY <1>1, <2>2, <3>1, AppendProperties
  <2> QED
    BY <1>3, <2>1, <2>2
<1>5. SplitterState'
  BY <1>1, <1>2, <1>4 DEF SplitterState, splitterOnly
<1>6. Cuts' = Cuts /\ entries' = entries
  BY <1>2 DEF Cuts, splitterOnly
<1> QED
  BY <1>2, <1>4, <1>5, <1>6, SameClusters
-----------------------------------------------------------------------------
(***************************************************************************)
(* Both together                                                           *)
(***************************************************************************)
IInv == BufferInv /\ SplitterInv

\* The buffer begins with nothing popped.
LEMMA BufferInit == GroupingInit => BufferInv
<1> SUFFICES ASSUME GroupingInit PROVE BufferInv
  OBVIOUS
<1>1. /\ pc = "test" /\ entries_processed = 0 /\ input = << >> /\ output = << >>
      /\ pending = << >> /\ buffer = {}
  BY DEF GroupingInit, Init, TaskInit, OutputInit
<1>2. Out = << >> /\ ToSet(Out) = {} /\ Len(Out) = 0
  BY <1>1 DEF Out, ToSet
<1>3. BufferState
  BY <1>1, FS_EmptySet DEF BufferState
<1>4. Conserved
  BY <1>1, <1>2, FS_EmptySet DEF Conserved, Arrived
<1>5. LeftLate
  BY <1>2 DEF LeftLate
<1>6. Ordered
  BY <1>1, <1>2 DEF Ordered, InOrder
<1> QED
  BY <1>3, <1>4, <1>5, <1>6 DEF BufferInv

\* Every step of the two tasks, and of those around them, keeps the invariant.
LEMMA NextIInv == ASSUME IInv, [Next]_vars PROVE IInv'
<1> USE DEF IInv
<1>1. CASE BufferStep
  <2>1. BufferInv'
    BY <1>1, TestStep, PopStep, OtherBufferSteps DEF BufferStep, Run
  <2> QED
    BY <1>1, <2>1, BufferBehind
<1>2. CASE HitArrives
  BY <1>2, ArriveStep, BufferBehind
<1>3. CASE FinishBuffer
  <2>1. BufferInv'
    BY <1>3, OtherBufferSteps DEF FinishBuffer
  <2> QED
    BY <1>3, <2>1, BufferBehind
<1>4. CASE SplitterStep
  <2>1. output' = output
    BY <1>4 DEF SplitterStep, Splitter!Run, Splitter!Test, Splitter!Pop, Splitter!PopNext,
       Splitter!TimedOut
  <2>2. BufferInv'
    BY <1>4, <2>1, OtherBufferSteps DEF SplitterStep
  <2>3. CASE Splitter!Pop
    BY <2>2, <2>3, SplitterPopStep
  <2>4. CASE ~Splitter!Pop
    <3>1. taken' = taken /\ entries' = entries
      BY <1>4, <2>4 DEF SplitterStep, Splitter!Run, Splitter!Test, Splitter!TimedOut,
         Splitter!Push, Splitter!Handled, Splitter!Exit
    <3>2. \/ Splitter!Test /\ UNCHANGED <<clusters_pending, clusters>>
          \/ Splitter!TimedOut /\ UNCHANGED <<clusters_pending, clusters>>
          \/ Splitter!Push \/ Splitter!Handled \/ Splitter!Exit
      BY <1>4, <2>4 DEF SplitterStep, Splitter!Run
    <3> QED
      BY <2>1, <2>2, <3>1, <3>2, OtherSplitterSteps
  <2> QED
    BY <2>3, <2>4
<1>5. CASE TakeCluster
  <2>1. output' = output /\ taken' = taken /\ entries' = entries
    BY <1>5 DEF TakeCluster, Splitter!Take
  <2>2. BufferInv'
    BY <1>5, <2>1, OtherBufferSteps DEF TakeCluster
  <2> QED
    BY <1>5, <2>1, <2>2, OtherSplitterSteps DEF TakeCluster
<1>6. CASE FinishSplitter
  <2>1. /\ output' = output /\ taken' = taken /\ entries' = entries
        /\ UNCHANGED <<splitter_pc, clusters_pending, clusters>>
    BY <1>6 DEF FinishSplitter, Splitter!Finish
  <2>2. BufferInv'
    BY <1>6, <2>1, OtherBufferSteps DEF FinishSplitter
  <2> QED
    BY <2>1, <2>2, OtherSplitterSteps
<1>7. CASE UNCHANGED vars
  <2>1. /\ UNCHANGED <<bufferOnly, output>> /\ taken' = taken /\ entries' = entries
        /\ UNCHANGED splitterOnly
    BY <1>7 DEF vars, splitterOnly
  <2>2. BufferInv'
    BY <2>1, OtherBufferSteps
  <2> QED
    BY <2>1, <2>2, OtherSplitterSteps
<1> QED
  BY <1>1, <1>2, <1>3, <1>4, <1>5, <1>6, <1>7 DEF Next

\* The buffer and the splitter keep the invariant whatever the order of their
\* steps, the arrivals and the calls of Finish.
THEOREM Invariance == Spec => []IInv
<1>1. GroupingInit => IInv
  BY BufferInit, SplitterInit DEF IInv
<1> QED
  BY <1>1, NextIInv, PTL DEF Spec

\* No hit is lost or doubled in the buffer, and it exits with all of them pushed.
THEOREM HitsConservedCorrect == Spec => []HitsConserved
<1>1. IInv => HitsConserved
  <2> SUFFICES ASSUME IInv PROVE HitsConserved
    OBVIOUS
  <2> USE DEF IInv, BufferInv
  <2>1. ToSet(Popped) = Arrived(entries_processed)
    BY PoppedIsArrived
  <2>2. ASSUME pc = "exited" PROVE Len(output) = entries_processed
    <3>1. Out = output /\ Cardinality(buffer) = 0 /\ Len(output) \in Nat
      BY <2>2, FS_EmptySet, ConcatEmptySeq, LenProperties DEF BufferState, Out
    <3> QED
      BY <3>1 DEF Conserved
  <2> QED
    BY <2>1, <2>2 DEF HitsConserved, Conserved, Out
<1> QED
  BY Invariance, <1>1, PTL

\* A buffer of Size hits undoes a disorder of Size hits, whichever of the earliest
\* hits the priority queue gives away among equal ones.
THEOREM OrderedWithinSizeCorrect == Spec => []OrderedWithinSize
<1>1. IInv => OrderedWithinSize
  BY DEF IInv, BufferInv, Ordered, WithinSize, InOrder, Out, OrderedWithinSize
<1> QED
  BY Invariance, <1>1, PTL

\* The clusters and the one being collected are the hits popped, none lost, doubled
\* or moved, in whichever order they came.
THEOREM PartitionCorrect == Spec => []ClustersPartitionTheHits
<1>1. IInv => ClustersPartitionTheHits
  BY SameOperators DEF IInv, SplitterInv, Partition, Cuts, ClustersPartitionTheHits,
     Splitter!ClustersPartitionTheHits, Splitter!Clusters, Splitter!Popped
<1> QED
  BY Invariance, <1>1, PTL

\* A cluster begins at the hits that are more than the gap behind the one before,
\* and nowhere else.
THEOREM CutsCorrect == Spec => []CutAtEveryGap
<1>1. IInv => CutAtEveryGap
  BY SameOperators DEF IInv, SplitterInv, CutsAtGaps, StartsOf, Cuts, CutAtEveryGap,
     Splitter!CutAtEveryGap, Splitter!Clusters
<1> QED
  BY Invariance, <1>1, PTL

\* The two together: while no hit arrives after more than Size later ones, the
\* hits of the clusters, read one cluster after the other, are in order of time.
ClustersInOrderOfTime ==
    WithinSize(entries_processed) => InOrder(FlattenSeq(Cuts) \o entries)

\* What the buffer puts in order stays so through the splitter: each cluster is what
\* lies between two gaps of the time axis.
THEOREM ClustersInOrder == Spec => []ClustersInOrderOfTime
<1>1. IInv => ClustersInOrderOfTime
  <2> SUFFICES ASSUME IInv, WithinSize(entries_processed)
               PROVE  InOrder(FlattenSeq(Cuts) \o entries)
    BY DEF ClustersInOrderOfTime
  <2>1. PICK hits : hits = SubSeq(output, 1, taken) /\ hits = FlattenSeq(Cuts) \o entries
    BY DEF IInv, SplitterInv, Partition
  <2>2. /\ output \in Seq(Hits) /\ pending \in Seq(Hits) /\ taken \in 0 .. Len(output)
        /\ Len(output) \in Nat /\ Len(pending) \in Nat
    BY LenProperties DEF IInv, BufferInv, BufferState, SplitterInv, SplitterState
  <2>3. DOMAIN hits = 1 .. taken /\ \A i \in 1 .. taken : hits[i] = output[i]
    BY <2>2, <2>1, SubSeqProperties, LenProperties
  <2>4. /\ DOMAIN Out = 1 .. Len(output) + Len(pending)
        /\ \A i \in 1 .. Len(output) : Out[i] = output[i]
    BY <2>2, ConcatProperties, LenProperties DEF Out
  <2>5. InOrder(Out)
    BY DEF IInv, BufferInv, Ordered
  <2> SUFFICES ASSUME NEW i \in 1 .. taken, NEW j \in 1 .. taken, i < j
               PROVE  ~Earlier(output[j], output[i])
    <3>1. InOrder(hits)
      BY <2>3 DEF InOrder
    <3> QED
      BY <2>1, <3>1
  <2>6. i \in DOMAIN Out /\ j \in DOMAIN Out /\ Out[i] = output[i] /\ Out[j] = output[j]
    BY <2>2, <2>4
  <2> QED
    BY <2>5, <2>6 DEF InOrder
<1> QED
  BY Invariance, <1>1, PTL

\* While no hit arrives after more than Size later ones, those popped have an order in
\* time that begins with the ones the buffer has pushed.
LEMMA WholeOrder ==
  ASSUME BufferInv, WithinSize(entries_processed)
  PROVE  \E order \in Orders(ToSet(Popped)), rest \in Seq(Hits) : order = output \o rest
<1> USE DEF BufferInv
<1>1. PICK n \in Nat : n = entries_processed /\ n <= Len(input)
  BY LenProperties DEF BufferState
<1>2. /\ Out \in Seq(Hits) /\ output \in Seq(Hits) /\ pending \in Seq(Hits)
      /\ buffer \in SUBSET Hits /\ IsFiniteSet(buffer) /\ InOrder(Out)
      /\ \A h \in buffer, o \in ToSet(Out) : ~Earlier(h, o)
  BY ConcatProperties DEF BufferState, Out, Ordered
<1>3. PICK drain \in Orders(buffer) : TRUE
  BY <1>2, OrderExists
<1>4. /\ drain \in Seq(Hits) /\ ToSet(drain) = buffer /\ Len(drain) = Cardinality(buffer)
      /\ InOrder(drain)
  BY Zenon, <1>2, OrderHasAll
<1>5. InOrder(Out \o drain)
  BY <1>2, <1>4, InOrderConcat
<1>6. PICK order \in Seq(Hits) : order = Out \o drain
  BY <1>2, <1>4, ConcatProperties
<1>7. ToSet(order) = Arrived(n)
  <2>1. ToSet(order) = ToSet(Out) \cup buffer
    BY <1>2, <1>4, <1>6, ToSetConcat
  <2> QED
    BY <1>1, <2>1 DEF Conserved
<1>8. IsFiniteSet(Arrived(n)) /\ Cardinality(Arrived(n)) = n /\ Arrived(n) \in SUBSET Hits
  <2> DEFINE arrived == [i \in 1 .. n |-> input[i]]
  <2>1. IsFiniteSet(1 .. n) /\ Cardinality(1 .. n) = n
    BY FS_Interval
  <2>2. /\ input \in Seq(Hits) /\ Len(input) \in Nat
        /\ \A i, j \in 1 .. n : input[i].from = input[j].from => i = j
    BY <1>1, LenProperties DEF BufferState
  <2>3. \A i \in 1 .. n : input[i] \in Hits
    BY <1>1, <2>2, ElementOfSeq
  <2>4. arrived \in Bijection(1 .. n, Arrived(n))
    <3>1. arrived \in [1 .. n -> Arrived(n)]
      BY DEF Arrived
    <3>2. \A i, j \in 1 .. n : arrived[i] = arrived[j] => i = j
      BY <2>2
    <3>3. \A h \in Arrived(n) : \E i \in 1 .. n : arrived[i] = h
      BY DEF Arrived
    <3> QED
      BY <3>1, <3>2, <3>3 DEF Bijection, Injection, Surjection, IsInjective
  <2>5. IsFiniteSet(Arrived(n)) /\ Cardinality(Arrived(n)) = n
    <3> HIDE DEF arrived
    <3>1. ExistsBijection(1 .. n, Arrived(n))
      BY <2>4 DEF ExistsBijection
    <3> QED
      BY <2>1, <3>1, FS_Bijection
  <2> QED
    BY <2>3, <2>5 DEF Arrived
<1>9. Len(order) = n
  <2>1. Len(order) = Len(Out) + Len(drain) /\ Len(Out) \in Nat
    BY <1>2, <1>4, <1>6, ConcatProperties, LenProperties
  <2>2. Cardinality(buffer) \in Nat
    BY <1>2, FS_CardinalityType
  <2> QED
    BY <1>1, <1>4, <2>1, <2>2 DEF Conserved
<1>10. order \in Orders(Arrived(n))
  BY <1>5, <1>6, <1>7, <1>8, <1>9, IsAnOrder
<1>11. Arrived(n) = ToSet(Popped)
  BY <1>1, PoppedIsArrived
<1>12. pending \o drain \in Seq(Hits) /\ order = output \o (pending \o drain)
  BY <1>2, <1>4, <1>6, ConcatProperties DEF Out
<1> QED
  BY <1>10, <1>11, <1>12

\* Also the clusters of those hits, the last of them excepted: those that have been
\* pushed are the first of the clusters of some order in time of the hits that the
\* buffer has popped, whichever of the hits it still holds.
ClustersOfAnOrder ==
    WithinSize(entries_processed) =>
        \E order \in Orders(ToSet(Popped)), more \in Seq(Seq(Hits)) :
            Splitter!ClosedClusters(order) = clusters \o more

\* The buffer and the splitter together make the clusters that the hits have on the
\* axis of time, while no hit arrives after more than Size later ones.
THEOREM ClustersOfAnOrderCorrect == Spec => []ClustersOfAnOrder
<1>1. IInv => ClustersOfAnOrder
  <2> SUFFICES ASSUME IInv, WithinSize(entries_processed)
               PROVE  \E order \in Orders(ToSet(Popped)), more \in Seq(Seq(Hits)) :
                          Splitter!ClosedClusters(order) = clusters \o more
    BY DEF ClustersOfAnOrder
  <2> USE DEF IInv
  <2>1. PICK order \in Orders(ToSet(Popped)), rest \in Seq(Hits) : order = output \o rest
    BY WholeOrder
  <2>2. PICK n \in Nat : n = taken /\ n <= Len(output)
    BY LenProperties DEF SplitterInv, SplitterState
  <2>3. /\ output \in Seq(Hits) /\ clusters \in Seq(Seq(Hits))
        /\ clusters_pending \in Seq(Seq(Hits)) /\ entries \in Seq(Hits)
    BY DEF SplitterInv, SplitterState
  <2>4. PICK popped \in Seq(Hits), behind \in Seq(Hits) :
           popped = SubSeq(output, 1, n) /\ output = popped \o behind
    <3>1. n \in 0 .. Len(output)
      BY <2>2, <2>3, LenProperties
    <3>2. SubSeq(output, 1, n) \in Seq(Hits)
      BY <2>3, <3>1, PrefixProperties
    <3>3. \E behind \in Seq(Hits) : output = SubSeq(output, 1, n) \o behind
      BY <2>3, <3>1, PrefixAndRest
    <3> QED
      BY Zenon, <3>2, <3>3
  <2>5. behind \o rest \in Seq(Hits) /\ order = popped \o (behind \o rest)
    <3>1. /\ behind \o rest \in Seq(Hits)
          /\ (popped \o behind) \o rest = popped \o (behind \o rest)
      OBVIOUS
    <3> QED
      BY Zenon, <2>1, <2>4, <3>1
  <2>6. PICK closed \in Seq(Seq(Hits)), further \in Seq(Seq(Hits)) :
           closed = Front(All(popped)) /\ Front(All(order)) = closed \o further
    <3>1. Front(All(popped)) \in Seq(Seq(Hits))
      BY ClustersType
    <3>2. PICK further \in Seq(Seq(Hits)) :
             Front(All(popped \o (behind \o rest))) = Front(All(popped)) \o further
      BY Zenon, <2>5, ClosedStay
    <3> QED
      BY Zenon, <2>5, <3>1, <3>2
  <2>7. closed = clusters \o clusters_pending
    <3>1. Cuts \in Seq(Seq(Hits)) /\ Cuts = clusters \o clusters_pending
      BY <2>3, ConcatProperties DEF Cuts
    <3>2. /\ entries = << >> => Cuts = << >>
          /\ All(popped) = IF entries = << >> THEN << >> ELSE Append(Cuts, entries)
      BY <2>2, <2>4 DEF SplitterInv, Collected
    <3>3. Front(Append(Cuts, entries)) = Cuts
      BY Zenon, <2>3, <3>1, FrontOfAppend
    <3> QED
      BY Zenon, <2>6, <3>1, <3>2, <3>3, FrontOfNone
  <2>8. /\ clusters_pending \o further \in Seq(Seq(Hits))
        /\ closed \o further = clusters \o (clusters_pending \o further)
    <3>1. clusters_pending \o further \in Seq(Seq(Hits))
      BY <2>3, ConcatProperties
    <3>2. (clusters \o clusters_pending) \o further = clusters \o (clusters_pending \o further)
      <4>1. PICK a \in Seq(Seq(Hits)), b \in Seq(Seq(Hits)) : a = clusters /\ b = clusters_pending
        BY Zenon, <2>3
      <4>2. (a \o b) \o further = a \o (b \o further)
        BY SMTT(30)
      <4> QED
        BY <4>1, <4>2, SMTT(30)
    <3> QED
      BY Zenon, <2>7, <3>1, <3>2
  <2>9. Splitter!ClosedClusters(order) = Front(All(order))
    BY Zenon, ClustersAreTheFold
  <2> QED
    BY Zenon, <2>6, <2>8, <2>9
<1> QED
  BY Invariance, <1>1, PTL
=============================================================================
