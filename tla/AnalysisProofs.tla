--------------------------- MODULE AnalysisProofs ---------------------------
(***************************************************************************)
(* Proofs about Trigger and Sorter, joined in Analysis, for every option,  *)
(* every coincidence time and dead time, and all sequences of clusters.    *)
(***************************************************************************)
EXTENDS Analysis, SequenceLemmas

(***************************************************************************)
(* The loops of Trigger over the hits of a cluster and over the triggers,  *)
(* as folds, and what holds of them after the elements s.                  *)
(***************************************************************************)
Increasing(s) == \A i, j \in DOMAIN s : i < j => s[i] < s[j]

OfTheType(cluster, s, triggers) ==
    /\ triggers \in Seq(Nat) /\ Increasing(triggers)
    /\ ToSet(triggers) = {i \in 1 .. Len(s) : cluster[i].type = trigger}
All == INSTANCE SequenceLemmas WITH
    Op <- LAMBDA cluster, triggers, i :
              IF cluster[i].type = trigger THEN Append(triggers, i) ELSE triggers,
    base <- << >>, Holds <- OfTheType

InDeadTime(cluster, j, i) == j <= i /\ cluster[i].t - cluster[j].t <= DeadTime
AllAnswered(cluster, s, accepted) ==
    /\ accepted \in Seq(Nat) /\ ToSet(accepted) \subseteq ToSet(s)
    /\ \A i \in ToSet(s) : \E j \in ToSet(accepted) : InDeadTime(cluster, j, i)
Exclusive == INSTANCE SequenceLemmas WITH
    Op <- LAMBDA cluster, accepted, i :
              IF accepted = << >> \/ cluster[i].t - cluster[Last(accepted)].t > DeadTime
                THEN Append(accepted, i) ELSE accepted,
    base <- << >>, Holds <- AllAnswered

OfDetectorZero(cluster, s, chosen) ==
    /\ chosen \in Seq(Nat)
    /\ ToSet(chosen) = {i \in ToSet(s) : cluster[i].detectorID = 0}
Zero == INSTANCE SequenceLemmas WITH
    Op <- LAMBDA cluster, chosen, i :
              IF cluster[i].detectorID = 0 THEN Append(chosen, i) ELSE chosen,
    base <- << >>, Holds <- OfDetectorZero

\* They are those loops.
LEMMA TheFolds ==
  ASSUME NEW cluster
  PROVE  /\ GetTriggers(cluster) = All!Fold(cluster, [i \in DOMAIN cluster |-> i])
         /\ GetTriggersExclusive(cluster) = Exclusive!Fold(cluster, GetTriggers(cluster))
         /\ sort_type = "time" =>
                ChosenTriggers(cluster) = Zero!Fold(cluster, GetTriggers(cluster))
<1>1. GetTriggers(cluster) = All!Fold(cluster, [i \in DOMAIN cluster |-> i])
  BY Zenon DEF GetTriggers, FoldLeftDomain, FoldLeft, MapThenFoldSet, Max,
     All!Fold, All!FoldLeft, All!MapThenFoldSet, All!Max
<1>2. GetTriggersExclusive(cluster) = Exclusive!Fold(cluster, GetTriggers(cluster))
  BY Zenon DEF GetTriggersExclusive, FoldLeft, MapThenFoldSet, Max, Last,
     Exclusive!Fold, Exclusive!FoldLeft, Exclusive!MapThenFoldSet, Exclusive!Max
<1>3. sort_type = "time" => ChosenTriggers(cluster) = Zero!Fold(cluster, GetTriggers(cluster))
  BY Zenon DEF ChosenTriggers, FoldLeft, MapThenFoldSet, Max,
     Zero!Fold, Zero!FoldLeft, Zero!MapThenFoldSet, Zero!Max
<1> QED
  BY <1>1, <1>2, <1>3

\* GetTriggers finds the hits of the trigger's type, and in order.
LEMMA TriggersOfCluster ==
  ASSUME NEW cluster \in Seq(Hit)
  PROVE  /\ GetTriggers(cluster) \in Seq(Nat) /\ Increasing(GetTriggers(cluster))
         /\ ToSet(GetTriggers(cluster)) = {i \in DOMAIN cluster : cluster[i].type = trigger}
<1> DEFINE s == [i \in DOMAIN cluster |-> i]
           Step(n, a) == IF cluster[s[n + 1]].type = trigger THEN Append(a, s[n + 1]) ELSE a
<1>1. s \in Seq(Nat) /\ Len(s) = Len(cluster) /\ DOMAIN cluster = 1 .. Len(cluster)
  BY LenProperties
<1>2. OfTheType(cluster, << >>, << >>)
  BY DEF OfTheType, Increasing, ToSet
<1>3. ASSUME NEW n \in Nat, n < Len(s), NEW a, OfTheType(cluster, SubSeq(s, 1, n), a)
      PROVE  OfTheType(cluster, SubSeq(s, 1, n + 1), Step(n, a))
  <2> DEFINE of(m) == {i \in 1 .. m : cluster[i].type = trigger}
  <2>1. Len(SubSeq(s, 1, n)) = n /\ Len(SubSeq(s, 1, n + 1)) = n + 1 /\ s[n + 1] = n + 1
    <3>1. \A i \in 1 .. n + 1 : s[i] \in Nat
      BY <1>1, <1>3
    <3>2. Len(SubSeq(s, 1, n)) = n
      BY <3>1, SubSeqProperties
    <3>3. Len(SubSeq(s, 1, n + 1)) = n + 1
      BY <3>1, SubSeqProperties
    <3> QED
      BY <1>1, <1>3, <3>2, <3>3
  <2> HIDE DEF s
  <2>2. a \in Seq(Nat) /\ Increasing(a) /\ ToSet(a) = of(n)
    BY <1>3, <2>1 DEF OfTheType
  <2>3. PICK k \in Nat : k = Len(a)
    BY <2>2, LenProperties
  <2>4. DOMAIN a = 1 .. k /\ \A i \in 1 .. k : a[i] \in 1 .. n
    <3>1. DOMAIN a = 1 .. k
      BY <2>2, <2>3, LenProperties
    <3>2. \A i \in 1 .. k : a[i] \in ToSet(a)
      BY <3>1 DEF ToSet
    <3> QED
      BY <2>2, <3>1, <3>2
  <2>5. CASE cluster[n + 1].type = trigger
    <3>1. n + 1 \in Nat
      OBVIOUS
    <3>2. PICK b \in Seq(Nat) : b = Append(a, n + 1)
      BY <2>2, <3>1, AppendProperties
    <3>3. Len(b) = k + 1 /\ b[k + 1] = n + 1 /\ \A i \in 1 .. k : b[i] = a[i]
      BY <2>2, <2>3, <3>1, <3>2, AppendProperties
    <3>4. DOMAIN b = 1 .. k + 1
      BY <3>3, LenProperties
    <3>5. Increasing(b)
      <4> SUFFICES ASSUME NEW i \in 1 .. k + 1, NEW j \in 1 .. k + 1, i < j
                   PROVE  b[i] < b[j]
        BY <3>4 DEF Increasing
      <4>1. i \in 1 .. k
        OBVIOUS
      <4>2. CASE j = k + 1
        BY <2>4, <3>3, <4>1, <4>2
      <4>3. CASE j \in 1 .. k
        BY <2>2, <2>4, <3>3, <4>1, <4>3 DEF Increasing
      <4> QED
        BY <4>2, <4>3
    <3>6. ToSet(b) = of(n) \cup {n + 1}
      BY SMTT(30), <2>2, <3>1, <3>2, ToSetAppend
    <3>7. of(n) \cup {n + 1} = of(n + 1)
      BY <2>5
    <3>8. Step(n, a) = b
      BY <2>1, <2>5, <3>2
    <3> QED
      BY <2>1, <3>5, <3>6, <3>7, <3>8 DEF OfTheType
  <2>6. CASE cluster[n + 1].type # trigger
    <3>1. of(n + 1) = of(n)
      BY <2>6
    <3>2. Step(n, a) = a
      BY <2>1, <2>6
    <3> QED
      BY <2>1, <2>2, <3>1, <3>2 DEF OfTheType
  <2> QED
    BY <2>5, <2>6
<1>4. OfTheType(cluster, s, All!Fold(cluster, s))
  <2> HIDE DEF s
  <2> QED
    BY <1>1, <1>2, <1>3, All!FoldInduction
<1>5. GetTriggers(cluster) = All!Fold(cluster, s)
  BY TheFolds
<1> HIDE DEF s
<1> QED
  BY <1>1, <1>4, <1>5 DEF OfTheType

\* One element more is one more to answer or to choose.
LEMMA OneElementMore ==
  ASSUME NEW s \in Seq(Nat), NEW n \in Nat, n < Len(s)
  PROVE  /\ ToSet(SubSeq(s, 1, n + 1)) = ToSet(SubSeq(s, 1, n)) \cup {s[n + 1]}
         /\ s[n + 1] \in Nat
         /\ Increasing(s) => \A i \in ToSet(SubSeq(s, 1, n)) : i \in Nat /\ i < s[n + 1]
<1>1. PICK p \in Seq(Nat) : p = SubSeq(s, 1, n)
  BY PrefixAppend
<1>2. s[n + 1] \in Nat /\ SubSeq(s, 1, n + 1) = Append(p, s[n + 1])
  BY <1>1, PrefixAppend
<1>3. ToSet(Append(p, s[n + 1])) = ToSet(p) \cup {s[n + 1]}
  BY <1>2, ToSetAppend
<1>4. ASSUME Increasing(s), NEW i \in ToSet(p) PROVE i \in Nat /\ i < s[n + 1]
  <2>1. n \in 0 .. Len(s) /\ n + 1 \in DOMAIN s
    BY LenProperties
  <2>2. PICK m \in 1 .. n : m \in DOMAIN s /\ i = s[m]
    BY <1>1, <1>4, <2>1, PrefixElements
  <2> QED
    BY <1>4, <2>1, <2>2, ElementOfSeq DEF Increasing
<1> QED
  BY <1>1, <1>2, <1>3, <1>4

\* Each trigger is accepted or comes at most 500 ns after one that is.
LEMMA ExclusiveTriggers ==
  ASSUME NEW cluster \in Seq(Hit)
  PROVE  AllAnswered(cluster, GetTriggers(cluster), GetTriggersExclusive(cluster))
<1> DEFINE s == GetTriggers(cluster)
           Step(i, a) == IF a = << >> \/ cluster[i].t - cluster[Last(a)].t > DeadTime
                           THEN Append(a, i) ELSE a
<1>1. s \in Seq(Nat) /\ Increasing(s) /\ ToSet(s) \subseteq DOMAIN cluster
  BY TriggersOfCluster
<1> HIDE DEF s
<1>2. AllAnswered(cluster, << >>, << >>)
  BY DEF AllAnswered, ToSet
<1>3. ASSUME NEW n \in Nat, n < Len(s), NEW a, AllAnswered(cluster, SubSeq(s, 1, n), a)
      PROVE  AllAnswered(cluster, SubSeq(s, 1, n + 1), Step(s[n + 1], a))
  <2>1. PICK i \in Nat : i = s[n + 1]
    BY <1>1, <1>3, OneElementMore
  <2> DEFINE before == ToSet(SubSeq(s, 1, n))
             after == ToSet(SubSeq(s, 1, n + 1))
  <2>2. after = before \cup {i} /\ \A j \in before : j \in Nat /\ j < i
    BY <1>1, <1>3, <2>1, OneElementMore
  <2>3. /\ a \in Seq(Nat) /\ ToSet(a) \subseteq before
        /\ \A h \in before : \E j \in ToSet(a) : InDeadTime(cluster, j, h)
    BY <1>3 DEF AllAnswered
  <2> HIDE DEF before, after
  <2>4. i \in DOMAIN cluster
    <3>1. n + 1 \in DOMAIN s
      BY <1>1, <1>3, PrefixAppend
    <3> QED
      BY <1>1, <2>1, <3>1 DEF ToSet
  <2>5. cluster[i].t \in Int
    <3>1. cluster[i] \in Hit
      BY <2>4, ElementOfSeq
    <3> QED
      BY <3>1, HitsAssumption
  <2>6. CASE a = << >> \/ cluster[i].t - cluster[Last(a)].t > DeadTime
    <3>1. PICK b \in Seq(Nat) : b = Append(a, i)
      BY <2>3, AppendProperties
    <3>2. ToSet(b) = ToSet(a) \cup {i}
      BY <2>3, <3>1, ToSetAppend
    <3>3. InDeadTime(cluster, i, i)
      BY <2>5, TimesAssumption DEF InDeadTime
    <3>4. Step(i, a) = b
      BY <2>6, <3>1
    <3>5. AllAnswered(cluster, SubSeq(s, 1, n + 1), b)
      BY <2>2, <2>3, <3>2, <3>3 DEF AllAnswered, after
    <3> QED
      BY <2>1, <3>4, <3>5
  <2>7. CASE ~(a = << >> \/ cluster[i].t - cluster[Last(a)].t > DeadTime)
    <3>1. Last(a) \in ToSet(a)
      BY <2>3, <2>7, LenProperties DEF Last, ToSet
    <3>2. PICK j \in Nat : j = Last(a) /\ j \in before /\ j < i
      BY <2>2, <2>3, <3>1
    <3>3. cluster[j].t \in Int
      <4>1. j \in ToSet(s)
        BY <1>1, <1>3, <3>2, PrefixElements, LenProperties DEF before, ToSet
      <4>2. cluster[j] \in Hit
        BY <1>1, <4>1, ElementOfSeq
      <4> QED
        BY <4>2, HitsAssumption
    <3>4. InDeadTime(cluster, j, i)
      BY <2>5, <2>7, <3>2, <3>3, TimesAssumption DEF InDeadTime
    <3>5. Step(i, a) = a
      BY <2>7
    <3>6. AllAnswered(cluster, SubSeq(s, 1, n + 1), a)
      BY <2>2, <2>3, <3>1, <3>2, <3>4 DEF AllAnswered, after
    <3> QED
      BY <2>1, <3>5, <3>6
  <2> QED
    BY <2>6, <2>7
<1>4. AllAnswered(cluster, s, Exclusive!Fold(cluster, s))
  BY <1>1, <1>2, <1>3, Exclusive!FoldInduction
<1> QED
  BY <1>4, TheFolds DEF s

\* The triggers that are used are hits of the trigger's type, in a time run hits
\* of detector 0, and in a coincidence run they answer for all hits of the type.
LEMMA TriggersChosen ==
  ASSUME NEW cluster \in Seq(Hit)
  PROVE  /\ ChosenTriggers(cluster) \in Seq(Nat)
         /\ \A i \in ToSet(ChosenTriggers(cluster)) :
                /\ i \in DOMAIN cluster /\ cluster[i].type = trigger
                /\ sort_type = "time" => cluster[i].detectorID = 0
         /\ sort_type # "time" =>
                \A i \in DOMAIN cluster : cluster[i].type = trigger =>
                    \E j \in ToSet(ChosenTriggers(cluster)) : InDeadTime(cluster, j, i)
<1> DEFINE s == GetTriggers(cluster)
           Step(i, a) == IF cluster[i].detectorID = 0 THEN Append(a, i) ELSE a
<1>1. /\ s \in Seq(Nat)
      /\ ToSet(s) = {i \in DOMAIN cluster : cluster[i].type = trigger}
  BY TriggersOfCluster
<1> HIDE DEF s
<1>2. CASE sort_type # "time"
  <2>1. ChosenTriggers(cluster) = GetTriggersExclusive(cluster)
    BY <1>2 DEF ChosenTriggers
  <2> QED
    BY <1>1, <1>2, <2>1, ExclusiveTriggers DEF AllAnswered, s
<1>3. CASE sort_type = "time"
  <2>1. OfDetectorZero(cluster, << >>, << >>)
    BY DEF OfDetectorZero, ToSet
  <2>2. ASSUME NEW n \in Nat, n < Len(s), NEW a, OfDetectorZero(cluster, SubSeq(s, 1, n), a)
        PROVE  OfDetectorZero(cluster, SubSeq(s, 1, n + 1), Step(s[n + 1], a))
    <3>1. PICK i \in Nat : i = s[n + 1]
      BY <1>1, <2>2, OneElementMore
    <3> DEFINE before == ToSet(SubSeq(s, 1, n))
               after == ToSet(SubSeq(s, 1, n + 1))
    <3>2. after = before \cup {i}
      BY <1>1, <2>2, <3>1, OneElementMore
    <3>3. a \in Seq(Nat) /\ ToSet(a) = {h \in before : cluster[h].detectorID = 0}
      BY <2>2 DEF OfDetectorZero
    <3> HIDE DEF before
    <3>4. CASE cluster[i].detectorID = 0
      <4>1. Append(a, i) \in Seq(Nat) /\ ToSet(Append(a, i)) = ToSet(a) \cup {i}
        BY <3>3, ToSetAppend, AppendProperties
      <4>2. Step(i, a) = Append(a, i)
        BY <3>4
      <4> QED
        BY <3>1, <3>2, <3>3, <3>4, <4>1, <4>2 DEF OfDetectorZero
    <3>5. CASE cluster[i].detectorID # 0
      BY <3>1, <3>2, <3>3, <3>5 DEF OfDetectorZero
    <3> QED
      BY <3>4, <3>5
  <2>3. OfDetectorZero(cluster, s, Zero!Fold(cluster, s))
    BY <1>1, <2>1, <2>2, Zero!FoldInduction
  <2>4. ChosenTriggers(cluster) = Zero!Fold(cluster, s)
    BY <1>3, TheFolds DEF s
  <2> QED
    BY <1>1, <1>3, <2>3, <2>4 DEF OfDetectorZero
<1> QED
  BY <1>2, <1>3
-----------------------------------------------------------------------------
(***************************************************************************)
(* The events of a cluster                                                 *)
(***************************************************************************)
Event == [hits : Seq(Hit), index : Int]

\* What an event promises of its cluster, for a sort type and a trigger type: in a
\* gap run no trigger, else one hit of the cluster that may trigger, and around it
\* the hits within the coincidence time, if the cluster is ordered.
EventOf(st, tr, cluster, event) ==
    IF st = "gap" THEN event.index = -1
    ELSE \E i \in DOMAIN cluster :
            /\ cluster[i].type = tr
            /\ st = "time" => cluster[i].detectorID = 0
            /\ event.index + 1 \in DOMAIN event.hits
            /\ event.hits[event.index + 1] = cluster[i]
            /\ IsOrdered(cluster) =>
                   ToSet(event.hits) = {h \in ToSet(cluster) : Near(h, cluster[i])}

\* The i-th hit of the cluster has an event, or one that has came shortly before.
Answered(cluster, i, events) ==
    \E j \in DOMAIN cluster :
        /\ InDeadTime(cluster, j, i)
        /\ \E event \in events : event.hits[event.index + 1] = cluster[j]

\* A hit between one that is near and the trigger is near.
LEMMA NearBetween ==
  ASSUME NEW a, NEW b, NEW trig, a.t \in Int, b.t \in Int, trig.t \in Int, Near(a, trig),
         (a.t <= b.t /\ b.t <= trig.t) \/ (trig.t <= b.t /\ b.t <= a.t)
  PROVE  Near(b, trig)
<1>1. PICK x \in Int, y \in Int, z \in Int : x = a.t /\ y = b.t /\ z = trig.t
  OBVIOUS
<1>2. x - z \in -CoincidenceTime .. CoincidenceTime
  BY <1>1 DEF Near
<1>3. (x <= y /\ y <= z) \/ (z <= y /\ y <= x)
  BY <1>1
<1>4. y - z \in -CoincidenceTime .. CoincidenceTime
  BY <1>2, <1>3, TimesAssumption
<1> QED
  BY <1>1, <1>4 DEF Near

\* The window holds the hits of the cluster around the trigger; where the cluster is
\* ordered, the two loops that look for its ends pass over no near hit.
LEMMA WindowOfTrigger ==
  ASSUME NEW cluster \in Seq(Hit), NEW trig \in DOMAIN cluster
  PROVE  LET event == Window(cluster, trig) IN
         /\ event \in Event
         /\ event.index + 1 \in DOMAIN event.hits
         /\ event.hits[event.index + 1] = cluster[trig]
         /\ IsOrdered(cluster) =>
                ToSet(event.hits) = {h \in ToSet(cluster) : Near(h, cluster[trig])}
<1> DEFINE before == {i \in 1 .. trig : \A j \in i .. trig : Near(cluster[j], cluster[trig])}
           after == {i \in trig .. Len(cluster) :
                        \A j \in trig .. i : Near(cluster[j], cluster[trig])}
<1>1. PICK len \in Nat : len = Len(cluster) /\ DOMAIN cluster = 1 .. len
  BY LenProperties
<1>2. \A i \in 1 .. len : cluster[i].t \in Int
  <2>1. \A i \in 1 .. len : cluster[i] \in Hit
    BY <1>1, ElementOfSeq
  <2> QED
    BY <2>1, HitsAssumption
<1>3. trig \in 1 .. len /\ Near(cluster[trig], cluster[trig])
  BY <1>1, <1>2, TimesAssumption DEF Near
<1>4. PICK first : /\ first = Min(before) /\ first \in before
                   /\ \A i \in before : first <= i
  <2>1. before \in SUBSET Nat
    OBVIOUS
  <2>2. trig \in before
    BY <1>3
  <2> HIDE DEF before
  <2>3. before # {}
    BY <2>2
  <2> QED
    BY <2>1, <2>3, MinIsLeast
<1>5. PICK last : /\ last = Max(after) /\ last \in after
                  /\ \A i \in after : last >= i
  <2>1. after \in SUBSET (1 .. len)
    BY <1>1
  <2>2. trig \in after
    BY <1>1, <1>3
  <2> HIDE DEF after
  <2>3. after # {}
    BY <2>2
  <2> QED
    BY <2>1, <2>3, MaxIsGreatest
<1>6. first \in 1 .. trig /\ last \in trig .. len
  BY <1>1, <1>4, <1>5
<1>7. PICK hits \in Seq(Hit) : /\ hits = SubSeq(cluster, first, last)
                               /\ Len(hits) = last - first + 1
                               /\ \A i \in 1 .. last - first + 1 :
                                      hits[i] = cluster[first + i - 1]
  <2>1. first \in Int /\ last \in Int /\ first <= last
    BY <1>3, <1>6
  <2>2. \A i \in first .. last : cluster[i] \in Hit
    BY <1>1, <1>3, <1>6, ElementOfSeq
  <2>3. /\ SubSeq(cluster, first, last) \in Seq(Hit)
        /\ Len(SubSeq(cluster, first, last)) = last - first + 1
        /\ \A i \in 1 .. last - first + 1 :
               SubSeq(cluster, first, last)[i] = cluster[first + i - 1]
    BY <2>1, <2>2, SubSeqProperties
  <2> QED
    BY Zenon, <2>3
<1>8. Window(cluster, trig) = [hits |-> hits, index |-> trig - first]
  BY Zenon, <1>4, <1>5, <1>7 DEF Window
<1>9. DOMAIN hits = 1 .. last - first + 1
  BY <1>7, LenProperties
<1>10. trig - first \in Int /\ trig - first + 1 \in DOMAIN hits
  BY <1>3, <1>6, <1>9
<1>11. hits[trig - first + 1] = cluster[trig]
  BY <1>3, <1>6, <1>7
<1>12. ASSUME IsOrdered(cluster)
       PROVE  ToSet(hits) = {h \in ToSet(cluster) : Near(h, cluster[trig])}
  <2> DEFINE near == {h \in ToSet(cluster) : Near(h, cluster[trig])}
  <2>1. \A i, j \in 1 .. len : i <= j => cluster[i].t <= cluster[j].t
    <3> SUFFICES ASSUME NEW i \in 1 .. len, NEW j \in 1 .. len, i <= j
                 PROVE  cluster[i].t <= cluster[j].t
      OBVIOUS
    <3>1. CASE i < j
      BY <1>1, <1>12, <3>1 DEF IsOrdered
    <3>2. CASE i = j
      BY <1>2, <3>2
    <3> QED
      BY <3>1, <3>2
  <2>2. ASSUME NEW i \in 1 .. last - first + 1 PROVE hits[i] \in near
    <3>1. PICK k \in first .. last : k = first + i - 1
      BY <1>3, <1>6
    <3>2. k \in 1 .. len
      BY <1>3, <1>6
    <3>3. Near(cluster[k], cluster[trig])
      <4>1. CASE k <= trig
        <5>1. k \in first .. trig
          BY <1>3, <1>6, <4>1
        <5> QED
          BY <1>4, <5>1
      <4>2. CASE k > trig
        <5>1. k \in trig .. last
          BY <1>3, <1>6, <4>2
        <5> QED
          BY <1>5, <5>1
      <4> QED
        BY <1>3, <3>2, <4>1, <4>2
    <3> QED
      BY <1>1, <1>7, <3>1, <3>2, <3>3 DEF ToSet
  <2>3. ASSUME NEW k \in 1 .. len, Near(cluster[k], cluster[trig])
        PROVE  k \in first .. last
    <3>1. CASE k <= trig
      <4>1. ASSUME NEW j \in k .. trig PROVE Near(cluster[j], cluster[trig])
        <5>1. j \in 1 .. len
          BY <1>3
        <5>2. cluster[k].t <= cluster[j].t /\ cluster[j].t <= cluster[trig].t
          BY <1>3, <2>1, <5>1
        <5> QED
          BY <1>2, <1>3, <2>3, <5>1, <5>2, NearBetween
      <4>2. k \in before
        BY <1>3, <3>1, <4>1
      <4> HIDE DEF before
      <4> QED
        BY <1>3, <1>4, <1>6, <3>1, <4>2
    <3>2. CASE k > trig
      <4>1. ASSUME NEW j \in trig .. k PROVE Near(cluster[j], cluster[trig])
        <5>1. j \in 1 .. len
          BY <1>3
        <5>2. cluster[trig].t <= cluster[j].t /\ cluster[j].t <= cluster[k].t
          BY <1>3, <2>1, <5>1
        <5> QED
          BY <1>2, <1>3, <2>3, <5>1, <5>2, NearBetween
      <4>2. k \in after
        BY <1>1, <1>3, <3>2, <4>1
      <4> HIDE DEF after
      <4> QED
        BY <1>3, <1>5, <1>6, <3>2, <4>2
    <3> QED
      BY <1>3, <3>1, <3>2
  <2>4. ASSUME NEW h \in near PROVE h \in ToSet(hits)
    <3>1. PICK k \in 1 .. len : h = cluster[k] /\ Near(cluster[k], cluster[trig])
      BY <1>1 DEF ToSet
    <3>2. k \in first .. last
      BY <2>3, <3>1
    <3>3. k - first + 1 \in 1 .. last - first + 1 /\ first + (k - first + 1) - 1 = k
      BY <1>3, <1>6, <3>2
    <3>4. hits[k - first + 1] = cluster[k]
      BY <1>7, <3>3
    <3> QED
      BY <1>9, <3>1, <3>3, <3>4 DEF ToSet
  <2> HIDE DEF near
  <2>5. ToSet(hits) \subseteq near
    BY <1>9, <2>2 DEF ToSet
  <2>6. ToSet(hits) = near
    BY <2>4, <2>5
  <2> QED
    BY <2>6 DEF near
<1>13. Window(cluster, trig) \in Event
  BY <1>8, <1>10 DEF Event
<1> QED
  BY <1>8, <1>10, <1>11, <1>12, <1>13

\* The events of a cluster keep the promise, and in a coincidence run no trigger is
\* left without an answer.
LEMMA EventsOfCluster ==
  ASSUME NEW cluster \in Seq(Hit)
  PROVE  /\ Events(cluster) \in Seq(Event)
         /\ \A event \in ToSet(Events(cluster)) :
                EventOf(sort_type, trigger, cluster, event)
         /\ sort_type = "coincidence" =>
                \A i \in DOMAIN cluster : cluster[i].type = trigger =>
                    Answered(cluster, i, ToSet(Events(cluster)))
<1>1. CASE sort_type = "gap"
  <2>1. Events(cluster) = GapEvents(cluster)
    BY <1>1 DEF Events
  <2>2. PICK e \in Event : e = [hits |-> cluster, index |-> -1]
    <3>1. -1 \in Int
      OBVIOUS
    <3>2. [hits |-> cluster, index |-> -1] \in Event
      BY <3>1 DEF Event
    <3> QED
      BY <3>2
  <2>3. <<e>> \in Seq(Event) /\ << >> \in Seq(Event)
    OBVIOUS
  <2>4. ToSet(<<e>>) = {e} /\ ToSet(<< >>) = {}
    BY DEF ToSet
  <2>5. e.index = -1
    BY <2>2
  <2>6. Events(cluster) = <<e>> \/ Events(cluster) = << >>
    BY <2>1, <2>2 DEF GapEvents
  <2> QED
    BY <1>1, <2>3, <2>4, <2>5, <2>6 DEF EventOf
<1>2. CASE sort_type # "gap"
  <2>1. PICK trigs \in Seq(Nat) : trigs = ChosenTriggers(cluster)
    BY TriggersChosen
  <2>2. \A i \in ToSet(trigs) : /\ i \in DOMAIN cluster /\ cluster[i].type = trigger
                                /\ sort_type = "time" => cluster[i].detectorID = 0
    BY <2>1, TriggersChosen
  <2>3. PICK len \in Nat : DOMAIN trigs = 1 .. len
    BY LenProperties
  <2>4. PICK events : events = Events(cluster)
    OBVIOUS
  <2>5. events = [n \in 1 .. len |-> Window(cluster, trigs[n])]
    BY <1>2, <2>1, <2>3, <2>4 DEF Events
  <2>6. ASSUME NEW n \in 1 .. len
        PROVE  /\ events[n] \in Event /\ trigs[n] \in DOMAIN cluster
               /\ events[n].hits[events[n].index + 1] = cluster[trigs[n]]
               /\ EventOf(sort_type, trigger, cluster, events[n])
    <3>1. PICK i : i = trigs[n]
      OBVIOUS
    <3>2. i \in ToSet(trigs)
      BY <2>3, <3>1 DEF ToSet
    <3>3. i \in DOMAIN cluster /\ events[n] = Window(cluster, i)
      BY <2>2, <2>5, <3>1, <3>2
    <3>4. PICK event : event = events[n]
      OBVIOUS
    <3>5. /\ event \in Event /\ event.index + 1 \in DOMAIN event.hits
          /\ event.hits[event.index + 1] = cluster[i]
          /\ IsOrdered(cluster) =>
                 ToSet(event.hits) = {h \in ToSet(cluster) : Near(h, cluster[i])}
      BY <3>3, <3>4, WindowOfTrigger
    <3>6. EventOf(sort_type, trigger, cluster, event)
      BY <1>2, <2>2, <3>2, <3>3, <3>5 DEF EventOf
    <3> QED
      BY <3>1, <3>3, <3>4, <3>5, <3>6
  <2>7. events \in Seq(Event)
    <3>1. events \in [1 .. len -> Event]
      BY <2>5, <2>6
    <3> QED
      BY <3>1, IsASeq
  <2>8. DOMAIN events = 1 .. len
    BY <2>5
  <2>9. \A event \in ToSet(events) : EventOf(sort_type, trigger, cluster, event)
    BY <2>6, <2>8 DEF ToSet
  <2>10. ASSUME sort_type = "coincidence", NEW i \in DOMAIN cluster, cluster[i].type = trigger
         PROVE  Answered(cluster, i, ToSet(events))
    <3>1. PICK j \in ToSet(trigs) : InDeadTime(cluster, j, i)
      BY <2>1, <2>10, TriggersChosen
    <3>2. PICK n \in 1 .. len : j = trigs[n]
      BY <2>3, <3>1 DEF ToSet
    <3>3. events[n] \in ToSet(events)
      BY <2>8, <3>2 DEF ToSet
    <3>4. j \in DOMAIN cluster /\ events[n].hits[events[n].index + 1] = cluster[j]
      BY <2>6, <3>2
    <3> QED
      BY <3>1, <3>3, <3>4 DEF Answered
  <2> QED
    BY <2>4, <2>7, <2>9, <2>10
<1> QED
  BY <1>1, <1>2
-----------------------------------------------------------------------------
(***************************************************************************)
(* The trigger                                                             *)
(***************************************************************************)
Made == ToSet(Built)

\* Every event made keeps its promise of a cluster popped, and every cluster popped
\* has been answered.
TriggerInv ==
    /\ input \in Seq(Seq(Hit)) /\ entries_processed \in 0 .. Len(input)
    /\ output \in Seq(Event) /\ pending \in Seq(Event) /\ taken \in 0 .. Len(output)
    /\ pc \notin {"push", "drain"} => pending = << >>
    /\ \A event \in Made : \E k \in 1 .. entries_processed :
           EventOf(sort_type, trigger, input[k], event)
    /\ sort_type = "coincidence" =>
           \A k \in 1 .. entries_processed : \A i \in DOMAIN input[k] :
               input[k][i].type = trigger => Answered(input[k], i, Made)

\* Nothing has been popped yet.
LEMMA TriggerInvInit == AnalysisInit => TriggerInv
<1> SUFFICES ASSUME AnalysisInit PROVE TriggerInv
  OBVIOUS
<1>1. /\ input = << >> /\ entries_processed = 0 /\ output = << >> /\ pending = << >>
      /\ taken = 0
  BY DEF AnalysisInit, Init, TaskInit, OutputInit
<1>2. Made = {}
  BY <1>1 DEF Made, Built, ToSet
<1> QED
  BY <1>1, <1>2 DEF TriggerInv

\* A step of the trigger, of the sorter, of the splitter before them, or of main
\* keeps it.
LEMMA TriggerInvNext == TriggerInv /\ [Next]_vars => TriggerInv'
<1> SUFFICES ASSUME TriggerInv, [Next]_vars PROVE TriggerInv'
  OBVIOUS
<1> USE DEF TriggerInv, options
<1>1. CASE Pop /\ UNCHANGED sorterOnly
  <2>1. pending = << >>
    BY <1>1 DEF Pop, PopNext
  <2>2. /\ entries_processed' = entries_processed + 1 /\ entries_processed < Len(input)
        /\ pending' = Events(NextItem) /\ pc' = "push"
        /\ UNCHANGED <<input, output, taken, sort_type, trigger>>
    BY <1>1 DEF Pop, PopNext, ItemWaiting
  <2>3. PICK n \in Nat : n = entries_processed + 1 /\ n \in DOMAIN input
    BY <2>2, LenProperties
  <2>4. PICK cluster \in Seq(Hit) : cluster = input[n]
    BY <2>3, ElementOfSeq
  <2>5. PICK events \in Seq(Event) : events = Events(cluster)
    BY EventsOfCluster
  <2>6. pending' = events
    BY <2>2, <2>3, <2>4, <2>5 DEF NextItem
  <2>7. Made' = Made \cup ToSet(events)
    <3>1. Built = output
      BY <2>1 DEF Built
    <3>2. Built' = output \o events
      BY <2>2, <2>6 DEF Built
    <3> QED
      BY <3>1, <3>2, ToSetConcat DEF Made
  <2>8. \A event \in Made' : \E k \in 1 .. n : EventOf(sort_type, trigger, input[k], event)
    <3> SUFFICES ASSUME NEW event \in Made'
                 PROVE  \E k \in 1 .. n : EventOf(sort_type, trigger, input[k], event)
      OBVIOUS
    <3>1. CASE event \in Made
      BY <2>3, <3>1
    <3>2. CASE event \in ToSet(events)
      <4>1. EventOf(sort_type, trigger, input[n], event)
        BY <2>4, <2>5, <3>2, EventsOfCluster
      <4>2. n \in 1 .. n
        BY <2>3
      <4> QED
        BY <4>1, <4>2
    <3> QED
      BY <2>7, <3>1, <3>2
  <2>9. ASSUME sort_type = "coincidence", NEW k \in 1 .. n, NEW i \in DOMAIN input[k],
               input[k][i].type = trigger
        PROVE  Answered(input[k], i, Made')
    <3>1. CASE k = n
      <4>1. Answered(cluster, i, ToSet(events))
        BY <2>4, <2>5, <2>9, <3>1, EventsOfCluster
      <4> QED
        BY <2>4, <2>7, <3>1, <4>1 DEF Answered
    <3>2. CASE k # n
      <4>1. k \in 1 .. entries_processed
        BY <2>3, <3>2
      <4>2. Answered(input[k], i, Made)
        BY <2>9, <4>1
      <4> QED
        BY <2>7, <4>2 DEF Answered
    <3> QED
      BY <3>1, <3>2
  <2>10. entries_processed' \in 0 .. Len(input')
    BY <2>2, LenProperties
  <2> QED
    BY <2>2, <2>3, <2>6, <2>8, <2>9, <2>10
<1>2. CASE Push /\ UNCHANGED <<input, options, sorterOnly>>
  <2>1. /\ pending # << >> /\ output' = Append(output, Head(pending))
        /\ pending' = Tail(pending)
        /\ UNCHANGED <<input, entries_processed, taken, sort_type, trigger, pc>>
    BY <1>2 DEF Push
  <2>2. Built' = Built
    BY <2>1, HeadMoves DEF Built
  <2>3. Made' = Made
    BY <2>2 DEF Made
  <2>4. Head(pending) \in Event /\ Tail(pending) \in Seq(Event)
    BY <2>1, HeadTailProperties
  <2>5. output' \in Seq(Event) /\ Len(output') = Len(output) + 1 /\ Len(output) \in Nat
    BY <2>1, <2>4, AppendProperties, LenProperties
  <2>6. taken' \in 0 .. Len(output')
    BY <2>1, <2>5
  <2>7. pc \in {"push", "drain"}
    BY <1>2 DEF Push
  <2> HIDE DEF TriggerInv
  <2>8. TriggerInv
    OBVIOUS
  <2> QED
    BY <2>1, <2>3, <2>4, <2>5, <2>6, <2>7, <2>8 DEF TriggerInv
<1>3. ASSUME UNCHANGED <<input, pending, output, entries_processed, options>>,
             taken' \in 0 .. Len(output), pc' \in {"push", "drain"} \/ pending = << >>
      PROVE  TriggerInv'
  <2>1. Made' = Made
    BY <1>3 DEF Made, Built
  <2> QED
    BY <1>3, <2>1
<1>4. ASSUME ClusterArrives PROVE TriggerInv'
  <2>1. PICK cluster \in Inputs : Arrive(cluster)
    BY <1>4 DEF ClusterArrives
  <2>2. /\ input' = Append(input, cluster)
        /\ UNCHANGED <<entries_processed, pending, output, taken, sort_type, trigger, pc>>
    BY <1>4, <2>1 DEF ClusterArrives, Arrive
  <2>3. cluster \in Seq(Hit)
    BY ClustersAssumption
  <2>4. PICK len \in Nat : len = Len(input)
    BY LenProperties
  <2>5. /\ input' \in Seq(Seq(Hit)) /\ Len(input') = len + 1
        /\ \A k \in 1 .. len : input'[k] = input[k]
    BY <2>2, <2>3, <2>4, AppendProperties
  <2>6. \A k \in 1 .. entries_processed : input'[k] = input[k]
    BY <2>4, <2>5
  <2>7. Made' = Made
    BY <2>2 DEF Made, Built
  <2>8. entries_processed' \in 0 .. Len(input')
    BY <2>2, <2>4, <2>5
  <2> QED
    BY <2>2, <2>5, <2>6, <2>7, <2>8
<1>5. CASE TriggerStep
  BY <1>1, <1>2, <1>3, <1>5 DEF TriggerStep, Run, Test, TimedOut, Handled, Exit
<1>6. CASE SorterStep
  <2>1. taken' \in 0 .. Len(output)
    BY <1>6, LenProperties
    DEF SorterStep, Sorter!Run, Sorter!Test, Sorter!Pop, Sorter!PopNext, Sorter!ItemWaiting,
        Sorter!Fill, Sorter!TimedOut, Sorter!ExitClosed
  <2>2. UNCHANGED <<triggerOnly, output>>
    BY <1>6
    DEF SorterStep, Sorter!Run, Sorter!Test, Sorter!Pop, Sorter!PopNext,
        Sorter!Fill, Sorter!TimedOut, Sorter!ExitClosed
  <2> QED
    BY <1>3, <2>1, <2>2 DEF triggerOnly
<1>7. CASE FinishTrigger
  BY <1>3, <1>7 DEF FinishTrigger, Finish
<1>8. CASE FinishSorter
  BY <1>3, <1>8 DEF FinishSorter, Sorter!Finish, triggerOnly
<1>9. CASE UNCHANGED vars
  BY <1>3, <1>9 DEF vars, triggerOnly
<1> QED
  BY <1>4, <1>5, <1>6, <1>7, <1>8, <1>9 DEF Next

\* The invariant holds in every reachable state.
THEOREM TriggerInvariance == Spec => []TriggerInv
  BY TriggerInvInit, TriggerInvNext, PTL DEF Spec

\* The index of an event points at a hit that may trigger: the trigger's type, and in
\* a time run detector 0.  GetTriggers, GetTriggersExclusive and the loops of Trigger
\* that cut the window around the hit.
THEOREM IndexCorrect == Spec => []IndexPointsAtTrigger
<1>1. ASSUME TriggerInv PROVE IndexPointsAtTrigger
  <2> SUFFICES ASSUME NEW n \in DOMAIN Built
               PROVE  LET event == Built[n] IN
                      IF sort_type = "gap" THEN event.index = -1
                      ELSE /\ event.index + 1 \in DOMAIN event.hits
                           /\ event.hits[event.index + 1].type = trigger
                           /\ sort_type = "time" => event.hits[event.index + 1].detectorID = 0
    BY DEF IndexPointsAtTrigger
  <2>1. PICK event : event = Built[n] /\ event \in Made
    BY DEF Made, ToSet
  <2>2. PICK k \in 1 .. entries_processed : EventOf(sort_type, trigger, input[k], event)
    BY <1>1, <2>1 DEF TriggerInv
  <2> QED
    BY <2>1, <2>2 DEF EventOf
<1> QED
  BY <1>1, TriggerInvariance, PTL

\* Where the clusters are ordered in time an event has all hits of its cluster within
\* the coincidence time of the trigger and no others: the loops of Trigger that walk
\* from the trigger to both sides stop at the first hit that is too far.
THEOREM EventsAreComplete == Spec => []EventHoldsTheCoincidentHits
<1>1. ASSUME TriggerInv PROVE EventHoldsTheCoincidentHits
  <2> SUFFICES ASSUME sort_type # "gap", AllOrdered, NEW n \in DOMAIN Built
               PROVE  LET event == Built[n]
                          trig == event.hits[event.index + 1]
                      IN \E k \in 1 .. entries_processed :
                            /\ trig \in ToSet(input[k])
                            /\ ToSet(event.hits) = {h \in ToSet(input[k]) : Near(h, trig)}
    BY DEF EventHoldsTheCoincidentHits
  <2>1. PICK event : event = Built[n] /\ event \in Made
    BY DEF Made, ToSet
  <2>2. PICK k \in 1 .. entries_processed : EventOf(sort_type, trigger, input[k], event)
    BY <1>1, <2>1 DEF TriggerInv
  <2>3. IsOrdered(input[k])
    BY <2>2 DEF AllOrdered
  <2>4. PICK trig : trig = event.hits[event.index + 1]
    OBVIOUS
  <2>5. /\ trig \in ToSet(input[k])
        /\ ToSet(event.hits) = {h \in ToSet(input[k]) : Near(h, trig)}
    BY <2>2, <2>3, <2>4 DEF EventOf, ToSet
  <2> QED
    BY <2>1, <2>2, <2>4, <2>5
<1> QED
  BY <1>1, TriggerInvariance, PTL

\* Where the clusters are ordered in time every hit of the trigger's type is at most
\* 500 ns behind one that an event was made of: GetTriggersExclusive measures from
\* the last accepted trigger.
THEOREM TriggersAnswered == Spec => []DeadTimeIsNotExtended
<1>1. ASSUME TriggerInv PROVE DeadTimeIsNotExtended
  <2> SUFFICES ASSUME sort_type = "coincidence", AllOrdered,
                      NEW k \in 1 .. entries_processed, NEW h \in ToSet(input[k]),
                      h.type = trigger
               PROVE  \E n \in DOMAIN Built :
                         LET trig == Built[n].hits[Built[n].index + 1] IN
                         /\ trig \in ToSet(input[k])
                         /\ h.t - trig.t \in 0 .. DeadTime
    BY DEF DeadTimeIsNotExtended
  <2>1. PICK i \in DOMAIN input[k] : h = input[k][i]
    BY DEF ToSet
  <2>2. Answered(input[k], i, Made)
    BY <1>1, <2>1 DEF TriggerInv
  <2>3. PICK j \in DOMAIN input[k], event \in Made :
            InDeadTime(input[k], j, i) /\ event.hits[event.index + 1] = input[k][j]
    BY <2>2 DEF Answered
  <2>4. PICK n \in DOMAIN Built : event = Built[n]
    BY <2>3 DEF Made, ToSet
  <2>5. PICK cluster \in Seq(Hit) : cluster = input[k]
    <3>1. k \in DOMAIN input
      BY <1>1, LenProperties DEF TriggerInv
    <3> QED
      BY <1>1, <3>1, ElementOfSeq DEF TriggerInv
  <2>6. PICK trig : trig = cluster[j]
    OBVIOUS
  <2>7. trig.t \in Int /\ h.t \in Int
    <3>1. cluster[j] \in Hit /\ cluster[i] \in Hit
      BY <2>1, <2>3, <2>5, ElementOfSeq
    <3> QED
      BY <2>1, <2>5, <2>6, <3>1, HitsAssumption
  <2>8. trig.t <= h.t
    <3>1. i \in Nat /\ j \in Nat
      BY <2>1, <2>3, <2>5, LenProperties
    <3>2. CASE j < i
      BY <2>1, <2>3, <2>5, <2>6, <3>2 DEF AllOrdered, IsOrdered
    <3>3. CASE j = i
      BY <2>1, <2>5, <2>6, <2>7, <3>3
    <3> QED
      BY <2>3, <3>1, <3>2, <3>3 DEF InDeadTime
  <2>9. h.t - trig.t \in 0 .. DeadTime
    BY <2>1, <2>3, <2>5, <2>6, <2>7, <2>8, TimesAssumption DEF InDeadTime
  <2>10. trig \in ToSet(input[k])
    BY <2>3, <2>5, <2>6 DEF ToSet
  <2>11. Built[n].hits[Built[n].index + 1] = trig
    BY <2>3, <2>4, <2>5, <2>6
  <2> QED
    BY <2>9, <2>10, <2>11
<1> QED
  BY <1>1, TriggerInvariance, PTL
-----------------------------------------------------------------------------
(***************************************************************************)
(* The sorter                                                              *)
(***************************************************************************)
\* The folds its properties are stated with, for a sort type.
OfEvents(st, s, events) == events \in Seq(Event)
Keeping == INSTANCE SequenceLemmas WITH
    Op <- LAMBDA st, accepted, e :
              IF e.hits = << >> \/ (st = "gap" /\ e.index > 0) THEN accepted
              ELSE Append(accepted, e),
    base <- << >>, Holds <- OfEvents
WithGoodCFD == INSTANCE SequenceLemmas WITH
    Op <- LAMBDA st, good, e :
              IF st # "gap" /\ e.hits[e.index + 1].cfdfail THEN good ELSE Append(good, e),
    base <- << >>, Holds <- OfEvents
Charge == INSTANCE SequenceLemmas WITH
    Op <- LAMBDA st, n, e : n + Sorter!Qints(e), base <- 0, Holds <- OfEvents

\* They are those folds.
LEMMA TheSorterFolds ==
  ASSUME NEW s
  PROVE  /\ Sorter!Accepted(s) = Keeping!Fold(sort_type, s)
         /\ Sorter!Good(s) = WithGoodCFD!Fold(sort_type, s)
         /\ Sorter!FoldLeft(LAMBDA n, e : n + Sorter!Qints(e), 0, s)
                = Charge!Fold(sort_type, s)
<1>1. Sorter!Accepted(s) = Keeping!Fold(sort_type, s)
  BY Zenon DEF Sorter!Accepted, Sorter!FoldLeft, Sorter!MapThenFoldSet, Sorter!Max,
     Sorter!Skipped, Keeping!Fold, Keeping!FoldLeft, Keeping!MapThenFoldSet, Keeping!Max
<1>2. Sorter!Good(s) = WithGoodCFD!Fold(sort_type, s)
  BY Zenon DEF Sorter!Good, Sorter!FoldLeft, Sorter!MapThenFoldSet, Sorter!Max,
     Sorter!GetTrigger, WithGoodCFD!Fold, WithGoodCFD!FoldLeft,
     WithGoodCFD!MapThenFoldSet, WithGoodCFD!Max
<1>3. Sorter!FoldLeft(LAMBDA n, e : n + Sorter!Qints(e), 0, s) = Charge!Fold(sort_type, s)
  BY Zenon DEF Sorter!FoldLeft, Sorter!MapThenFoldSet, Sorter!Max,
     Charge!Fold, Charge!FoldLeft, Charge!MapThenFoldSet, Charge!Max
<1> QED
  BY <1>1, <1>2, <1>3

\* One event more is accepted or skipped.
LEMMA KeepingAppend ==
  ASSUME NEW st, NEW s \in Seq(Event), NEW e \in Event
  PROVE  /\ Keeping!Fold(st, s) \in Seq(Event)
         /\ Keeping!Fold(st, Append(s, e)) =
                IF e.hits = << >> \/ (st = "gap" /\ e.index > 0) THEN Keeping!Fold(st, s)
                ELSE Append(Keeping!Fold(st, s), e)
<1>1. Keeping!Fold(st, Append(s, e)) =
         IF e.hits = << >> \/ (st = "gap" /\ e.index > 0) THEN Keeping!Fold(st, s)
         ELSE Append(Keeping!Fold(st, s), e)
  BY Keeping!FoldAppend
<1>2. OfEvents(st, s, Keeping!Fold(st, s))
  <2>1. OfEvents(st, << >>, << >>)
    BY DEF OfEvents
  <2>2. ASSUME NEW n \in Nat, n < Len(s), NEW events, OfEvents(st, SubSeq(s, 1, n), events)
        PROVE  OfEvents(st, SubSeq(s, 1, n + 1),
                        IF s[n + 1].hits = << >> \/ (st = "gap" /\ s[n + 1].index > 0)
                          THEN events ELSE Append(events, s[n + 1]))
    <3>1. s[n + 1] \in Event /\ events \in Seq(Event)
      BY <2>2, PrefixAppend DEF OfEvents
    <3>2. Append(events, s[n + 1]) \in Seq(Event)
      BY <3>1, AppendProperties
    <3> QED
      BY <3>1, <3>2 DEF OfEvents
  <2> QED
    BY <2>1, <2>2, Keeping!FoldInduction
<1> QED
  BY <1>1, <1>2 DEF OfEvents

\* The good events and the charge of one event more.
LEMMA FilledAppend ==
  ASSUME NEW st, NEW s \in Seq(Event), NEW e \in Event
  PROVE  /\ WithGoodCFD!Fold(st, Append(s, e)) =
                IF st # "gap" /\ e.hits[e.index + 1].cfdfail THEN WithGoodCFD!Fold(st, s)
                ELSE Append(WithGoodCFD!Fold(st, s), e)
         /\ Charge!Fold(st, Append(s, e)) = Charge!Fold(st, s) + Sorter!Qints(e)
<1>1. WithGoodCFD!Fold(st, Append(s, e)) =
         IF st # "gap" /\ e.hits[e.index + 1].cfdfail THEN WithGoodCFD!Fold(st, s)
         ELSE Append(WithGoodCFD!Fold(st, s), e)
  BY WithGoodCFD!FoldAppend
<1>2. Charge!Fold(st, Append(s, e)) = Charge!Fold(st, s) + Sorter!Qints(e)
  BY Charge!FoldAppend
<1> QED
  BY <1>1, <1>2

\* What has been filled is what the events popped, or popped and handled, amount to,
\* and the tree is closed only at the end.
SorterInv ==
    /\ sorter_pc = "push" => taken > 0
    /\ tree = "closed" => sorter_pc = "exited"
    /\ tree \in {"none", "open", "closed"}
    /\ userSort = Keeping!Fold(sort_type, Sorter!Popped)
    /\ tree_events = IF tree = "none" THEN << >> ELSE Keeping!Fold(sort_type, Sorter!Finished)
    /\ spectra = WithGoodCFD!Fold(sort_type, Keeping!Fold(sort_type, Sorter!Finished))
    /\ chargeIntegrator = Charge!Fold(sort_type, Keeping!Fold(sort_type, Sorter!Finished))

\* Nothing is filled at the start.
LEMMA SorterInvInit == AnalysisInit => SorterInv
<1> SUFFICES ASSUME AnalysisInit PROVE SorterInv
  OBVIOUS
<1>1. /\ output = << >> /\ taken = 0 /\ sorter_pc = "test" /\ tree \in {"none", "open"}
      /\ userSort = << >> /\ spectra = << >> /\ chargeIntegrator = 0 /\ tree_events = << >>
  BY DEF AnalysisInit, Init, OutputInit, Sorter!Init, Sorter!TaskInit
<1>2. SubSeq(<< >>, 1, 0) = << >>
  OBVIOUS
<1>3. Sorter!Popped = << >> /\ Sorter!Finished = << >>
  BY <1>1, <1>2 DEF Sorter!Popped, Sorter!Finished
<1>4. /\ Keeping!Fold(sort_type, << >>) = << >> /\ WithGoodCFD!Fold(sort_type, << >>) = << >>
      /\ Charge!Fold(sort_type, << >>) = 0
  BY Keeping!FoldEmpty, WithGoodCFD!FoldEmpty, Charge!FoldEmpty
<1> QED
  BY <1>1, <1>3, <1>4 DEF SorterInv

\* A step keeps it, whoever makes it.
LEMMA SorterInvNext == TriggerInv /\ SorterInv /\ [Next]_vars => SorterInv'
<1> SUFFICES ASSUME TriggerInv, SorterInv, [Next]_vars PROVE SorterInv'
  OBVIOUS
<1>1. /\ output \in Seq(Event) /\ pending \in Seq(Event) /\ taken \in 0 .. Len(output)
      /\ taken \in Nat
  BY LenProperties DEF TriggerInv
<1> USE DEF SorterInv, sorterOnly
<1>2. CASE Sorter!Pop /\ UNCHANGED triggerOnly
  <2>1. /\ sorter_pc = "pop" /\ sorter_pc' = "push" /\ taken' = taken + 1 /\ taken < Len(output)
        /\ (userSort' = IF Sorter!Skipped(output[taken + 1]) THEN userSort
                        ELSE Append(userSort, output[taken + 1]))
        /\ UNCHANGED <<output, sort_type, spectra, chargeIntegrator, tree, tree_events>>
    BY <1>2 DEF Sorter!Pop, Sorter!PopNext, Sorter!ItemWaiting, Sorter!NextItem
  <2>2. PICK e \in Event : e = output[taken + 1]
    BY <1>1, <2>1, PrefixAppend
  <2>3. PICK s \in Seq(Event) : s = SubSeq(output, 1, taken)
    BY <1>1, <2>1, PrefixAppend
  <2>4. SubSeq(output, 1, taken + 1) = Append(s, e)
    BY <1>1, <2>1, <2>2, <2>3, PrefixAppend
  <2>5. Sorter!Popped = s /\ Sorter!Popped' = Append(s, e)
    BY <2>1, <2>3, <2>4 DEF Sorter!Popped
  <2>6. Sorter!Finished = s /\ Sorter!Finished' = s
    BY <1>1, <2>1, <2>3 DEF Sorter!Finished
  <2>7. userSort' = Keeping!Fold(sort_type, Append(s, e))
    BY <2>1, <2>2, <2>5, KeepingAppend DEF Sorter!Skipped
  <2> QED
    BY <1>1, <2>1, <2>5, <2>6, <2>7
<1>3. CASE Sorter!Fill /\ UNCHANGED triggerOnly
  <2>1. /\ sorter_pc = "push" /\ sorter_pc' = "test"
        /\ UNCHANGED <<output, taken, sort_type, userSort, tree>>
    BY <1>3 DEF Sorter!Fill, triggerOnly
  <2>2. PICK n \in Nat : n = taken - 1 /\ n < Len(output) /\ n + 1 = taken
    BY <1>1, <2>1, LenProperties
  <2>3. PICK e \in Event : e = output[taken]
    BY <1>1, <2>2, PrefixAppend
  <2>4. PICK s \in Seq(Event) : s = SubSeq(output, 1, n)
    BY <1>1, <2>2, PrefixAppend
  <2>5. SubSeq(output, 1, taken) = Append(s, e)
    BY <1>1, <2>2, <2>3, <2>4, PrefixAppend
  <2>6. Sorter!Popped' = Sorter!Popped
    BY <2>1 DEF Sorter!Popped
  <2>7. Sorter!Finished = s /\ Sorter!Finished' = Append(s, e)
    BY <2>1, <2>2, <2>4, <2>5 DEF Sorter!Finished
  <2>8. Sorter!InHand = e
    BY <2>3 DEF Sorter!InHand
  <2> DEFINE kept == Keeping!Fold(sort_type, s)
  <2>9. kept \in Seq(Event)
    BY KeepingAppend, <2>3
  <2>10. CASE Sorter!Skipped(e)
    <3>1. UNCHANGED <<spectra, chargeIntegrator, tree_events>>
      BY <1>3, <2>8, <2>10 DEF Sorter!Fill
    <3>2. Keeping!Fold(sort_type, Append(s, e)) = kept
      BY <2>10, KeepingAppend DEF Sorter!Skipped
    <3> QED
      BY <2>1, <2>6, <2>7, <3>1, <3>2
  <2>11. CASE ~Sorter!Skipped(e)
    <3>1. Keeping!Fold(sort_type, Append(s, e)) = Append(kept, e)
      BY <2>11, KeepingAppend DEF Sorter!Skipped
    <3>2. /\ chargeIntegrator' = chargeIntegrator + Sorter!Qints(e)
          /\ (spectra' = IF sort_type # "gap" /\ e.hits[e.index + 1].cfdfail
                          THEN spectra ELSE Append(spectra, e))
          /\ (tree_events' = IF tree = "open" THEN Append(tree_events, e) ELSE tree_events)
      BY <1>3, <2>8, <2>11
      DEF Sorter!Fill, Sorter!AddEntry, Sorter!TreeFill, Sorter!HasTrigger, Sorter!GetTrigger
    <3>3. /\ chargeIntegrator' = Charge!Fold(sort_type, Append(kept, e))
          /\ spectra' = WithGoodCFD!Fold(sort_type, Append(kept, e))
      <4> HIDE DEF kept
      <4>1. chargeIntegrator = Charge!Fold(sort_type, kept) /\ spectra = WithGoodCFD!Fold(sort_type, kept)
        BY <2>7 DEF kept
      <4> QED
        BY <2>9, <3>2, <4>1, FilledAppend
    <3>4. tree # "closed"
      BY <2>1
    <3> QED
      BY <2>1, <2>6, <2>7, <3>1, <3>2, <3>3, <3>4
  <2> QED
    BY <2>10, <2>11
<1>4. CASE Push /\ UNCHANGED <<input, options, sorterOnly>>
  <2>1. /\ pending # << >> /\ output' = Append(output, Head(pending))
        /\ UNCHANGED <<taken, sort_type, sorterOnly>>
    BY <1>4 DEF Push, options
  <2>2. PICK e \in Event : e = Head(pending)
    BY <1>1, <2>1, HeadTailProperties
  <2>3. SubSeq(output', 1, taken) = SubSeq(output, 1, taken)
    BY <1>1, <2>1, <2>2, PrefixStays
  <2>4. Sorter!Popped' = Sorter!Popped
    BY <2>1, <2>3 DEF Sorter!Popped
  <2>5. Sorter!Finished' = Sorter!Finished
    <3>1. CASE sorter_pc # "push"
      BY <2>1, <2>3, <3>1 DEF Sorter!Finished
    <3>2. CASE sorter_pc = "push"
      <4>1. taken - 1 \in 0 .. Len(output)
        BY <1>1, <3>2, LenProperties
      <4>2. SubSeq(output', 1, taken - 1) = SubSeq(output, 1, taken - 1)
        BY <1>1, <2>1, <2>2, <4>1, PrefixStays
      <4> QED
        BY <2>1, <3>2, <4>2 DEF Sorter!Finished
    <3> QED
      BY <3>1, <3>2
  <2> QED
    BY <2>1, <2>4, <2>5
<1>5. ASSUME UNCHANGED <<output, taken, sort_type, userSort, spectra, chargeIntegrator, tree_events>>,
             sorter_pc # "push", sorter_pc' # "push",
             tree' \in {"none", "open", "closed"}, tree' = "none" <=> tree = "none",
             tree' = "closed" => sorter_pc' = "exited"
      PROVE  SorterInv'
  <2>1. Sorter!Popped' = Sorter!Popped
    BY <1>5 DEF Sorter!Popped
  <2>2. Sorter!Finished' = Sorter!Finished
    BY <1>5 DEF Sorter!Finished
  <2> QED
    BY <1>5, <2>1, <2>2
<1>6. ASSUME UNCHANGED <<output, taken, sort_type, sorter_pc, userSort, spectra,
                         chargeIntegrator, tree, tree_events>>
      PROVE  SorterInv'
  <2>1. Sorter!Popped' = Sorter!Popped /\ Sorter!Finished' = Sorter!Finished
    BY <1>6 DEF Sorter!Popped, Sorter!Finished
  <2> QED
    BY <1>6, <2>1
<1>7. CASE TriggerStep
  BY <1>4, <1>6, <1>7
  DEF TriggerStep, Run, Test, Pop, PopNext, TimedOut, Handled, Exit, options
<1>8. CASE SorterStep
  <2>1. CASE Sorter!Test /\ UNCHANGED Sorter!sorterVars /\ UNCHANGED triggerOnly
    BY <1>5, <2>1 DEF Sorter!Test, Sorter!sorterVars, Sorter!histograms, triggerOnly
  <2>2. CASE Sorter!TimedOut /\ UNCHANGED Sorter!sorterVars /\ UNCHANGED triggerOnly
    BY <1>5, <2>2 DEF Sorter!TimedOut, Sorter!sorterVars, Sorter!histograms, triggerOnly
  <2>3. CASE Sorter!ExitClosed /\ UNCHANGED triggerOnly
    BY <1>5, <2>3 DEF Sorter!ExitClosed, Sorter!histograms, triggerOnly
  <2> QED
    BY <1>2, <1>3, <1>8, <2>1, <2>2, <2>3 DEF SorterStep, Sorter!Run
<1>9. CASE ClusterArrives
  BY <1>6, <1>9 DEF ClusterArrives, Arrive, options
<1>10. CASE FinishTrigger
  BY <1>6, <1>10 DEF FinishTrigger, options
<1>11. CASE FinishSorter
  BY <1>6, <1>11 DEF FinishSorter, Sorter!Finish, triggerOnly, options
<1>12. CASE UNCHANGED vars
  BY <1>6, <1>12 DEF vars, triggerOnly, options
<1> QED
  BY <1>7, <1>8, <1>9, <1>10, <1>11, <1>12 DEF Next

\* The tree, the spectra and the charge integrator have been given the
\* events that came, each once and in order: HistManager::AddEntry and the loop of
\* Sorter::Run, whatever the trigger does in the meantime.
THEOREM SpectraCorrect == Spec => []SpectraAreTheGoodEvents
<1>1. Spec => []SorterInv
  BY SorterInvInit, SorterInvNext, TriggerInvariance, PTL DEF Spec
<1>2. SorterInv => SpectraAreTheGoodEvents
  BY TheSorterFolds DEF SorterInv, SpectraAreTheGoodEvents, Sorter!SpectraAreTheGoodEvents
<1> QED
  BY <1>1, <1>2, PTL
-----------------------------------------------------------------------------
\* The events of a sequence of clusters, one after the other.
EventLists(cs) == [k \in DOMAIN cs |-> Events(cs[k])]
EventsOfAll(cs) == FlattenSeq(EventLists(cs))

\* They are events, and those of the first clusters come first.
LEMMA EventsConcat ==
  ASSUME NEW cs \in Seq(Seq(Hit)), NEW ds \in Seq(Seq(Hit))
  PROVE  /\ EventsOfAll(cs) \in Seq(Event)
         /\ EventsOfAll(cs \o ds) = EventsOfAll(cs) \o EventsOfAll(ds)
<1>1. PICK m \in Nat, n \in Nat : m = Len(cs) /\ n = Len(ds)
  BY LenProperties
<1>2. \A c \in Seq(Hit) : Events(c) \in Seq(Event)
  BY EventsOfCluster
<1>3. ASSUME NEW es \in Seq(Seq(Hit)), NEW k \in Nat, k = Len(es)
      PROVE  /\ EventLists(es) \in Seq(Seq(Event)) /\ Len(EventLists(es)) = k
             /\ \A i \in 1 .. k : EventLists(es)[i] = Events(es[i])
  <2>1. DOMAIN es = 1 .. k /\ \A i \in 1 .. k : es[i] \in Seq(Hit)
    BY <1>3, LenProperties, ElementOfSeq
  <2>2. EventLists(es) \in [1 .. k -> Seq(Event)]
    BY <1>2, <2>1 DEF EventLists
  <2> QED
    BY <2>1, <2>2 DEF EventLists
<1>4. PICK all \in Seq(Seq(Hit)) :
         /\ all = cs \o ds /\ Len(all) = m + n
         /\ \A i \in 1 .. m : all[i] = cs[i]
         /\ \A i \in 1 .. n : all[m + i] = ds[i]
  <2>1. /\ cs \o ds \in Seq(Seq(Hit)) /\ Len(cs \o ds) = Len(cs) + Len(ds)
        /\ \A i \in 1 .. Len(cs) : (cs \o ds)[i] = cs[i]
        /\ \A i \in 1 .. Len(ds) : (cs \o ds)[Len(cs) + i] = ds[i]
    BY ConcatElements
  <2> QED
    BY Zenon, <1>1, <2>1
<1>5. PICK a \in Seq(Seq(Event)) :
         a = EventLists(cs) /\ Len(a) = m /\ \A i \in 1 .. m : a[i] = Events(cs[i])
  BY Zenon, <1>1, <1>3
<1>6. PICK b \in Seq(Seq(Event)) :
         b = EventLists(ds) /\ Len(b) = n /\ \A i \in 1 .. n : b[i] = Events(ds[i])
  BY Zenon, <1>1, <1>3
<1>7. PICK c \in Seq(Seq(Event)) :
         /\ c = EventLists(all) /\ Len(c) = m + n
         /\ \A i \in 1 .. m + n : c[i] = Events(all[i])
  <2>1. m + n \in Nat
    OBVIOUS
  <2> QED
    BY Zenon, <1>3, <1>4, <2>1
<1>8. c = a \o b
  <2>1. PICK ab \in Seq(Seq(Event)) :
           /\ ab = a \o b /\ Len(ab) = m + n
           /\ \A i \in 1 .. m : ab[i] = a[i]
           /\ \A i \in 1 .. n : ab[m + i] = b[i]
    <3>1. /\ a \o b \in Seq(Seq(Event)) /\ Len(a \o b) = Len(a) + Len(b)
          /\ \A i \in 1 .. Len(a) : (a \o b)[i] = a[i]
          /\ \A i \in 1 .. Len(b) : (a \o b)[Len(a) + i] = b[i]
      BY ConcatElements
    <3> QED
      BY Zenon, <1>5, <1>6, <3>1
  <2>2. ASSUME NEW i \in 1 .. m + n PROVE c[i] = ab[i]
    <3>1. CASE i \in 1 .. m
      BY Zenon, <1>4, <1>5, <1>7, <2>1, <2>2, <3>1
    <3>2. CASE i \notin 1 .. m
      <4>1. PICK j \in 1 .. n : i = m + j
        <5>1. i - m \in 1 .. n /\ i = m + (i - m)
          BY <3>2
        <5> QED
          BY Zenon, <5>1
      <4> QED
        <5>1. c[m + j] = Events(all[m + j]) /\ all[m + j] = ds[j]
          BY Zenon, <1>4, <1>7, <2>2, <4>1
        <5>2. ab[m + j] = b[j] /\ b[j] = Events(ds[j])
          BY Zenon, <1>6, <2>1, <4>1
        <5> QED
          BY Zenon, <4>1, <5>1, <5>2
    <3> QED
      BY <3>1, <3>2
  <2>3. \A i \in 1 .. Len(c) : c[i] = ab[i]
    BY <1>7, <2>2
  <2> QED
    BY <1>7, <2>1, <2>3, SeqEqual
<1>9. FlattenSeq(a) \in Seq(Event) /\ FlattenSeq(a \o b) = FlattenSeq(a) \o FlattenSeq(b)
  BY Zenon, FlattenType, FlattenConcat
<1> QED
  BY Zenon, <1>4, <1>5, <1>6, <1>7, <1>8, <1>9 DEF EventsOfAll

\* One cluster more, and its events come behind the others.
LEMMA EventsAppend ==
  ASSUME NEW cs \in Seq(Seq(Hit)), NEW cluster \in Seq(Hit)
  PROVE  /\ EventsOfAll(Append(cs, cluster)) = EventsOfAll(cs) \o Events(cluster)
         /\ EventsOfAll(<< >>) = << >>
<1>1. PICK events \in Seq(Event) : events = Events(cluster)
  BY EventsOfCluster
<1>2. EventLists(<<cluster>>) = <<events>> /\ EventLists(<< >>) = << >>
  BY <1>1 DEF EventLists
<1>3. FlattenSeq(<<events>>) = events
  <2>1. << >> \in Seq(Seq(Event)) /\ Append(<< >>, events) = <<events>> /\ << >> \o events = events
    OBVIOUS
  <2>2. FlattenSeq(Append(<< >>, events)) = FlattenSeq(<< >>) \o events
    BY Zenon, <2>1, FlattenAppend
  <2> QED
    BY Zenon, <2>1, <2>2, FlattenEmpty
<1>4. <<cluster>> \in Seq(Seq(Hit)) /\ Append(cs, cluster) = cs \o <<cluster>>
  BY AppendIsConcat
<1> QED
  BY Zenon, <1>1, <1>2, <1>3, <1>4, EventsConcat, FlattenEmpty DEF EventsOfAll

\* An event has hits, and in a gap run it points at none.
LEMMA EventsHaveHits ==
  ASSUME NEW cluster \in Seq(Hit), cluster # << >>, NEW event \in ToSet(Events(cluster))
  PROVE  event.hits # << >> /\ (sort_type = "gap" => event.index = -1)
<1>1. CASE sort_type = "gap"
  <2>1. Events(cluster) = << >> \/ Events(cluster) = <<[hits |-> cluster, index |-> -1]>>
    BY <1>1 DEF Events, GapEvents
  <2>2. event = [hits |-> cluster, index |-> -1]
    BY <2>1 DEF ToSet
  <2> QED
    BY <2>2
<1>2. CASE sort_type # "gap"
  <2>1. EventOf(sort_type, trigger, cluster, event)
    BY EventsOfCluster
  <2>2. event.index + 1 \in DOMAIN event.hits
    BY <1>2, <2>1 DEF EventOf
  <2> QED
    BY <1>2, <2>2
<1> QED
  BY <1>1, <1>2

\* The events of a cluster, of a sort and a trigger that are given: they are the same for
\* as long as these are.
TriggersOf(kind, cluster) ==
    FoldLeftDomain(LAMBDA triggers, i :
                       IF cluster[i].type = kind THEN Append(triggers, i) ELSE triggers,
                   << >>, cluster)
ChosenFor(sort, kind, cluster) ==
    IF sort = "time"
      THEN FoldLeft(LAMBDA chosen, i :
                        IF cluster[i].detectorID = 0 THEN Append(chosen, i) ELSE chosen,
                    << >>, TriggersOf(kind, cluster))
      ELSE FoldLeft(LAMBDA accepted, i :
                        IF accepted = << >> \/ cluster[i].t - cluster[Last(accepted)].t > DeadTime
                          THEN Append(accepted, i) ELSE accepted,
                    << >>, TriggersOf(kind, cluster))
EventsFor(sort, kind, cluster) ==
    IF sort = "gap"
      THEN IF kind = "any" \/ \E i \in DOMAIN cluster : cluster[i].type = kind
             THEN <<[hits |-> cluster, index |-> -1]>> ELSE << >>
      ELSE LET trigs == ChosenFor(sort, kind, cluster)
           IN  [n \in DOMAIN trigs |-> Window(cluster, trigs[n])]
EventsOfAllFor(sort, kind, cs) ==
    FlattenSeq([k \in DOMAIN cs |-> EventsFor(sort, kind, cs[k])])
EventsOfPopped == EventsOfAll(SubSeq(input, 1, entries_processed))

\* They are the events.
LEMMA TheyAreTheEvents ==
    /\ \A cs : EventsOfAll(cs) = EventsOfAllFor(sort_type, trigger, cs)
    /\ EventsOfPopped = EventsOfAllFor(sort_type, trigger, SubSeq(input, 1, entries_processed))
<1>1. \A cluster : Events(cluster) = EventsFor(sort_type, trigger, cluster)
  BY Zenon DEF Events, EventsFor, GapEvents, ChosenTriggers, ChosenFor, GetTriggers, TriggersOf,
     GetTriggersExclusive
<1>2. \A cs : EventsOfAll(cs) = EventsOfAllFor(sort_type, trigger, cs)
  BY Zenon, <1>1 DEF EventsOfAll, EventLists, EventsOfAllFor
<1> QED
  BY Zenon, <1>2 DEF EventsOfPopped

\* So they do not change with the queues.
LEMMA EventsStay ==
  ASSUME UNCHANGED <<sort_type, trigger>>
  PROVE  EventsOfPopped' = EventsOfAll(SubSeq(input', 1, entries_processed'))
<1>1. EventsOfPopped'
        = EventsOfAllFor(sort_type', trigger', SubSeq(input', 1, entries_processed'))
  <2>1. (EventsOfPopped
          = EventsOfAllFor(sort_type, trigger, SubSeq(input, 1, entries_processed)))'
    BY TheyAreTheEvents, PTL
  <2> QED
    BY Zenon, <2>1
<1> QED
  BY Zenon, <1>1, TheyAreTheEvents

\* The events made are those of the clusters popped, and none of them is skipped: the
\* plugin has been given each that the sorter has popped.
BuiltInv ==
    /\ \A k \in DOMAIN input : input[k] # << >>
    /\ Built = EventsOfPopped
    /\ \A event \in Made : event.hits # << >> /\ (sort_type = "gap" => event.index = -1)
    /\ userSort = Sorter!Popped

\* No event has been made at the start.
LEMMA BuiltInvInit == AnalysisInit => BuiltInv
<1> SUFFICES ASSUME AnalysisInit PROVE BuiltInv
  OBVIOUS
<1>1. /\ input = << >> /\ entries_processed = 0 /\ output = << >> /\ pending = << >>
      /\ taken = 0 /\ userSort = << >>
  BY DEF AnalysisInit, Init, TaskInit, OutputInit, Sorter!Init
<1>2. SubSeq(<< >>, 1, 0) = << >> /\ DOMAIN << >> = {} /\ << >> \o << >> = << >>
  OBVIOUS
<1>3. Built = << >> /\ Made = {} /\ Sorter!Popped = << >>
  BY <1>1, <1>2 DEF Made, Built, ToSet, Sorter!Popped
<1>4. EventsOfAll(<< >>) = << >>
  <2>1. EventLists(<< >>) = << >>
    BY DEF EventLists
  <2> QED
    BY Zenon, <2>1, FlattenEmpty DEF EventsOfAll
<1> QED
  BY <1>1, <1>2, <1>3, <1>4 DEF BuiltInv, EventsOfPopped

\* A step keeps it, whoever makes it.
LEMMA BuiltInvNext == TriggerInv /\ BuiltInv /\ [Next]_vars => BuiltInv'
<1> SUFFICES ASSUME TriggerInv, BuiltInv, [Next]_vars PROVE BuiltInv'
  OBVIOUS
<1>1. /\ input \in Seq(Seq(Hit)) /\ entries_processed \in 0 .. Len(input)
      /\ output \in Seq(Event) /\ pending \in Seq(Event) /\ taken \in 0 .. Len(output)
      /\ entries_processed \in Nat /\ taken \in Nat
      /\ pc \notin {"push", "drain"} => pending = << >>
  BY LenProperties DEF TriggerInv
<1>2. CASE Pop /\ UNCHANGED sorterOnly
  <2>1. /\ pending = << >> /\ entries_processed' = entries_processed + 1
        /\ entries_processed < Len(input) /\ pending' = Events(NextItem)
        /\ UNCHANGED <<input, output, taken, sort_type, trigger, userSort>>
    BY <1>1, <1>2 DEF Pop, PopNext, ItemWaiting, options, sorterOnly
  <2>2. PICK cluster \in Seq(Hit) : /\ cluster = input[entries_processed + 1]
                                    /\ cluster # << >>
    <3>1. entries_processed + 1 \in DOMAIN input
      BY <1>1, <2>1, LenProperties
    <3> QED
      BY <1>1, <3>1, ElementOfSeq DEF BuiltInv
  <2>3. PICK before \in Seq(Seq(Hit)) : before = SubSeq(input, 1, entries_processed)
    BY <1>1, <2>1, PrefixAppend
  <2>4. SubSeq(input, 1, entries_processed + 1) = Append(before, cluster)
    BY <1>1, <2>1, <2>2, <2>3, PrefixAppend
  <2>5. PICK events \in Seq(Event) : events = Events(cluster) /\ pending' = events
    BY <2>1, <2>2, EventsOfCluster DEF NextItem
  <2>6. Built' = Built \o events /\ Made' = Made \cup ToSet(events)
    <3>1. Built = output
      BY <1>1, <2>1, ConcatEmptySeq DEF Built
    <3>2. Built' = output \o events
      BY <2>1, <2>5 DEF Built
    <3> QED
      BY <1>1, <3>1, <3>2, ToSetConcat DEF Made
  <2>7. EventsOfAll(Append(before, cluster)) = EventsOfAll(before) \o events
    BY Zenon, <2>5, EventsAppend
  <2>8. \A event \in ToSet(events) :
            event.hits # << >> /\ (sort_type = "gap" => event.index = -1)
    BY <2>2, <2>5, EventsHaveHits
  <2>9. Sorter!Popped' = Sorter!Popped
    BY <2>1 DEF Sorter!Popped
  <2>10. Built' = EventsOfAll(SubSeq(input, 1, entries_processed + 1))
    BY Zenon, <2>3, <2>4, <2>6, <2>7 DEF BuiltInv, EventsOfPopped
  <2>11. EventsOfPopped' = EventsOfAll(SubSeq(input, 1, entries_processed + 1))
    BY Zenon, <2>1, EventsStay
  <2> QED
    BY <2>1, <2>6, <2>8, <2>9, <2>10, <2>11 DEF BuiltInv
<1>3. CASE Push /\ UNCHANGED <<input, options, sorterOnly>>
  <2>1. /\ pending # << >> /\ output' = Append(output, Head(pending))
        /\ pending' = Tail(pending)
        /\ UNCHANGED <<input, entries_processed, taken, sort_type, trigger, userSort>>
    BY <1>3 DEF Push, options, sorterOnly
  <2>2. Built' = Built /\ Made' = Made
    BY <1>1, <2>1, HeadMoves DEF Built, Made
  <2>3. SubSeq(output', 1, taken) = SubSeq(output, 1, taken)
    <3>1. Head(pending) \in Event
      BY <1>1, <2>1, HeadTailProperties
    <3> QED
      BY <1>1, <2>1, <3>1, PrefixStays
  <2>4. Sorter!Popped' = Sorter!Popped
    BY <2>1, <2>3 DEF Sorter!Popped
  <2>5. EventsOfPopped' = EventsOfPopped
    BY Zenon, <2>1, EventsStay DEF EventsOfPopped
  <2> QED
    BY <2>1, <2>2, <2>4, <2>5 DEF BuiltInv
<1>4. CASE Sorter!Pop /\ UNCHANGED triggerOnly
  <2>1. /\ taken' = taken + 1 /\ taken < Len(output)
        /\ (userSort' = IF Sorter!Skipped(output[taken + 1]) THEN userSort
                        ELSE Append(userSort, output[taken + 1]))
        /\ UNCHANGED <<output, input, pending, entries_processed, sort_type, trigger>>
    BY <1>4 DEF Sorter!Pop, Sorter!PopNext, Sorter!ItemWaiting, Sorter!NextItem,
       triggerOnly, options
  <2>2. PICK e \in Event : e = output[taken + 1]
    BY <1>1, <2>1, PrefixAppend
  <2>3. e \in Made
    <3>1. taken + 1 \in DOMAIN output
      BY <1>1, <2>1, LenProperties
    <3>2. e \in ToSet(output)
      BY <2>2, <3>1 DEF ToSet
    <3>3. Made = ToSet(output) \cup ToSet(pending)
      BY <1>1, ToSetConcat DEF Made, Built
    <3> QED
      BY <3>2, <3>3
  <2>4. ~Sorter!Skipped(e)
    BY <2>3 DEF BuiltInv, Sorter!Skipped
  <2>5. PICK s \in Seq(Event) : s = SubSeq(output, 1, taken)
    BY <1>1, <2>1, PrefixAppend
  <2>6. SubSeq(output, 1, taken + 1) = Append(s, e)
    BY <1>1, <2>1, <2>2, <2>5, PrefixAppend
  <2>7. Sorter!Popped = s /\ Sorter!Popped' = Append(s, e)
    BY <2>1, <2>5, <2>6 DEF Sorter!Popped
  <2>8. userSort' = Sorter!Popped'
    BY <2>1, <2>2, <2>4, <2>7 DEF BuiltInv
  <2>9. Built' = Built /\ Made' = Made
    BY <2>1 DEF Built, Made
  <2>10. EventsOfPopped' = EventsOfPopped
    BY Zenon, <2>1, EventsStay DEF EventsOfPopped
  <2> QED
    BY <2>1, <2>8, <2>9, <2>10 DEF BuiltInv
<1>5. ASSUME UNCHANGED <<input, pending, output, entries_processed, options, taken, userSort>>
      PROVE  BuiltInv'
  <2>1. Built' = Built /\ Made' = Made /\ Sorter!Popped' = Sorter!Popped
    BY <1>5 DEF Built, Made, Sorter!Popped
  <2>2. EventsOfPopped' = EventsOfPopped
    BY Zenon, <1>5, EventsStay DEF EventsOfPopped, options
  <2> QED
    BY <1>5, <2>1, <2>2 DEF BuiltInv, options
<1>6. CASE ClusterArrives
  <2>1. PICK cluster \in Inputs : /\ input' = Append(input, cluster)
                                  /\ UNCHANGED <<entries_processed, pending, output, taken,
                                                 sort_type, trigger, userSort>>
    BY <1>6 DEF ClusterArrives, Arrive, options, sorterOnly
  <2>2. cluster \in Seq(Hit) /\ cluster # << >>
    BY ClustersAssumption
  <2>3. SubSeq(input', 1, entries_processed) = SubSeq(input, 1, entries_processed)
    BY <1>1, <2>1, <2>2, PrefixStays
  <2>4. \A k \in DOMAIN input' : input'[k] # << >>
    <3>1. PICK n \in Nat : n = Len(input) /\ DOMAIN input = 1 .. n
      BY <1>1, LenProperties
    <3>2. /\ DOMAIN input' = 1 .. n + 1 /\ input'[n + 1] = cluster
          /\ \A k \in 1 .. n : input'[k] = input[k]
      BY <1>1, <2>1, <2>2, <3>1, AppendProperties, LenProperties
    <3> QED
      BY <2>2, <3>1, <3>2 DEF BuiltInv
  <2>5. Built' = Built /\ Made' = Made /\ Sorter!Popped' = Sorter!Popped
    BY <2>1 DEF Built, Made, Sorter!Popped
  <2>6. EventsOfPopped' = EventsOfPopped
    BY Zenon, <2>1, <2>3, EventsStay DEF EventsOfPopped
  <2> QED
    BY <2>1, <2>4, <2>5, <2>6 DEF BuiltInv
<1>7. CASE TriggerStep
  BY <1>2, <1>3, <1>5, <1>7
  DEF TriggerStep, Run, Test, TimedOut, Handled, Exit, sorterOnly
<1>8. CASE SorterStep
  <2>1. CASE Sorter!Pop
    BY <1>4, <1>8, <2>1 DEF SorterStep
  <2>2. CASE ~Sorter!Pop
    <3>1. UNCHANGED <<output, taken, userSort, triggerOnly>>
      BY <1>8, <2>2
      DEF SorterStep, Sorter!Run, Sorter!Test, Sorter!Fill, Sorter!TimedOut, Sorter!ExitClosed,
          Sorter!sorterVars, Sorter!histograms
    <3> QED
      BY <1>5, <3>1 DEF triggerOnly
  <2> QED
    BY <2>1, <2>2
<1>9. CASE FinishTrigger
  BY <1>5, <1>9 DEF FinishTrigger, Finish, sorterOnly
<1>10. CASE FinishSorter
  BY <1>5, <1>10 DEF FinishSorter, Sorter!Finish, triggerOnly
<1>11. CASE UNCHANGED vars
  BY <1>5, <1>11 DEF vars, triggerOnly, sorterOnly
<1> QED
  BY <1>6, <1>7, <1>8, <1>9, <1>10, <1>11 DEF Next

\* The plugin has been given the first of the events of the clusters that have come, in
\* order, those with a bad trigger too, for AddEntry calls it before it looks at them.
GivenInOrder == \E rest \in Seq(Event) : EventsOfAll(input) = userSort \o rest

\* It is what the trigger and the sorter do together, whatever comes first.
THEOREM GivenInOrderCorrect == Spec => []GivenInOrder
<1>1. Spec => [](TriggerInv /\ BuiltInv)
  BY TriggerInvInit, TriggerInvNext, BuiltInvInit, BuiltInvNext, PTL DEF Spec
<1>2. TriggerInv /\ BuiltInv => GivenInOrder
  <2> SUFFICES ASSUME TriggerInv, BuiltInv PROVE GivenInOrder
    OBVIOUS
  <2>1. /\ input \in Seq(Seq(Hit)) /\ entries_processed \in 0 .. Len(input)
        /\ output \in Seq(Event) /\ pending \in Seq(Event) /\ taken \in 0 .. Len(output)
    BY DEF TriggerInv
  <2>2. PICK given \in Seq(Event), ready \in Seq(Event) :
           given = SubSeq(output, 1, taken) /\ output = given \o ready
    <3>1. SubSeq(output, 1, taken) \in Seq(Event)
      BY <2>1, PrefixProperties
    <3>2. \E ready \in Seq(Event) : output = SubSeq(output, 1, taken) \o ready
      BY <2>1, PrefixAndRest
    <3> QED
      BY Zenon, <3>1, <3>2
  <2>3. PICK popped \in Seq(Seq(Hit)), waiting \in Seq(Seq(Hit)) :
           popped = SubSeq(input, 1, entries_processed) /\ input = popped \o waiting
    <3>1. SubSeq(input, 1, entries_processed) \in Seq(Seq(Hit))
      BY <2>1, PrefixProperties
    <3>2. \E waiting \in Seq(Seq(Hit)) :
             input = SubSeq(input, 1, entries_processed) \o waiting
      BY <2>1, PrefixAndRest
    <3> QED
      BY Zenon, <3>1, <3>2
  <2>4. PICK more \in Seq(Event) : EventsOfAll(input) = Built \o more
    <3>1. EventsOfAll(waiting) \in Seq(Event)
      BY Zenon, EventsConcat
    <3>2. EventsOfAll(popped \o waiting) = EventsOfAll(popped) \o EventsOfAll(waiting)
      BY Zenon, EventsConcat
    <3> QED
      BY Zenon, <2>3, <3>1, <3>2 DEF BuiltInv, EventsOfPopped
  <2>5. Built = (given \o ready) \o pending
    BY Zenon, <2>2 DEF Built
  <2>6. userSort = given
    BY <2>2 DEF BuiltInv, Sorter!Popped
  <2>7. PICK queued \in Seq(Event) : queued = pending
    BY <2>1
  <2>8. /\ ((given \o ready) \o queued) \o more = given \o (ready \o (queued \o more))
        /\ ready \o (queued \o more) \in Seq(Event)
    <3>1. \A front \in Seq(Event) : (front \o queued) \o more = front \o (queued \o more)
      OBVIOUS
    <3>2. \A tail \in Seq(Event) : (given \o ready) \o tail = given \o (ready \o tail)
      OBVIOUS
    <3>3. /\ given \o ready \in Seq(Event) /\ queued \o more \in Seq(Event)
          /\ ready \o (queued \o more) \in Seq(Event)
      OBVIOUS
    <3>4. ((given \o ready) \o queued) \o more = (given \o ready) \o (queued \o more)
      BY Zenon, <3>1, <3>3
    <3>5. (given \o ready) \o (queued \o more) = given \o (ready \o (queued \o more))
      BY Zenon, <3>2, <3>3
    <3> QED
      BY <3>3, <3>4, <3>5
  <2>9. PICK rest \in Seq(Event) : ((given \o ready) \o queued) \o more = given \o rest
    BY Zenon, <2>8
  <2>10. EventsOfAll(input) = ((given \o ready) \o queued) \o more
    BY Zenon, <2>4, <2>5, <2>7
  <2>11. EventsOfAll(input) = userSort \o rest
    BY <2>6, <2>9, <2>10
  <2> QED
    BY Zenon, <2>11 DEF GivenInOrder
<1> QED
  BY <1>1, <1>2, PTL
=============================================================================
