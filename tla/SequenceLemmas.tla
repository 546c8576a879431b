--------------------------- MODULE SequenceLemmas ---------------------------
(***************************************************************************)
(* Facts about sequences that the proofs about the tasks rest on.  The     *)
(* flattening of a sequence of sequences is defined by recursion on its    *)
(* length; the library's induction takes a predicate as a parameter, so    *)
(* the facts about it are proved by the least element of a set instead.    *)
(*                                                                         *)
(* Op and base stand for the operator and the first value of a fold from   *)
(* the left; p is what the operator depends on besides the value so far    *)
(* and the element.  Holds stands for what is true of a value when it is   *)
(* the fold of a sequence.  A module takes an instance of this one for     *)
(* each fold that it proves something about, and what does not mention     *)
(* these three does not depend on them.                                    *)
(***************************************************************************)
EXTENDS SequencesExt, SequenceTheorems, FiniteSetTheorems, WellFoundedInduction, TLAPS

CONSTANTS Op(_, _, _), base, Holds(_, _, _)

\* Every set of natural numbers that is not empty has a least element.
LEMMA LeastElement ==
  ASSUME NEW S \in SUBSET Nat, S # {}
  PROVE  \E m \in S : \A k \in S : m <= k
<1> DEFINE R == {p \in Nat \X Nat : p[1] < p[2]}
<1>1. IsWellFoundedOn(R, Nat)
  BY NatLessThanWellFounded DEF OpToRel
<1> HIDE DEF R
<1>2. PICK m \in S : \A k \in S : ~(<<k, m>> \in R)
  BY <1>1, WFMin
<1>3. ASSUME NEW k \in S PROVE m <= k
  <2>1. k \in Nat /\ m \in Nat
    OBVIOUS
  <2>2. <<k, m>> \in R <=> k < m
    BY <2>1 DEF R
  <2> QED
    BY <1>2, <2>1, <2>2
<1> QED
  BY <1>3

\* Induction, for a set that is given.
LEMMA SetInduction ==
  ASSUME NEW S, 0 \in S, \A n \in Nat : n \in S => n + 1 \in S
  PROVE  Nat \subseteq S
<1> DEFINE others == {n \in Nat : n \notin S}
<1> SUFFICES ASSUME others # {} PROVE FALSE
  OBVIOUS
<1>1. PICK m \in others : \A k \in others : m <= k
  <2>1. others \in SUBSET Nat
    OBVIOUS
  <2> QED
    BY <2>1, LeastElement
<1>2. m \in Nat /\ m # 0 /\ m - 1 \in Nat
  OBVIOUS
<1>3. m - 1 \in S
  BY <1>1, <1>2
<1> QED
  BY <1>2, <1>3
-----------------------------------------------------------------------------
(***************************************************************************)
(* The elements of a sequence                                              *)
(***************************************************************************)
\* The elements of two sequences together are those of either.
LEMMA ToSetConcat ==
  ASSUME NEW S, NEW s \in Seq(S), NEW t \in Seq(S)
  PROVE  ToSet(s \o t) = ToSet(s) \cup ToSet(t)
<1>1. ToSet(s) = Range(s) /\ ToSet(t) = Range(t) /\ ToSet(s \o t) = Range(s \o t)
  BY DEF ToSet, Range
<1> QED
  BY <1>1, RangeConcatenation

\* Appending an element adds it to the elements.
LEMMA ToSetAppend ==
  ASSUME NEW S, NEW s \in Seq(S), NEW x \in S
  PROVE  ToSet(Append(s, x)) = ToSet(s) \cup {x}
<1>1. Append(s, x) = s \o <<x>>
  OBVIOUS
<1>2. ToSet(<<x>>) = {x}
  BY DEF ToSet
<1>3. <<x>> \in Seq(S)
  OBVIOUS
<1>4. ToSet(s \o <<x>>) = ToSet(s) \cup ToSet(<<x>>)
  <2>1. PICK t \in Seq(S) : t = <<x>>
    BY Zenon, <1>3
  <2>2. ToSet(s \o t) = ToSet(s) \cup ToSet(t)
    BY ZenonT(40), ToSetConcat
  <2> QED
    BY Zenon, <2>1, <2>2
<1> QED
  BY <1>1, <1>2, <1>4

\* Pushing the first of the pending items leaves the two sequences together as they are.
LEMMA HeadMoves ==
  ASSUME NEW S, NEW s \in Seq(S), NEW t \in Seq(S), t # << >>
  PROVE  Append(s, Head(t)) \o Tail(t) = s \o t
  OBVIOUS

\* An element appended to the second of two sequences is appended to both together.
LEMMA ConcatAppend ==
  ASSUME NEW S, NEW s \in Seq(S), NEW t \in Seq(S), NEW x \in S
  PROVE  s \o Append(t, x) = Append(s \o t, x)
  OBVIOUS

-----------------------------------------------------------------------------
(***************************************************************************)
(* Flattening                                                              *)
(***************************************************************************)
\* f holds the flattened beginnings of a sequence of sequences by their lengths.
Flattens(f, ss) ==
    /\ DOMAIN f = 1 .. Len(ss)
    /\ \A i \in 1 .. Len(ss) : f[i] = IF i = 1 THEN ss[i] ELSE f[i - 1] \o ss[i]

\* There is such a function.
LEMMA FlattensExists ==
  ASSUME NEW T, NEW ss \in Seq(Seq(T))
  PROVE  \E f \in [1 .. Len(ss) -> Seq(T)] : Flattens(f, ss)
<1> DEFINE Up(f, n) == \A i \in 1 .. n : f[i] = IF i = 1 THEN ss[i] ELSE f[i - 1] \o ss[i]
           Exists(n) == n <= Len(ss) => \E f \in [1 .. n -> Seq(T)] : Up(f, n)
           good == {n \in Nat : Exists(n)}
<1>1. Exists(0)
  <2>1. [i \in 1 .. 0 |-> << >>] \in [1 .. 0 -> Seq(T)]
    OBVIOUS
  <2>2. Up([i \in 1 .. 0 |-> << >>], 0)
    OBVIOUS
  <2> QED
    BY <2>1, <2>2
<1>2. ASSUME NEW n \in Nat, Exists(n) PROVE Exists(n + 1)
  <2> SUFFICES ASSUME n + 1 <= Len(ss)
               PROVE  \E g \in [1 .. n + 1 -> Seq(T)] : Up(g, n + 1)
    OBVIOUS
  <2>1. PICK f \in [1 .. n -> Seq(T)] : Up(f, n)
    <3>1. n <= Len(ss)
      BY LenProperties
    <3> HIDE DEF Up
    <3> QED
      BY <1>2, <3>1
  <2> DEFINE last == IF n = 0 THEN ss[1] ELSE f[n] \o ss[n + 1]
             g == [i \in 1 .. n + 1 |-> IF i <= n THEN f[i] ELSE last]
  <2>2. ss[n + 1] \in Seq(T)
    BY ElementOfSeq
  <2>3. last \in Seq(T)
    <3>1. CASE n = 0
      BY <3>1, <2>2
    <3>2. CASE n # 0
      <4>1. f[n] \in Seq(T)
        BY <3>2
      <4> QED
        BY <3>2, <4>1, <2>2, ConcatProperties
    <3> QED
      BY <3>1, <3>2
  <2>4. g \in [1 .. n + 1 -> Seq(T)]
    BY <2>3
  <2>5. ASSUME NEW i \in 1 .. n + 1
        PROVE  g[i] = IF i = 1 THEN ss[i] ELSE g[i - 1] \o ss[i]
    <3>1. CASE i <= n
      <4>1. i \in 1 .. n /\ (i # 1 => i - 1 \in 1 .. n /\ i - 1 \in 1 .. n + 1)
        BY <3>1
      <4>2. g[i] = f[i] /\ (i # 1 => g[i - 1] = f[i - 1])
        BY <4>1, <3>1
      <4> QED
        BY <4>1, <4>2, <2>1
    <3>2. CASE i = n + 1
      <4>1. g[i] = last
        BY <3>2
      <4>2. n # 0 => n \in 1 .. n + 1 /\ g[n] = f[n]
        OBVIOUS
      <4> HIDE DEF g
      <4> QED
        BY <3>2, <4>1, <4>2
    <3> QED
      BY <3>1, <3>2
  <2> QED
    BY <2>4, <2>5
<1>3. Exists(Len(ss))
  <2> HIDE DEF Exists
  <2>1. 0 \in good /\ \A n \in Nat : n \in good => n + 1 \in good
    BY <1>1, <1>2
  <2> HIDE DEF good
  <2>2. Nat \subseteq good
    BY <2>1, SetInduction
  <2>3. Len(ss) \in good
    BY <2>2, LenProperties
  <2> QED
    BY <2>3 DEF good
<1>4. PICK f \in [1 .. Len(ss) -> Seq(T)] : Up(f, Len(ss))
  BY <1>3, LenProperties
<1> QED
  BY <1>4 DEF Flattens

Agree(f, g, n) == \A i \in 1 .. n : f[i] = g[i]

\* Two sequences that begin with the same elements flatten alike up to there.
LEMMA FlattensAgree ==
  ASSUME NEW T, NEW ss \in Seq(Seq(T)), NEW tt \in Seq(Seq(T)),
         NEW f, NEW g, Flattens(f, ss), Flattens(g, tt),
         NEW n \in Nat, n <= Len(ss), n <= Len(tt),
         Agree(ss, tt, n)
  PROVE  Agree(f, g, n)
<1> DEFINE same == {k \in Nat : k + 1 <= n => f[k + 1] = g[k + 1]}
<1>1. 0 \in same
  <2> SUFFICES ASSUME 1 <= n PROVE f[1] = g[1]
    OBVIOUS
  <2>1. 1 \in 1 .. Len(ss) /\ 1 \in 1 .. Len(tt) /\ 1 \in 1 .. n
    OBVIOUS
  <2>2. f[1] = ss[1] /\ g[1] = tt[1] /\ ss[1] = tt[1]
    BY <2>1 DEF Flattens, Agree
  <2> QED
    BY <2>2
<1>2. ASSUME NEW k \in Nat, k \in same PROVE k + 1 \in same
  <2> SUFFICES ASSUME (k + 1) + 1 <= n PROVE f[(k + 1) + 1] = g[(k + 1) + 1]
    OBVIOUS
  <2>1. f[k + 1] = g[k + 1]
    BY <1>2
  <2> DEFINE j == (k + 1) + 1
  <2>2. j \in 1 .. Len(ss) /\ j \in 1 .. Len(tt) /\ j \in 1 .. n /\ j # 1 /\ j - 1 = k + 1
    OBVIOUS
  <2> HIDE DEF j
  <2>3. f[j] = f[j - 1] \o ss[j] /\ g[j] = g[j - 1] \o tt[j] /\ ss[j] = tt[j]
    BY <2>2 DEF Flattens, Agree
  <2>4. f[j] = g[j]
    BY <2>1, <2>2, <2>3
  <2> QED
    BY <2>4 DEF j
<1> HIDE DEF same
<1>3. Nat \subseteq same
  BY <1>1, <1>2, SetInduction
<1> SUFFICES ASSUME NEW i \in 1 .. n PROVE f[i] = g[i]
  BY DEF Agree
<1>4. i - 1 \in same /\ (i - 1) + 1 = i
  BY <1>3
<1> QED
  BY <1>4 DEF same

\* FlattenSeq is the last value of any such function.
LEMMA FlattenIsLast ==
  ASSUME NEW T, NEW ss \in Seq(Seq(T)), ss # << >>, NEW g, Flattens(g, ss)
  PROVE  FlattenSeq(ss) = g[Len(ss)]
<1> DEFINE Unfolds(f) == f = [i \in 1 .. Len(ss) |-> IF i = 1 THEN ss[i] ELSE f[i - 1] \o ss[i]]
           h == CHOOSE f : Unfolds(f)
<1>1. Len(ss) \in Nat \ {0}
  BY EmptySeq
<1>2. PICK f \in [1 .. Len(ss) -> Seq(T)] : Flattens(f, ss)
  BY FlattensExists
<1>3. Unfolds(f)
  <2> DEFINE u == [i \in 1 .. Len(ss) |-> IF i = 1 THEN ss[i] ELSE f[i - 1] \o ss[i]]
  <2>1. \A i \in 1 .. Len(ss) : f[i] = u[i]
    BY <1>2 DEF Flattens
  <2>2. f = [i \in 1 .. Len(ss) |-> f[i]]
    OBVIOUS
  <2>3. f = u
    BY <2>1, <2>2
  <2> QED
    BY <2>3
<1>4. Unfolds(h)
  <2> HIDE DEF Unfolds
  <2> QED
    BY <1>3, Zenon
<1>5. Flattens(h, ss)
  <2> HIDE DEF h
  <2>1. DOMAIN h = 1 .. Len(ss)
    BY <1>4
  <2>2. \A i \in 1 .. Len(ss) : h[i] = IF i = 1 THEN ss[i] ELSE h[i - 1] \o ss[i]
    BY <1>4
  <2> QED
    BY <2>1, <2>2 DEF Flattens
<1>6. FlattenSeq(ss) = IF Len(ss) = 0 THEN ss ELSE h[Len(ss)]
  BY Zenon DEF FlattenSeq
<1> HIDE DEF h
<1>7. h[Len(ss)] = g[Len(ss)]
  <2>1. Agree(h, g, Len(ss))
    <3>1. Agree(ss, ss, Len(ss))
      BY DEF Agree
    <3> QED
      BY <1>1, <1>5, <3>1, FlattensAgree
  <2> QED
    BY <1>1, <2>1 DEF Agree
<1> QED
  BY <1>1, <1>6, <1>7

\* There is nothing in no sequence.
LEMMA FlattenEmpty == FlattenSeq(<< >>) = << >>
  BY DEF FlattenSeq

\* Flattening sequences over a set gives a sequence over it.
LEMMA FlattenType ==
  ASSUME NEW T, NEW ss \in Seq(Seq(T))
  PROVE  FlattenSeq(ss) \in Seq(T)
<1>1. CASE ss = << >>
  <2>1. FlattenSeq(ss) = << >>
    BY <1>1, FlattenEmpty, Zenon
  <2> QED
    BY <2>1, EmptySeq
<1>2. CASE ss # << >>
  <2>1. PICK f \in [1 .. Len(ss) -> Seq(T)] : Flattens(f, ss)
    BY FlattensExists
  <2>2. FlattenSeq(ss) = f[Len(ss)]
    BY <1>2, <2>1, FlattenIsLast
  <2>3. Len(ss) \in 1 .. Len(ss)
    BY <1>2, EmptySeq
  <2> QED
    BY <2>2, <2>3
<1> QED
  BY <1>1, <1>2

\* Flattening one sequence more puts it behind the others.
LEMMA FlattenAppend ==
  ASSUME NEW T, NEW ss \in Seq(Seq(T)), NEW x \in Seq(T)
  PROVE  FlattenSeq(Append(ss, x)) = FlattenSeq(ss) \o x
<1>1. PICK n \in Nat : n = Len(ss)
  BY LenProperties
<1>2. PICK tt \in Seq(Seq(T)) : tt = Append(ss, x)
  BY AppendProperties
<1>3. /\ Len(tt) = n + 1 /\ tt # << >>
      /\ tt[n + 1] = x /\ \A i \in 1 .. n : ss[i] = tt[i]
  <2>1. /\ Len(tt) = n + 1
        /\ tt[n + 1] = x /\ \A i \in 1 .. n : ss[i] = tt[i]
    BY <1>1, <1>2, AppendProperties
  <2> QED
    BY <2>1, EmptySeq
<1>4. PICK f : Flattens(f, ss)
  BY FlattensExists
<1>5. PICK g : Flattens(g, tt)
  BY FlattensExists
<1>6. Agree(f, g, n)
  <2>1. n <= Len(ss) /\ n <= Len(tt) /\ Agree(ss, tt, n)
    BY <1>1, <1>3 DEF Agree
  <2> QED
    BY <1>4, <1>5, <2>1, FlattensAgree
<1>7. FlattenSeq(tt) = g[n + 1]
  BY <1>3, <1>5, FlattenIsLast
<1>8. g[n + 1] = IF n = 0 THEN x ELSE g[n] \o x
  <2>1. n + 1 \in 1 .. Len(tt) /\ (n + 1) - 1 = n /\ (n + 1 = 1 <=> n = 0)
    BY <1>3
  <2>2. g[n + 1] = IF n + 1 = 1 THEN tt[n + 1] ELSE g[(n + 1) - 1] \o tt[n + 1]
    BY <1>5, <2>1 DEF Flattens
  <2> QED
    BY <1>3, <2>1, <2>2
<1>9. FlattenSeq(tt) = FlattenSeq(ss) \o x
  <2>1. CASE n = 0
    <3>1. ss = << >>
      BY <1>1, <2>1, EmptySeq
    <3>2. FlattenSeq(ss) \o x = x
      BY <3>1, FlattenEmpty
    <3> QED
      BY <1>7, <1>8, <2>1, <3>2
  <2>2. CASE n # 0
    <3>1. ss # << >>
      BY <1>1, <2>2
    <3>2. FlattenSeq(ss) = f[n]
      BY <1>1, <1>4, <3>1, FlattenIsLast
    <3>3. f[n] = g[n]
      BY <1>6, <2>2 DEF Agree
    <3> QED
      BY <1>7, <1>8, <2>2, <3>2, <3>3
  <2> QED
    BY <2>1, <2>2
<1> QED
  BY <1>2, <1>9
-----------------------------------------------------------------------------
(***************************************************************************)
(* Folding from the left                                                   *)
(***************************************************************************)
Fold(p, s) == FoldLeft(LAMBDA value, x : Op(p, value, x), base, s)

\* A bounded set of natural numbers has a greatest element.
LEMMA MaxIsGreatest ==
  ASSUME NEW n \in Nat, NEW u \in SUBSET (1 .. n), u # {}
  PROVE  Max(u) \in u /\ \A y \in u : Max(u) >= y
<1> DEFINE bounds == {k \in Nat : \A y \in u : y <= k}
<1>1. n \in bounds /\ bounds \in SUBSET Nat
  OBVIOUS
<1>2. PICK m \in bounds : \A k \in bounds : m <= k
  BY <1>1, LeastElement
<1>3. m \in u
  <2> SUFFICES ASSUME m \notin u PROVE FALSE
    OBVIOUS
  <2>1. PICK y \in u : TRUE
    OBVIOUS
  <2>2. m \in Nat /\ m >= y /\ y >= 1
    BY <1>2
  <2>3. m - 1 \in bounds
    BY <1>2, <2>2
  <2> QED
    BY <1>2, <2>2, <2>3
<1>4. \A y \in u : m >= y
  BY <1>2
<1> QED
  BY <1>3, <1>4 DEF Max

\* The greatest number up to one that is in the set is that one.
LEMMA MaxIsLast ==
  ASSUME NEW n \in Nat, NEW u \in SUBSET (1 .. n), n \in u
  PROVE  Max(u) = n
<1>1. u # {}
  OBVIOUS
<1>2. Max(u) \in u /\ Max(u) >= n
  BY <1>1, MaxIsGreatest
<1>3. Max(u) \in 1 .. n
  BY <1>2
<1> QED
  BY <1>2, <1>3

\* A set of natural numbers that is not empty has its minimum.
LEMMA MinIsLeast ==
  ASSUME NEW u \in SUBSET Nat, u # {}
  PROVE  Min(u) \in u /\ \A y \in u : Min(u) <= y
<1>1. PICK m \in u : \A y \in u : m <= y
  BY LeastElement
<1> QED
  BY <1>1 DEF Min

\* it holds the values of a fold for the sets of positions up to n.
Iterates(p, it, s, n) ==
    it = [u \in SUBSET (1 .. n) |->
             IF u = {} THEN base ELSE Op(p, it[u \ {Max(u)}], s[Max(u)])]

\* There is such a function.
LEMMA IteratesExists ==
  ASSUME NEW p, NEW s, NEW n \in Nat
  PROVE  \E it : Iterates(p, it, s, n)
<1> DEFINE good == {k \in Nat : \E it : Iterates(p, it, s, k)}
<1>1. 0 \in good
  <2> DEFINE it == [u \in SUBSET (1 .. 0) |-> base]
  <2>1. \A u \in SUBSET (1 .. 0) : u = {}
    OBVIOUS
  <2>2. Iterates(p, it, s, 0)
    BY <2>1 DEF Iterates
  <2> QED
    BY <2>2
<1>2. ASSUME NEW k \in Nat, k \in good PROVE k + 1 \in good
  <2>1. PICK it : Iterates(p, it, s, k)
    BY <1>2
  <2> DEFINE jt == [u \in SUBSET (1 .. k + 1) |->
                       IF k + 1 \in u THEN Op(p, it[u \ {k + 1}], s[k + 1]) ELSE it[u]]
             jtOf(u) == IF u = {} THEN base ELSE Op(p, jt[u \ {Max(u)}], s[Max(u)])
  <2>2. ASSUME NEW u \in SUBSET (1 .. k + 1) PROVE jt[u] = jtOf(u)
    <3>1. CASE k + 1 \in u
      <4>1. Max(u) = k + 1
        BY <3>1, MaxIsLast
      <4>2. u \ {k + 1} \in SUBSET (1 .. k + 1) /\ k + 1 \notin u \ {k + 1}
        OBVIOUS
      <4>3. jt[u \ {k + 1}] = it[u \ {k + 1}]
        BY <4>2
      <4>4. jt[u] = Op(p, it[u \ {k + 1}], s[k + 1])
        BY <3>1
      <4> HIDE DEF jt
      <4> QED
        BY <3>1, <4>1, <4>3, <4>4
    <3>2. CASE k + 1 \notin u
      <4>1. u \in SUBSET (1 .. k)
        BY <3>2
      <4>2. jt[u] = it[u]
        BY <3>2
      <4>3. it[u] = IF u = {} THEN base ELSE Op(p, it[u \ {Max(u)}], s[Max(u)])
        BY <2>1, <4>1 DEF Iterates
      <4>4. k + 1 \notin u \ {Max(u)} /\ u \ {Max(u)} \in SUBSET (1 .. k + 1)
        BY <3>2
      <4>5. jt[u \ {Max(u)}] = it[u \ {Max(u)}]
        BY <4>4
      <4> HIDE DEF jt
      <4> QED
        BY <4>2, <4>3, <4>5
    <3> QED
      BY <3>1, <3>2
  <2>3. jt = [u \in SUBSET (1 .. k + 1) |-> jt[u]]
    OBVIOUS
  <2>4. PICK kt : kt = jt
    OBVIOUS
  <2>5. Iterates(p, kt, s, k + 1)
    <3> HIDE DEF jt
    <3>1. kt = [u \in SUBSET (1 .. k + 1) |-> jtOf(u)]
      BY <2>2, <2>3, <2>4
    <3> QED
      BY <2>4, <3>1 DEF Iterates
  <2> QED
    BY <2>5
<1> HIDE DEF good
<1>3. Nat \subseteq good
  BY <1>1, <1>2, SetInduction
<1> QED
  BY <1>3 DEF good

\* The value for the first positions depends on the elements there alone.
LEMMA IteratesAgree ==
  ASSUME NEW p, NEW s, NEW t, NEW m \in Nat, NEW n \in Nat, NEW it, NEW jt,
         Iterates(p, it, s, m), Iterates(p, jt, t, n),
         NEW k \in Nat, k <= m, k <= n, Agree(s, t, k)
  PROVE  it[1 .. k] = jt[1 .. k]
<1> DEFINE good == {i \in Nat : i <= k => it[1 .. i] = jt[1 .. i]}
<1>1. 0 \in good
  <2>1. 1 .. 0 = {} /\ {} \in SUBSET (1 .. m) /\ {} \in SUBSET (1 .. n)
    OBVIOUS
  <2> QED
    BY <2>1 DEF Iterates
<1>2. ASSUME NEW i \in Nat, i \in good PROVE i + 1 \in good
  <2> SUFFICES ASSUME i + 1 <= k PROVE it[1 .. i + 1] = jt[1 .. i + 1]
    OBVIOUS
  <2>1. /\ 1 .. i + 1 \in SUBSET (1 .. m) /\ 1 .. i + 1 \in SUBSET (1 .. n)
        /\ 1 .. i + 1 # {} /\ (1 .. i + 1) \ {i + 1} = 1 .. i
    OBVIOUS
  <2>2. Max(1 .. i + 1) = i + 1
    BY MaxIsLast
  <2>3. /\ it[1 .. i + 1] = Op(p, it[1 .. i], s[i + 1])
        /\ jt[1 .. i + 1] = Op(p, jt[1 .. i], t[i + 1])
    BY <2>1, <2>2 DEF Iterates
  <2>4. s[i + 1] = t[i + 1]
    BY DEF Agree
  <2>5. it[1 .. i] = jt[1 .. i]
    BY <1>2
  <2> QED
    BY <2>3, <2>4, <2>5
<1> HIDE DEF good
<1>3. Nat \subseteq good
  BY <1>1, <1>2, SetInduction
<1> QED
  BY <1>3 DEF good

\* A fold is the value for all positions.
LEMMA FoldIterates ==
  ASSUME NEW p, NEW S, NEW s \in Seq(S)
  PROVE  \E it : Iterates(p, it, s, Len(s)) /\ Fold(p, s) = it[1 .. Len(s)]
<1> DEFINE Unfolds(it) == it = [u \in SUBSET (DOMAIN s) |->
                                  IF u = {} THEN base ELSE Op(p, it[u \ {Max(u)}], s[Max(u)])]
           h == CHOOSE it : Unfolds(it)
<1>1. DOMAIN s = 1 .. Len(s) /\ Len(s) \in Nat
  BY LenProperties
<1>2. \E it : Unfolds(it)
  <2>1. PICK it : Iterates(p, it, s, Len(s))
    BY <1>1, IteratesExists
  <2>2. Unfolds(it)
    BY <1>1, <2>1 DEF Iterates
  <2> HIDE DEF Unfolds
  <2> QED
    BY <2>2
<1>3. Unfolds(h)
  <2> HIDE DEF Unfolds
  <2> QED
    BY <1>2, Zenon
<1>4. Fold(p, s) = h[DOMAIN s]
  BY Zenon DEF Fold, FoldLeft, MapThenFoldSet
<1> HIDE DEF h
<1>5. Iterates(p, h, s, Len(s))
  BY <1>1, <1>3 DEF Iterates
<1> QED
  BY <1>1, <1>4, <1>5

\* The fold of no elements is the first value.
LEMMA FoldEmpty == ASSUME NEW p PROVE Fold(p, << >>) = base
<1>1. PICK it : Iterates(p, it, << >>, 0) /\ Fold(p, << >>) = it[1 .. 0]
  <2>1. << >> \in Seq({}) /\ Len(<< >>) = 0
    OBVIOUS
  <2> QED
    BY <2>1, FoldIterates
<1>2. 1 .. 0 = {} /\ {} \in SUBSET (1 .. 0)
  OBVIOUS
<1> QED
  BY <1>1, <1>2 DEF Iterates

\* One element more makes one step more.
LEMMA FoldAppend ==
  ASSUME NEW p, NEW S, NEW s \in Seq(S), NEW x \in S
  PROVE  Fold(p, Append(s, x)) = Op(p, Fold(p, s), x)
<1>1. PICK n \in Nat : n = Len(s)
  BY LenProperties
<1>2. PICK t \in Seq(S) : t = Append(s, x)
  BY AppendProperties
<1>3. Len(t) = n + 1 /\ t[n + 1] = x /\ \A i \in 1 .. n : t[i] = s[i]
  BY <1>1, <1>2, AppendProperties
<1>4. PICK it : Iterates(p, it, s, n) /\ Fold(p, s) = it[1 .. n]
  BY <1>1, FoldIterates
<1>5. PICK jt : Iterates(p, jt, t, n + 1) /\ Fold(p, t) = jt[1 .. n + 1]
  BY <1>3, FoldIterates
<1>6. it[1 .. n] = jt[1 .. n]
  <2>1. Agree(s, t, n)
    BY <1>3 DEF Agree
  <2> QED
    BY <1>4, <1>5, <2>1, IteratesAgree
<1>7. /\ 1 .. n + 1 \in SUBSET (1 .. n + 1) /\ 1 .. n + 1 # {}
      /\ (1 .. n + 1) \ {n + 1} = 1 .. n /\ Max(1 .. n + 1) = n + 1
  <2>1. n + 1 \in Nat /\ n + 1 \in 1 .. n + 1
    OBVIOUS
  <2>2. Max(1 .. n + 1) = n + 1
    BY <2>1, MaxIsLast
  <2>3. 1 .. n + 1 \in SUBSET (1 .. n + 1)
    OBVIOUS
  <2>4. (1 .. n + 1) \ {n + 1} = 1 .. n
    OBVIOUS
  <2> QED
    BY <2>1, <2>2, <2>3, <2>4
<1>8. jt[1 .. n + 1] = Op(p, jt[1 .. n], t[n + 1])
  BY <1>5, <1>7 DEF Iterates
<1> QED
  BY <1>2, <1>3, <1>4, <1>5, <1>6, <1>8

\* The elements of a sequence up to the n-th.
LEMMA PrefixProperties ==
  ASSUME NEW S, NEW s \in Seq(S), NEW n \in 0 .. Len(s)
  PROVE  /\ SubSeq(s, 1, n) \in Seq(S) /\ Len(SubSeq(s, 1, n)) = n
         /\ \A i \in 1 .. n : SubSeq(s, 1, n)[i] = s[i]
<1>1. PICK k \in Nat : k = Len(s) /\ DOMAIN s = 1 .. k /\ n \in 0 .. k
  BY LenProperties
<1>2. n \in Int /\ \A i \in 1 .. n : s[i] \in S
  BY <1>1, ElementOfSeq
<1>3. /\ SubSeq(s, 1, n) \in Seq(S)
      /\ Len(SubSeq(s, 1, n)) = IF 1 <= n THEN n - 1 + 1 ELSE 0
      /\ \A i \in 1 .. n - 1 + 1 : SubSeq(s, 1, n)[i] = s[1 + i - 1]
  BY <1>2, SubSeqProperties
<1>4. (IF 1 <= n THEN n - 1 + 1 ELSE 0) = n /\ n - 1 + 1 = n /\ \A i \in 1 .. n : 1 + i - 1 = i
  BY <1>1
<1> QED
  BY Zenon, <1>3, <1>4

\* They are elements.
LEMMA PrefixElements ==
  ASSUME NEW S, NEW s \in Seq(S), NEW n \in 0 .. Len(s), NEW x \in ToSet(SubSeq(s, 1, n))
  PROVE  \E i \in 1 .. n : i \in DOMAIN s /\ x = s[i]
<1>1. PICK k \in Nat : k = Len(s) /\ DOMAIN s = 1 .. k /\ n \in 0 .. k
  BY LenProperties
<1>2. PICK t \in Seq(S) : /\ t = SubSeq(s, 1, n) /\ Len(t) = n
                          /\ \A i \in 1 .. n : t[i] = s[i]
  <2>1. /\ SubSeq(s, 1, n) \in Seq(S) /\ Len(SubSeq(s, 1, n)) = n
        /\ \A i \in 1 .. n : SubSeq(s, 1, n)[i] = s[i]
    BY Zenon, PrefixProperties
  <2> QED
    BY Zenon, <2>1
<1>3. PICK i \in 1 .. n : x = t[i]
  BY <1>2, LenProperties DEF ToSet
<1> QED
  BY <1>1, <1>2, <1>3

\* A prefix is one element longer.
LEMMA PrefixAppend ==
  ASSUME NEW S, NEW s \in Seq(S), NEW n \in Nat, n < Len(s)
  PROVE  /\ SubSeq(s, 1, n) \in Seq(S) /\ n + 1 \in DOMAIN s /\ s[n + 1] \in S
         /\ SubSeq(s, 1, n + 1) = Append(SubSeq(s, 1, n), s[n + 1])
<1>1. PICK k \in Nat : k = Len(s) /\ n + 1 \in 1 .. k /\ n \in 0 .. k /\ n + 1 \in 0 .. k
  BY LenProperties
<1>2. n + 1 \in DOMAIN s /\ s[n + 1] \in S
  BY <1>1, LenProperties, ElementOfSeq
<1>3. PICK a \in Seq(S) : a = SubSeq(s, 1, n) /\ Len(a) = n /\ \A i \in 1 .. n : a[i] = s[i]
  <2>1. n \in 0 .. Len(s)
    BY <1>1
  <2>2. /\ SubSeq(s, 1, n) \in Seq(S) /\ Len(SubSeq(s, 1, n)) = n
        /\ \A i \in 1 .. n : SubSeq(s, 1, n)[i] = s[i]
    BY Zenon, <2>1, PrefixProperties
  <2> QED
    BY Zenon, <2>2
<1>4. PICK b \in Seq(S) : /\ b = SubSeq(s, 1, n + 1) /\ Len(b) = n + 1
                          /\ \A i \in 1 .. n + 1 : b[i] = s[i]
  <2>1. n + 1 \in 0 .. Len(s)
    BY <1>1
  <2>2. /\ SubSeq(s, 1, n + 1) \in Seq(S) /\ Len(SubSeq(s, 1, n + 1)) = n + 1
        /\ \A i \in 1 .. n + 1 : SubSeq(s, 1, n + 1)[i] = s[i]
    BY Zenon, <2>1, PrefixProperties
  <2> QED
    BY Zenon, <2>2
<1>5. PICK c \in Seq(S) : /\ c = Append(a, s[n + 1]) /\ Len(c) = n + 1
                          /\ c[n + 1] = s[n + 1] /\ \A i \in 1 .. n : c[i] = a[i]
  <2>1. PICK x \in S : x = s[n + 1]
    BY <1>2
  <2>2. /\ Append(a, x) \in Seq(S) /\ Len(Append(a, x)) = n + 1
        /\ Append(a, x)[n + 1] = x /\ \A i \in 1 .. n : Append(a, x)[i] = a[i]
    BY <1>3, AppendProperties
  <2> QED
    BY <2>1, <2>2
<1>6. \A i \in 1 .. n + 1 : b[i] = c[i]
  BY <1>3, <1>4, <1>5
<1>7. b = c
  BY <1>4, <1>5, <1>6, SeqEqual
<1> QED
  BY <1>2, <1>3, <1>4, <1>5, <1>7

\* A prefix stays what it is when the sequence grows.
LEMMA PrefixStays ==
  ASSUME NEW S, NEW s \in Seq(S), NEW x \in S, NEW n \in 0 .. Len(s)
  PROVE  SubSeq(Append(s, x), 1, n) = SubSeq(s, 1, n)
<1>1. PICK k \in Nat : k = Len(s) /\ n \in 0 .. k
  BY LenProperties
<1>2. PICK t \in Seq(S) : /\ t = Append(s, x) /\ Len(t) = k + 1
                          /\ \A i \in 1 .. k : t[i] = s[i]
  <2>1. /\ Append(s, x) \in Seq(S) /\ Len(Append(s, x)) = k + 1
        /\ \A i \in 1 .. k : Append(s, x)[i] = s[i]
    BY <1>1, AppendProperties
  <2> QED
    BY <2>1
<1>3. PICK a \in Seq(S) : a = SubSeq(s, 1, n) /\ Len(a) = n /\ \A i \in 1 .. n : a[i] = s[i]
  <2>1. /\ SubSeq(s, 1, n) \in Seq(S) /\ Len(SubSeq(s, 1, n)) = n
        /\ \A i \in 1 .. n : SubSeq(s, 1, n)[i] = s[i]
    BY Zenon, PrefixProperties
  <2> QED
    BY Zenon, <2>1
<1>4. PICK b \in Seq(S) : b = SubSeq(t, 1, n) /\ Len(b) = n /\ \A i \in 1 .. n : b[i] = t[i]
  <2>1. n \in 0 .. Len(t)
    BY <1>1, <1>2
  <2>2. /\ SubSeq(t, 1, n) \in Seq(S) /\ Len(SubSeq(t, 1, n)) = n
        /\ \A i \in 1 .. n : SubSeq(t, 1, n)[i] = t[i]
    BY Zenon, <2>1, PrefixProperties
  <2> QED
    BY Zenon, <2>2
<1>5. \A i \in 1 .. n : a[i] = b[i]
  BY <1>1, <1>2, <1>3, <1>4
<1>6. a = b
  BY <1>3, <1>4, <1>5, SeqEqual
<1> QED
  BY <1>2, <1>3, <1>4, <1>6

\* A sequence is what comes first, and the rest.
LEMMA PrefixAndRest ==
  ASSUME NEW S, NEW s \in Seq(S), NEW n \in 0 .. Len(s)
  PROVE  \E rest \in Seq(S) : s = SubSeq(s, 1, n) \o rest
<1>1. PICK k \in Nat : k = Len(s) /\ DOMAIN s = 1 .. k /\ n \in 0 .. k
  BY LenProperties
<1>2. PICK a \in Seq(S) : a = SubSeq(s, 1, n) /\ Len(a) = n /\ \A i \in 1 .. n : a[i] = s[i]
  <2>1. /\ SubSeq(s, 1, n) \in Seq(S) /\ Len(SubSeq(s, 1, n)) = n
        /\ \A i \in 1 .. n : SubSeq(s, 1, n)[i] = s[i]
    BY Zenon, PrefixProperties
  <2> QED
    BY Zenon, <2>1
<1>3. PICK b : b = [i \in 1 .. k - n |-> s[n + i]]
  OBVIOUS
<1>4. b \in Seq(S) /\ Len(b) = k - n
  <2>1. \A i \in 1 .. k - n : s[n + i] \in S
    BY <1>1, ElementOfSeq
  <2>2. b \in [1 .. k - n -> S] /\ k - n \in Nat
    BY <1>1, <1>3, <2>1
  <2>3. b \in Seq(S)
    BY <2>2, IsASeq
  <2> QED
    BY <1>1, <2>2, <2>3, LenProperties
<1>5. PICK c \in Seq(S) : /\ c = a \o b /\ Len(c) = k
                          /\ \A i \in 1 .. k : c[i] = IF i <= n THEN a[i] ELSE b[i - n]
  <2>1. /\ a \o b \in Seq(S) /\ Len(a \o b) = Len(a) + Len(b)
        /\ \A i \in 1 .. Len(a) + Len(b) :
               (a \o b)[i] = IF i <= Len(a) THEN a[i] ELSE b[i - Len(a)]
    BY Zenon, <1>4, ConcatProperties
  <2>2. Len(a) = n /\ Len(a) + Len(b) = k
    BY <1>1, <1>2, <1>4
  <2> QED
    BY Zenon, <2>1, <2>2
<1>6. Len(c) = k /\ \A i \in 1 .. k : c[i] = s[i]
  <2>1. Len(c) = k
    BY <1>5
  <2>2. ASSUME NEW i \in 1 .. k PROVE c[i] = s[i]
    <3>1. c[i] = IF i <= n THEN a[i] ELSE b[i - n]
      BY <1>5
    <3>2. CASE i <= n
      BY <1>2, <3>1, <3>2
    <3>3. CASE i > n
      <4>1. i - n \in 1 .. k - n /\ n + (i - n) = i
        BY <1>1, <3>3
      <4> QED
        BY <1>1, <1>3, <3>1, <3>3, <4>1
    <3> QED
      BY <1>1, <3>2, <3>3
  <2> QED
    BY <2>1, <2>2
<1>7. c = s
  BY <1>1, <1>6, SeqEqual
<1> QED
  BY <1>2, <1>4, <1>5, <1>7

\* What comes first is a prefix.
LEMMA FirstIsPrefix ==
  ASSUME NEW S, NEW s \in Seq(S), NEW t \in Seq(S)
  PROVE  IsPrefix(s, s \o t)
<1>1. PICK m \in Nat, n \in Nat : m = Len(s) /\ n = Len(t)
  BY LenProperties
<1>2. PICK c \in Seq(S) : /\ c = s \o t /\ Len(c) = m + n
                          /\ \A i \in 1 .. m + n : c[i] = IF i <= m THEN s[i] ELSE t[i - m]
  <2>1. /\ s \o t \in Seq(S) /\ Len(s \o t) = m + n
        /\ \A i \in 1 .. m + n : (s \o t)[i] = IF i <= m THEN s[i] ELSE t[i - m]
    BY Zenon, <1>1, ConcatProperties
  <2> QED
    BY Zenon, <2>1
<1>3. PICK a \in Seq(S) : a = SubSeq(c, 1, m) /\ Len(a) = m /\ \A i \in 1 .. m : a[i] = c[i]
  <2>1. m \in 0 .. Len(c)
    BY <1>2
  <2>2. /\ SubSeq(c, 1, m) \in Seq(S) /\ Len(SubSeq(c, 1, m)) = m
        /\ \A i \in 1 .. m : SubSeq(c, 1, m)[i] = c[i]
    BY Zenon, <2>1, PrefixProperties
  <2> QED
    BY Zenon, <2>2
<1>4. \A i \in 1 .. m : a[i] = s[i]
  BY <1>2, <1>3
<1>5. a = s
  BY <1>1, <1>3, <1>4, SeqEqual
<1>6. SubSeq(s, 1, m) = s
  BY <1>1
<1>7. Len(s) <= Len(c)
  BY <1>1, <1>2
<1> QED
  BY <1>1, <1>2, <1>3, <1>5, <1>6, <1>7 DEF IsPrefix

\* What holds of the first value, and holds after a step when it did before, holds
\* of the fold.
LEMMA FoldInduction ==
  ASSUME NEW p, NEW S, NEW s \in Seq(S),
         Holds(p, << >>, base),
         \A n \in Nat : n < Len(s) =>
             \A value : Holds(p, SubSeq(s, 1, n), value)
                           => Holds(p, SubSeq(s, 1, n + 1), Op(p, value, s[n + 1]))
  PROVE  Holds(p, s, Fold(p, s))
<1> DEFINE of(n) == SubSeq(s, 1, n)
           good == {n \in Nat : n <= Len(s) => Holds(p, of(n), Fold(p, of(n)))}
<1>1. 0 \in good
  <2>1. of(0) = << >>
    OBVIOUS
  <2> QED
    BY <2>1, FoldEmpty
<1>2. ASSUME NEW n \in Nat, n \in good PROVE n + 1 \in good
  <2> SUFFICES ASSUME n + 1 <= Len(s) PROVE Holds(p, of(n + 1), Fold(p, of(n + 1)))
    OBVIOUS
  <2>1. n < Len(s)
    BY LenProperties
  <2>2. of(n) \in Seq(S) /\ s[n + 1] \in S /\ of(n + 1) = Append(of(n), s[n + 1])
    BY <2>1, PrefixAppend
  <2>3. Fold(p, Append(of(n), s[n + 1])) = Op(p, Fold(p, of(n)), s[n + 1])
    <3> HIDE DEF of
    <3> QED
      BY <2>2, FoldAppend
  <2>4. Holds(p, of(n), Fold(p, of(n)))
    BY <1>2, <2>1, LenProperties
  <2> QED
    BY <2>1, <2>2, <2>3, <2>4
<1>3. Len(s) \in good
  <2> HIDE DEF good
  <2> QED
    BY <1>1, <1>2, SetInduction, LenProperties
<1>4. of(Len(s)) = s
  OBVIOUS
<1>5. Len(s) <= Len(s)
  BY LenProperties
<1> QED
  BY <1>3, <1>4, <1>5

\* Flattening the sequences of two puts those of the second behind those of the first.
LEMMA FlattenConcat ==
  ASSUME NEW T, NEW ss \in Seq(Seq(T)), NEW tt \in Seq(Seq(T))
  PROVE  FlattenSeq(ss \o tt) = FlattenSeq(ss) \o FlattenSeq(tt)
<1> DEFINE Joins(n) == FlattenSeq(ss \o SubSeq(tt, 1, n))
                           = FlattenSeq(ss) \o FlattenSeq(SubSeq(tt, 1, n))
           good == {n \in Nat : n <= Len(tt) => Joins(n)}
<1>1. FlattenSeq(ss) \in Seq(T) /\ SubSeq(tt, 1, Len(tt)) = tt
  BY FlattenType, SubSeqFull
<1>2. 0 \in good
  <2>1. SubSeq(tt, 1, 0) = << >>
    OBVIOUS
  <2>2. ss \o << >> = ss /\ FlattenSeq(ss) \o << >> = FlattenSeq(ss)
    BY <1>1, ConcatEmptySeq
  <2>3. Joins(0)
    BY Zenon, <2>1, <2>2, FlattenEmpty
  <2> HIDE DEF Joins
  <2> QED
    BY <2>3
<1>3. ASSUME NEW n \in Nat, n \in good PROVE n + 1 \in good
  <2> SUFFICES ASSUME n + 1 <= Len(tt) PROVE Joins(n + 1)
    OBVIOUS
  <2>1. n < Len(tt) /\ n <= Len(tt)
    BY LenProperties
  <2>2. Joins(n)
    BY <1>3, <2>1
  <2>3. PICK s \in Seq(Seq(T)), x \in Seq(T) : /\ s = SubSeq(tt, 1, n)
                                             /\ SubSeq(tt, 1, n + 1) = Append(s, x)
    <3>1. /\ SubSeq(tt, 1, n) \in Seq(Seq(T)) /\ tt[n + 1] \in Seq(T)
          /\ SubSeq(tt, 1, n + 1) = Append(SubSeq(tt, 1, n), tt[n + 1])
      BY Zenon, <2>1, PrefixAppend
    <3> QED
      BY Zenon, <3>1
  <2>4. /\ FlattenSeq(ss \o s) = FlattenSeq(ss) \o FlattenSeq(s)
        /\ FlattenSeq(s) \in Seq(T)
    BY Zenon, <2>2, <2>3, FlattenType
  <2>5. ss \o Append(s, x) = Append(ss \o s, x) /\ ss \o s \in Seq(Seq(T))
    BY ConcatAppend, ConcatProperties
  <2>6. /\ FlattenSeq(Append(ss \o s, x)) = FlattenSeq(ss \o s) \o x
        /\ FlattenSeq(Append(s, x)) = FlattenSeq(s) \o x
    BY Zenon, <2>5, FlattenAppend
  <2>7. PICK a \in Seq(T), b \in Seq(T) : a = FlattenSeq(ss) /\ b = FlattenSeq(s)
    BY <1>1, <2>4
  <2>8. (a \o b) \o x = a \o (b \o x)
    OBVIOUS
  <2> QED
    BY Zenon, <2>3, <2>4, <2>5, <2>6, <2>7, <2>8
<1>4. Len(tt) \in good
  <2> HIDE DEF good
  <2> QED
    BY <1>2, <1>3, SetInduction, LenProperties
<1>5. Joins(Len(tt))
  <2> HIDE DEF Joins
  <2>1. Len(tt) <= Len(tt)
    BY LenProperties
  <2> QED
    BY <1>4, <2>1
<1> QED
  BY Zenon, <1>1, <1>5

\* One sequence behind another, by its elements.
LEMMA ConcatElements ==
  ASSUME NEW S, NEW s \in Seq(S), NEW t \in Seq(S)
  PROVE  /\ s \o t \in Seq(S) /\ Len(s \o t) = Len(s) + Len(t)
         /\ \A i \in 1 .. Len(s) : (s \o t)[i] = s[i]
         /\ \A i \in 1 .. Len(t) : (s \o t)[Len(s) + i] = t[i]
<1>1. PICK m \in Nat, n \in Nat : m = Len(s) /\ n = Len(t)
  BY LenProperties
<1>2. PICK c \in Seq(S) : /\ c = s \o t /\ Len(c) = m + n
                         /\ \A i \in 1 .. m + n : c[i] = IF i <= m THEN s[i] ELSE t[i - m]
  <2>1. /\ s \o t \in Seq(S) /\ Len(s \o t) = m + n
        /\ \A i \in 1 .. m + n : (s \o t)[i] = IF i <= m THEN s[i] ELSE t[i - m]
    BY Zenon, <1>1, ConcatProperties
  <2> QED
    BY Zenon, <2>1
<1>3. ASSUME NEW i \in 1 .. m PROVE c[i] = s[i]
  BY <1>2
<1>4. ASSUME NEW i \in 1 .. n PROVE c[m + i] = t[i]
  <2>1. m + i \in 1 .. m + n /\ ~(m + i <= m) /\ (m + i) - m = i
    OBVIOUS
  <2> QED
    BY <1>2, <2>1
<1> QED
  BY Zenon, <1>1, <1>2, <1>3, <1>4

\* Two sequences without a repeated element, and with none in common, one behind the other.
LEMMA ConcatInjective ==
  ASSUME NEW S, NEW s \in Seq(S), NEW t \in Seq(S), IsInjective(s), IsInjective(t),
         ToSet(s) \cap ToSet(t) = {}
  PROVE  IsInjective(s \o t)
<1>1. PICK m \in Nat, n \in Nat : /\ m = Len(s) /\ n = Len(t)
                                  /\ DOMAIN s = 1 .. m /\ DOMAIN t = 1 .. n
  BY LenProperties
<1>2. PICK c \in Seq(S) : /\ c = s \o t /\ DOMAIN c = 1 .. m + n
                          /\ \A i \in 1 .. m : c[i] = s[i]
                          /\ \A i \in 1 .. n : c[m + i] = t[i]
  <2>1. /\ s \o t \in Seq(S) /\ Len(s \o t) = Len(s) + Len(t)
        /\ \A i \in 1 .. Len(s) : (s \o t)[i] = s[i]
        /\ \A i \in 1 .. Len(t) : (s \o t)[Len(s) + i] = t[i]
    BY ConcatElements
  <2>2. DOMAIN (s \o t) = 1 .. m + n
    BY <1>1, <2>1, LenProperties
  <2> QED
    BY Zenon, <1>1, <2>1, <2>2
<1>3. \A a \in 1 .. m, b \in 1 .. n : s[a] # t[b]
  BY <1>1 DEF ToSet
<1>4. ASSUME NEW i \in 1 .. m + n, i \notin 1 .. m PROVE i - m \in 1 .. n /\ c[i] = t[i - m]
  <2>1. PICK j \in 1 .. n : j = i - m /\ m + j = i
    BY <1>4
  <2>2. \A k \in 1 .. n : c[m + k] = t[k]
    BY Zenon, <1>2
  <2>3. c[m + j] = t[j]
    BY Zenon, <2>2
  <2> QED
    BY Zenon, <2>1, <2>3
<1>5. ASSUME NEW a \in 1 .. m + n, NEW b \in 1 .. m + n, c[a] = c[b] PROVE a = b
  <2>1. CASE a \in 1 .. m /\ b \in 1 .. m
    BY <1>1, <1>2, <1>5, <2>1 DEF IsInjective
  <2>2. CASE a \in 1 .. m /\ b \notin 1 .. m
    BY <1>2, <1>3, <1>4, <1>5, <2>2
  <2>3. CASE a \notin 1 .. m /\ b \in 1 .. m
    BY <1>2, <1>3, <1>4, <1>5, <2>3
  <2>4. CASE a \notin 1 .. m /\ b \notin 1 .. m
    <3>1. /\ a - m \in 1 .. n /\ b - m \in 1 .. n
          /\ t[a - m] = t[b - m]
      BY <1>4, <1>5, <2>4
    <3>2. a - m = b - m
      BY Zenon, <1>1, <3>1 DEF IsInjective
    <3> QED
      BY <3>2
  <2> QED
    BY <2>1, <2>2, <2>3, <2>4
<1> QED
  BY <1>2, <1>5 DEF IsInjective

\* A sequence is the beginning of another.
Begins(S, s, t) == \E rest \in Seq(S) : t = s \o rest

\* Putting sequences one behind the other is associative.
LEMMA Associative ==
  ASSUME NEW S, NEW s \in Seq(S), NEW v \in Seq(S), NEW w \in Seq(S)
  PROVE  (s \o v) \o w = s \o (v \o w)
OBVIOUS

\* What a sequence begins with, it begins with when more is put behind it.
LEMMA BeginningIsPrefix ==
  ASSUME NEW S, NEW s \in Seq(S), NEW v \in Seq(S), NEW w \in Seq(S), NEW t, t = s \o v
  PROVE  IsPrefix(s, t \o w)
<1>1. v \o w \in Seq(S) /\ t \o w = s \o (v \o w)
  BY Associative
<1> QED
  BY Zenon, <1>1, FirstIsPrefix

\* The beginning of a beginning is a beginning.
LEMMA BeginsFurther ==
  ASSUME NEW S, NEW s \in Seq(S), NEW t, NEW u, Begins(S, s, t), Begins(S, t, u)
  PROVE  Begins(S, s, u)
<1>1. PICK v \in Seq(S) : t = s \o v
  BY DEF Begins
<1>2. PICK w \in Seq(S) : u = t \o w
  BY DEF Begins
<1>3. v \o w \in Seq(S)
  OBVIOUS
<1>4. (s \o v) \o w = s \o (v \o w)
  BY Associative
<1>5. u = s \o (v \o w)
  BY <1>1, <1>2, <1>4
<1> QED
  BY <1>3, <1>5 DEF Begins

LEMMA BeginsItself ==
  ASSUME NEW S, NEW s \in Seq(S) PROVE Begins(S, s, s)
<1>1. << >> \in Seq(S) /\ s \o << >> = s
  BY ConcatEmptySeq
<1> QED
  BY <1>1 DEF Begins

\* The first elements of a sequence are the first ones of all it is the beginning of.
LEMMA BeginningStays ==
  ASSUME NEW S, NEW s \in Seq(S), NEW t \in Seq(S), NEW n \in 0 .. Len(s)
  PROVE  SubSeq(s \o t, 1, n) = SubSeq(s, 1, n) /\ n \in 0 .. Len(s \o t)
<1>1. PICK k \in Nat, l \in Nat : k = Len(s) /\ l = Len(t) /\ n <= k /\ n \in Nat
  BY LenProperties
<1>2. PICK u \in Seq(S) : u = s \o t /\ Len(u) = k + l /\ \A i \in 1 .. k : u[i] = s[i]
  <2>1. /\ s \o t \in Seq(S) /\ Len(s \o t) = Len(s) + Len(t)
        /\ \A i \in 1 .. Len(s) : (s \o t)[i] = s[i]
    BY ConcatElements
  <2> QED
    BY <1>1, <2>1
<1>3. n \in 0 .. Len(u)
  BY <1>1, <1>2
<1>4. PICK a \in Seq(S) : a = SubSeq(s, 1, n) /\ Len(a) = n /\ \A i \in 1 .. n : a[i] = s[i]
  <2>1. /\ SubSeq(s, 1, n) \in Seq(S) /\ Len(SubSeq(s, 1, n)) = n
        /\ \A i \in 1 .. n : SubSeq(s, 1, n)[i] = s[i]
    BY Zenon, PrefixProperties
  <2> QED
    BY Zenon, <2>1
<1>5. PICK b \in Seq(S) : b = SubSeq(u, 1, n) /\ Len(b) = n /\ \A i \in 1 .. n : b[i] = u[i]
  <2>1. /\ SubSeq(u, 1, n) \in Seq(S) /\ Len(SubSeq(u, 1, n)) = n
        /\ \A i \in 1 .. n : SubSeq(u, 1, n)[i] = u[i]
    BY Zenon, <1>3, PrefixProperties
  <2> QED
    BY Zenon, <2>1
<1>6. \A i \in 1 .. n : a[i] = b[i]
  BY <1>1, <1>2, <1>4, <1>5
<1>7. a = b
  BY <1>4, <1>5, <1>6, SeqEqual
<1> QED
  BY <1>2, <1>3, <1>4, <1>5, <1>7

\* When an operator puts elements behind a sequence, the fold of the first elements is
\* the beginning of the fold of all.
LEMMA FoldGrows ==
  ASSUME NEW S, NEW T, NEW p, NEW s \in Seq(S), base \in Seq(T),
         \A acc \in Seq(T), x \in S : Op(p, acc, x) \in Seq(T) /\ Begins(T, acc, Op(p, acc, x)),
         NEW n \in 0 .. Len(s)
  PROVE  /\ Fold(p, SubSeq(s, 1, n)) \in Seq(T)
         /\ Begins(T, Fold(p, SubSeq(s, 1, n)), Fold(p, s))
<1> DEFINE F(k) == Fold(p, SubSeq(s, 1, k))
           typed == {k \in Nat : k <= Len(s) => F(k) \in Seq(T)}
           grown == {k \in Nat : n + k <= Len(s) => Begins(T, F(n), F(n + k))}
<1>1. F(0) \in Seq(T)
  <2>1. SubSeq(s, 1, 0) = << >>
    OBVIOUS
  <2> QED
    BY Zenon, <2>1, FoldEmpty
<1>2. ASSUME NEW k \in Nat, k < Len(s), F(k) \in Seq(T)
      PROVE  F(k + 1) \in Seq(T) /\ Begins(T, F(k), F(k + 1))
  <2>1. PICK u \in Seq(S), x \in S : u = SubSeq(s, 1, k) /\ SubSeq(s, 1, k + 1) = Append(u, x)
    <3>1. /\ SubSeq(s, 1, k) \in Seq(S) /\ s[k + 1] \in S
          /\ SubSeq(s, 1, k + 1) = Append(SubSeq(s, 1, k), s[k + 1])
      BY Zenon, <1>2, PrefixAppend
    <3> QED
      BY Zenon, <3>1
  <2>2. F(k + 1) = Op(p, F(k), x)
    <3>1. Fold(p, Append(u, x)) = Op(p, Fold(p, u), x)
      BY FoldAppend
    <3> QED
      BY Zenon, <2>1, <3>1
  <2> QED
    BY Zenon, <1>2, <2>2
<1> HIDE DEF F
<1>3. \A k \in 0 .. Len(s) : F(k) \in Seq(T)
  <2>1. 0 \in typed
    BY <1>1
  <2>2. ASSUME NEW k \in Nat, k \in typed PROVE k + 1 \in typed
    <3> SUFFICES ASSUME k + 1 <= Len(s) PROVE F(k + 1) \in Seq(T)
      OBVIOUS
    <3>1. k < Len(s) /\ k <= Len(s)
      BY LenProperties
    <3> QED
      BY Zenon, <1>2, <2>2, <3>1
  <2>3. \A k \in Nat : k \in typed
    <3> HIDE DEF typed
    <3> QED
      BY <2>1, <2>2, SetInduction
  <2> QED
    BY <2>3, LenProperties
<1>4. \A k \in Nat : k \in grown
  <2>1. 0 \in grown
    <3>1. F(n) \in Seq(T)
      BY Zenon, <1>3
    <3>3. Begins(T, F(n), F(n))
      BY Zenon, <3>1, BeginsItself
    <3>4. n + 0 = n
      OBVIOUS
    <3> QED
      BY <3>3, <3>4
  <2>2. ASSUME NEW k \in Nat, k \in grown PROVE k + 1 \in grown
    <3> SUFFICES ASSUME n + (k + 1) <= Len(s)
                 PROVE  Begins(T, F(n), F(n + (k + 1)))
      <4>1. k + 1 \in Nat
        OBVIOUS
      <4> QED
        BY Zenon, <4>1
    <3>1. n + k \in Nat /\ n + k < Len(s) /\ n + k <= Len(s) /\ n + (k + 1) = (n + k) + 1
          /\ n + k \in 0 .. Len(s)
      BY LenProperties
    <3>2. F(n) \in Seq(T)
      BY Zenon, <1>3
    <3>3. Begins(T, F(n), F(n + k))
      BY Zenon, <2>2, <3>1
    <3>4. Begins(T, F(n + k), F((n + k) + 1))
      BY Zenon, <1>2, <1>3, <3>1
    <3> QED
      BY Zenon, <3>1, <3>2, <3>3, <3>4, BeginsFurther
  <2> HIDE DEF grown
  <2> QED
    BY <2>1, <2>2, SetInduction
<1>5. PICK d \in Nat : n + d = Len(s)
  <2>1. Len(s) - n \in Nat /\ n + (Len(s) - n) = Len(s)
    BY LenProperties
  <2> QED
    BY <2>1
<1>6. SubSeq(s, 1, Len(s)) = s
  OBVIOUS
<1>7. Begins(T, F(n), F(n + d))
  <2>1. n + d <= Len(s)
    BY <1>5, LenProperties
  <2> QED
    BY Zenon, <1>4, <2>1
<1>8. F(Len(s)) = Fold(p, s)
  BY Zenon, <1>6 DEF F
<1> QED
  BY Zenon, <1>3, <1>5, <1>7, <1>8 DEF F
=============================================================================
