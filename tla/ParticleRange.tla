---------------------------- MODULE ParticleRange ----------------------------
(***************************************************************************)
(* ParticleRange (src/PhysicalParam/ParticleRange.cpp): the range of a     *)
(* particle in the detector as a function of its energy, interpolated from *)
(* the file given with --RangeFile.  A table is the lines of such a file,  *)
(* a sequence of records with an energy e and a range r; without a file it *)
(* is empty.  Energies and ranges are integers in units fine enough for    *)
(* the interpolation to be exact.                                          *)
(***************************************************************************)
EXTENDS Integers, Sequences, FiniteSetsExt

CONSTANTS Emin, Estep,  \* 200 and 10 keV
          TooHigh       \* the range of energies beyond the table, 1 m

hstep == Estep \div 2

\* Seeded fault: the values are those of the lower edges of the steps.
CentreAtEdge(k) == Emin + k * Estep

\* The energy the k-th value is interpolated at, k counted from zero.
Centre(k) == Emin + k * Estep + hstep

\* The lines read for the energy c: the first one after the first line that is not
\* below c, and the one before it.
Above(table, c) == {j \in 2 .. Len(table) : table[j].e >= c}
Interpolated(table, c) ==
    LET f == table[Min(Above(table, c))]
        fl == table[Min(Above(table, c)) - 1]
    IN  (f.r * (c - fl.e) + fl.r * (f.e - c)) \div (f.e - fl.e)

\* Read: one value for each step up to the end of the file
Read(table) ==
    LET last == Max({0} \cup {table[j].e : j \in DOMAIN table})
        n == Min({k \in 0 .. 1 + last \div Estep : Above(table, Centre(k)) = {}})
    IN  [k \in 1 .. n |-> Interpolated(table, Centre(k - 1))]

GetRange(values, energy) ==
    IF values = << >> \/ energy < Emin THEN 0
    ELSE LET index == (energy - Emin) \div Estep
         IN  IF index >= Len(values) THEN TooHigh ELSE values[index + 1]
-----------------------------------------------------------------------------
(***************************************************************************)
(* Properties                                                              *)
(***************************************************************************)
Rising(table) == \A i, j \in DOMAIN table :
                     i < j => table[i].e < table[j].e /\ table[i].r <= table[j].r

\* The energies where something may change: on both sides of the edges of the steps, and
\* half a step from the lines.
Edges(values) == {Emin + k * Estep : k \in 0 .. Len(values) + 1}
Energies(table, values) ==
    Edges(values) \cup {e - 1 : e \in Edges(values)}
        \cup UNION {{table[j].e - hstep, table[j].e + hstep} : j \in DOMAIN table}

\* The range grows with the energy, over the edges of the steps and of the table
\* too, and lies between the ranges of the lines half a step below and above the
\* energy: no step is taken for its neighbour.  (A table that begins above the
\* first step is continued downwards, even to negative ranges, and one that ends
\* before it gives no range at all.)
RangeFollowsTable(table, values) ==
    LET range(e) == GetRange(values, e) IN
    Rising(table) /\ values # << >> /\ table[1].e <= Centre(0) =>
        /\ \A e \in Edges(values) : range(e - 1) <= range(e)
        /\ \A e \in Energies(table, values), j \in DOMAIN table :
               Emin <= e =>
                   /\ table[j].e <= e - hstep => table[j].r <= range(e)
                   /\ e + hstep <= table[j].e => range(e) <= table[j].r
=============================================================================
