----------------------------- MODULE MCAnalysis -----------------------------
(***************************************************************************)
(* An instance of Analysis for TLC.  The distances between the times lie   *)
(* below, at and above the coincidence time and the dead time, whose ratio *)
(* is that of 300 ns to 500 ns.                                            *)
(***************************************************************************)
EXTENDS Analysis

MCSortTypes == {"coincidence", "time", "gap"}
MCTriggers == {"deDet", "any"}
MCHit(type, id, t, cfdfail) == [type |-> type, detectorID |-> id, t |-> t, cfdfail |-> cfdfail]
Times == {0, 3, 4, 8}
Hits == {MCHit("deDet", 0, t, FALSE) : t \in Times}
        \cup {MCHit("qint", 0, 4, FALSE), MCHit("deDet", 1, 3, TRUE)}
MCInputs == {<<h>> : h \in Hits} \cup [1 .. 3 -> Hits]
=============================================================================
