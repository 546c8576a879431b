----------------------------- MODULE MCGrouping -----------------------------
(***************************************************************************)
(* An instance of Grouping for TLC: every order of arrival of five hits,   *)
(* with a disorder at and above the size of the buffer and with            *)
(* distances below, at and above the gap, forwards and backwards.  The     *)
(* buffer and the splitter never look at the record of a hit, so that the  *)
(* records are symmetric.                                                  *)
(***************************************************************************)
EXTENDS Grouping, TLC
CONSTANT MCRecords
MCHits == [from : MCRecords, t : 0 .. 2]
MCSymmetry == Permutations(MCRecords)
=============================================================================
