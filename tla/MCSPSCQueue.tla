---------------------------- MODULE MCSPSCQueue ----------------------------
(***************************************************************************)
(* An instance of SPSCQueue for TLC.  A ring of two slots and one item     *)
(* more than twice its size make every slot be reused.                     *)
(***************************************************************************)
EXTENDS SPSCQueue

CONSTANTS a, b

MCItems == {a, b}
AllOps == {"pop", "try_pop", "wait", "wait_timed", "empty"}
=============================================================================
