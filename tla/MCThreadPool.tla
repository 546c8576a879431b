---------------------------- MODULE MCThreadPool ----------------------------
(***************************************************************************)
(* Instances of ThreadPool for TLC: a source, workers and a sink with      *)
(* queues of one or two items and more records than the queues hold.       *)
(***************************************************************************)
EXTENDS ThreadPool

WaitOnly == {"Wait"}
BothDrivers == {"Wait", "DoEnd"}
NoTask == {}
SecondTask == {2}
=============================================================================
