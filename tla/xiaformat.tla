----------------------------- MODULE xiaformat -----------------------------
(***************************************************************************)
(* The record of a pulse in a list mode file (include/Format/xiaformat.h): *)
(* a header of four words, for every headerLen above 4 the sums that the   *)
(* digitiser was asked for, and a trace of two samples a word.  A record   *)
(* is a record of the fields of its header; offsets into it are in words   *)
(* and, for the trace, in samples.                                         *)
(***************************************************************************)
EXTENDS Integers

CONSTANT TimeWord   \* 2^32, the first number event_time_low cannot hold

index(xia) == xia.crateID * 256 + xia.slotID * 16 + xia.chanID

timestamp(xia) == xia.event_time_high * TimeWord + xia.event_time_low

\* Where the structure XIA_event_<headerLen>_t has its members.  The eight QDC sums
\* are behind the energy sums and before the external time stamp; the trace is last.
HeaderLengths == {4, 6, 8, 10, 12, 14, 16, 18}
QdcOffset(headerLen) == IF headerLen \in {12, 14} THEN 4 ELSE 8

\* getQDC: the words of the eight sums, none for the zeros it returns without them
getQDC(xia) == IF xia.headerLen \in {12, 14, 16, 18}
                 THEN QdcOffset(xia.headerLen) + 1 .. QdcOffset(xia.headerLen) + 8
                 ELSE {}

\* getTrace: the samples that are copied
getTrace(xia) == IF xia.headerLen \in HeaderLengths
                   THEN 2 * xia.headerLen + 1 .. 2 * xia.headerLen + xia.traceLen
                   ELSE {}
=============================================================================
