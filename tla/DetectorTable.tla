---------------------------- MODULE DetectorTable ----------------------------
(***************************************************************************)
(* ConfigManager (include/PhysicalParam/ConfigManager.h) as the calibrator *)
(* uses it: the entries of the detector table by the numbers of the        *)
(* channels, which records to keep, and the hit that is made of a record.  *)
(* A hit remembers the record it was made from.  Times are in the unit of  *)
(* XIA_CFD.                                                                *)
(***************************************************************************)
EXTENDS XIA_CFD, xiaformat

CONSTANTS raw,      \* the records by the pointers to them
          Entries,  \* the entries of the table, 512 for two crates
          dinfo     \* the entries the configuration has written into the table

Kept == {"labr", "deDet", "eDet", "ppac", "rfchan", "qint", "oscarF", "oscarB", "any"}

\* What ConfigManager gives every entry to begin with.
NotInUse == [sfreq |-> "f000MHz", type |-> "unused", detectorID |-> 0,
             timestamp_shift |-> 0, cfd_shift |-> 0]

\* index() can name a channel the table has no entry for: dinfo.at() throws
Known(xia) == index(raw[xia]) < Entries
Detector(xia) == IF index(raw[xia]) \in DOMAIN dinfo THEN dinfo[index(raw[xia])] ELSE NotInUse

\* Seeded fault: every channel of the table is kept.
KeepAll(xia) == Known(xia)

keep(xia) == Known(xia) /\ Detector(xia).type \in Kept

\* The length of a clock tick in ns.
Tick(sfreq) == IF sfreq = "f250MHz" THEN 8 ELSE 10

\* ConfigManager::operator(): the time stamp and the CFD correction, whose sum is
\* the time of the hit
Calibrated(xia) ==
    LET detector == Detector(xia)
        cfd == Decode(detector.sfreq, raw[xia].cfd_result)
    IN  [type |-> detector.type,
         detectorID |-> detector.detectorID,
         t |-> (timestamp(raw[xia]) * Tick(detector.sfreq) + detector.timestamp_shift) * Ns
                   + cfd.time + detector.cfd_shift,
         cfdfail |-> cfd.fail,
         qdc |-> getQDC(raw[xia]), trace |-> getTrace(raw[xia]),
         from |-> xia]
=============================================================================
