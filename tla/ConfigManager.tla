--------------------------- MODULE ConfigManager ---------------------------
(***************************************************************************)
(* What ConfigManager and AnalysisParameters_t make of the configuration   *)
(* file (src/PhysicalParam/ConfigManager.cpp).  The file is what yaml-cpp  *)
(* makes of it: setup, whether there is such a section; listings, the      *)
(* detectors under setup.crates in the order of the file, each with its    *)
(* crate, slot and speed; calibration, for each type with such a section   *)
(* the time shifts of its detectors in the unit of XIA_CFD, as many as its *)
(* shortest list has; and analysis, where a list is the sequence of        *)
(* whether its elements are numbers and a gate is whether it is complete.  *)
(* The numbers themselves are told apart by where they come from.          *)
(***************************************************************************)
EXTENDS XIA_CFD, SequencesExt

CONSTANTS Entries,     \* of the detector table
          Absent,      \* for a list that is not in the file
          ArraySize,   \* 64, of the arrays of coefficients
          Rings        \* 8, the coefficients of the fallback
-----------------------------------------------------------------------------
(***************************************************************************)
(* The detector table                                                      *)
(***************************************************************************)
DetectorTypes == {"invalid", "labr", "deDet", "eDet", "eGuard", "ppac", "rfchan", "qint",
                  "oscarF", "oscarB", "any", "unused"}

\* decode() of a speed
Speeds == (0 :> "f000MHz") @@ (100 :> "f100MHz") @@ (250 :> "f250MHz") @@ (500 :> "f500MHz")

\* No as<>() on the way to the entry throws.
Readable(config, listing) ==
    /\ listing.speed \in DOMAIN Speeds
    /\ listing.type \in DetectorTypes \cap DOMAIN config.calibration
    /\ listing.detectorID + 1 \in DOMAIN config.calibration[listing.type]

Throws(config) == ~config.setup \/ \E n \in DOMAIN config.listings :
                                       ~Readable(config, config.listings[n])

\* Seeded fault: the modules of the crates are counted on.
AddressOfModule(listing) == (listing.crate * 16 + listing.slot) * 16 + listing.crate + listing.channel

Address(listing) == listing.crate * 16 * 16 + listing.slot * 16 + listing.channel

\* int(), towards zero
Truncated(time) == IF time >= 0 THEN time \div Ns ELSE -((-time) \div Ns)

Entry(config, listing) ==
    LET time_shift == config.calibration[listing.type][listing.detectorID + 1]
    IN  [sfreq |-> Speeds[listing.speed], type |-> listing.type,
         detectorID |-> listing.detectorID,
         timestamp_shift |-> Truncated(time_shift),
         cfd_shift |-> time_shift - Truncated(time_shift) * Ns]

\* dinfo[address] of an address that the vector has no entry for
Beyond(config) == \E n \in DOMAIN config.listings : Address(config.listings[n]) >= Entries

\* dinfo[address] = entry.  A write beyond the vector that does not end the process
\* leaves the table as it is.
Written(table, address, entry) ==
    IF address < Entries
      THEN [a \in DOMAIN table \cup {address} |-> IF a = address THEN entry ELSE table[a]]
      ELSE table

\* The entries that are not those of NotInUse any more.
Table(config) ==
    FoldLeft(LAMBDA table, listing : Written(table, Address(listing), Entry(config, listing)),
             << >>, config.listings)
-----------------------------------------------------------------------------
(***************************************************************************)
(* The analysis parameters                                                 *)
(***************************************************************************)
Coefficients == {"a0", "a1", "a2"}

\* convert_array throws, or there is no list.
Fails(list) == list = Absent \/ Len(list) > ArraySize \/ FALSE \in ToSet(list)

\* What convert_array leaves in the array: nothing had been written there before.
Converted(list) ==
    [ring \in 0 .. Rings - 1 |-> IF ring < Len(list) THEN "file" ELSE "uninitialised"]

\* Seeded fault: the fallback replaces the lists that could not be read.
ExcitationOneByOne(analysis) ==
    [a \in Coefficients |-> IF Fails(analysis[a]) THEN [ring \in 0 .. Rings - 1 |-> "fallback"]
                                                  ELSE Converted(analysis[a])]

\* The three lists are read in one try; its handler writes all three arrays.
Excitation(analysis) ==
    IF \E a \in Coefficients : Fails(analysis[a])
      THEN [a \in Coefficients |-> [ring \in 0 .. Rings - 1 |-> "fallback"]]
      ELSE [a \in Coefficients |-> Converted(analysis[a])]

\* The time gates share a try, the particle gate has its own.
Gates(analysis) ==
    LET time == IF analysis.prompt /\ analysis.background THEN "file" ELSE "fallback"
    IN  [prompt |-> time, background |-> time,
         particle_gate |-> IF analysis.particle_gate THEN "file" ELSE "fallback"]

AnalysisParameters(config) == [ex |-> Excitation(config.analysis), gates |-> Gates(config.analysis)]
=============================================================================
