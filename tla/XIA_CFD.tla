------------------------------ MODULE XIA_CFD ------------------------------
(***************************************************************************)
(* The CFD word of a record (src/PhysicalParam/XIA_CFD.cpp): 16 bits that  *)
(* hold the fraction of a sampling period, a source of the trigger and a   *)
(* mark of failure, laid out by the sampling frequency of the module.  The *)
(* code computes with floating point numbers; the values of all words are  *)
(* multiples of 1/16384 ns, the unit of time here, so that the integers    *)
(* of the model are exact.                                                 *)
(***************************************************************************)
EXTENDS Integers

Ns == 16384   \* one ns

\* The bits of a word from the one worth first on that hold a number below n.
Bits(word, first, n) == (word \div first) % n

\* 10 * timecfd / 32768 ns
Decode100MHz(word) ==
    LET fail == Bits(word, 32768, 2) = 1
    IN  [fail |-> fail, time |-> IF fail THEN 0 ELSE 5 * Bits(word, 1, 32768)]

\* Seeded fault: the source of the trigger is left out.
Decode250MHzFractionOnly(word) ==
    LET fail == Bits(word, 32768, 2) = 1
    IN  [fail |-> fail, time |-> IF fail THEN 0 ELSE 4 * Bits(word, 1, 16384)]

\* 4 * (timecfd / 16384 - trigsource) ns
Decode250MHz(word) ==
    LET fail == Bits(word, 32768, 2) = 1
    IN  [fail |-> fail,
         time |-> IF fail THEN 0 ELSE 4 * Bits(word, 1, 16384) - 4 * Ns * Bits(word, 16384, 2)]

\* 2 * (timecfd / 8192 + trigsource - 1) ns, where XIA_CFD.h:61 has - trigsource - 1
Decode500MHz(word) ==
    LET fail == Bits(word, 8192, 8) >= 7
    IN  [fail |-> fail,
         time |-> IF fail THEN 0 ELSE 4 * Bits(word, 1, 8192) + 2 * Ns * (Bits(word, 8192, 8) - 1)]

\* XIA_CFD_Decode; a module of another frequency counts as one of 100 MHz
Decode(sfreq, word) ==
    CASE sfreq = "f250MHz" -> Decode250MHz(word)
      [] sfreq = "f500MHz" -> Decode500MHz(word)
      [] OTHER -> Decode100MHz(word)
=============================================================================
