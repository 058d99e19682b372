------------------------------- MODULE MCRomVars -------------------------------
(***************************************************************************)
(* RomVars with words of three bits and pages of four values and two log   *)
(* entries.  Empty is 7, the pages are 2 and 3; 7 programmed over 1 is     *)
(* read back as 1.                                                         *)
(***************************************************************************)
EXTENDS RomVars

MCNewValues == {1, 7}

Bit(w, i) == (w \div 2 ^ i) % 2

MCAnd(v, w) ==
  LET Common(i) == 2 ^ i * Bit(v, i) * Bit(w, i)
  IN  Common(0) + Common(1) + Common(2)
=============================================================================
