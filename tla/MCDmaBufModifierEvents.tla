---------------------------- MODULE MCDmaBufModifierEvents -----------------------
(* DmaBufModifierEvents for TLC: two formats, 2-bit halves 0 and 1.       *)
EXTENDS DmaBufModifierEvents

CONSTANTS f1, f2

MCFormats == {f1, f2}
MCHalves == {0, 1}
=============================================================================
