-------------------------- MODULE MCFeedbackSession --------------------------
(* FeedbackSession for TLC: one format, two modifiers, one device.         *)
EXTENDS FeedbackSession, TLC

CONSTANTS fmt1, mod1, mod2, dev1

MCFormats == {fmt1}
MCMods == {mod1, mod2}
MCDevs == {dev1}

(* Modifiers are only compared with one another.                          *)
MCSymmetry == Permutations(MCMods)
=============================================================================
