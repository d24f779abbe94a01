--------------------------- MODULE MCDmaBufFeedback ---------------------------
(* DmaBufFeedback for TLC: one format, two modifiers, one device.          *)
EXTENDS DmaBufFeedback

CONSTANTS fmt1, mod1, mod2, dev1

MCFormats == {fmt1}
MCMods == {mod1, mod2}
MCDevs == {dev1}
=============================================================================
