------------------------- MODULE DmaBufModifierEvents -------------------------
(***************************************************************************)
(* The display's formatSet as zwp_linux_dmabuf_v1 version 3 fills it:      *)
(* dmabuf_handle_modifier adds every (format, modifier) event with         *)
(* wlEglFormatSetAdd, whose reallocs may fail (AllocMayFail).              *)
(*                                                                         *)
(* A modifier is a 64-bit number; the event carries its two 32-bit        *)
(* halves, mod_hi and mod_lo.  TLC's integers are 32-bit, so the model     *)
(* scales the widths: halves of HalfBits bits and modifiers of twice that, *)
(* with the shift by 32 a shift by HalfBits.                               *)
(***************************************************************************)
EXTENDS Naturals, Sequences, Bitwise, FormatSet

CONSTANTS
  Formats,       \* DRM fourcc codes the compositor advertises
  HalfBits,      \* the width of mod_hi and mod_lo (32, scaled down)
  Halves,        \* values of mod_hi and mod_lo
  AllocMayFail,  \* realloc can return NULL
  MaxEvents      \* bound on the modifier events of a run

ASSUME AllocMayFail \in BOOLEAN /\ MaxEvents \in Nat /\ HalfBits \in 1..15
ASSUME Halves \subseteq 0..(2^HalfBits - 1)

(* The modifier an event means, as the protocol defines its halves.        *)
SentModifier(hi, lo) == hi * 2^HalfBits + lo

Modifiers == {SentModifier(hi, lo) : hi, lo \in Halves}

VARIABLES
  formatSet,  \* display->formatSet: <<[format, modifiers]>> in array order
  received,   \* (format, modifier) pairs the compositor has sent
  failed,     \* pairs whose wlEglFormatSetAdd met a failed realloc
  events      \* modifier events handled

vars == <<formatSet, received, failed, events>>

Entry == [format : Formats, modifiers : Seq(Modifiers)]

(* The modifier dmabuf_handle_modifier would build with mod_hi not        *)
(* widened first: a shift by the full width, which x86 masks to 0.        *)
NarrowModifierOf(hi, lo) == hi | lo

(* The modifier dmabuf_handle_modifier builds:                              *)
(* ((uint64_t)mod_hi << 32) | (uint64_t)mod_lo.                             *)
ModifierOf(hi, lo) == (hi * 2^HalfBits) | lo

TypeOK ==
  /\ formatSet \in Seq(Entry)
  /\ received \subseteq Formats \X Modifiers
  /\ failed \subseteq Formats \X Modifiers
  /\ events \in 0..MaxEvents

Init ==
  /\ formatSet = <<>>
  /\ received = {}
  /\ failed = {}
  /\ events = 0

(* The realloc outcomes a run may see.                                     *)
AllocOutcomes == IF AllocMayFail THEN BOOLEAN ELSE {TRUE}

(* Whether wlEglFormatSetAdd calls a realloc that fails: the one that      *)
(* grows the modifiers of an entry lacking the modifier, or, for a new     *)
(* format, the one that grows the set or the one that follows it.          *)
ReallocFails(set, format, modifier, fmtAllocOk, modAllocOk) ==
  LET f == SelectInSeq(set, LAMBDA e : e.format = format)
  IN IF f # 0 THEN ~Contains(set[f].modifiers, modifier) /\ ~modAllocOk
     ELSE ~fmtAllocOk \/ ~modAllocOk

(* dmabuf_handle_modifier(format, mod_hi, mod_lo).                         *)
HandleModifier(format, hi, lo) ==
  /\ events < MaxEvents
  /\ \E fmtAllocOk, modAllocOk \in AllocOutcomes :
       /\ formatSet' = FormatSetAdd(formatSet, format, ModifierOf(hi, lo),
                                    fmtAllocOk, modAllocOk)
       /\ failed' = IF ReallocFails(formatSet, format, ModifierOf(hi, lo),
                                    fmtAllocOk, modAllocOk)
                    THEN failed \cup {<<format, ModifierOf(hi, lo)>>} ELSE failed
  /\ received' = received \cup {<<format, SentModifier(hi, lo)>>}
  /\ events' = events + 1

(* The compositor has sent all it will send.                               *)
Done == events = MaxEvents /\ UNCHANGED vars

Next ==
  \/ \E format \in Formats, hi, lo \in Halves : HandleModifier(format, hi, lo)
  \/ Done

Spec == Init /\ [][Next]_vars

-----------------------------------------------------------------------------
(* The set holds only (format, modifier) pairs the compositor sent, and    *)
(* every pair sent unless an add of it met a failed realloc:               *)
(* wlEglFormatSetAdd neither loses nor invents a pair, whatever the order  *)
(* and repetition of the events.                                           *)
SetMatchesReceived ==
  /\ Pairs(formatSet) \subseteq received
  /\ received \ Pairs(formatSet) \subseteq failed

(* A format has one entry, and an entry lists a modifier once: the         *)
(* searches of wlEglFormatSetAdd and wlEglDmaBufFormatAddModifier keep the *)
(* arrays free of duplicates.                                              *)
NoDuplicates ==
  /\ \A i, j \in DOMAIN formatSet : formatSet[i].format = formatSet[j].format => i = j
  /\ \A i \in DOMAIN formatSet :
       \A a, b \in DOMAIN formatSet[i].modifiers :
         formatSet[i].modifiers[a] = formatSet[i].modifiers[b] => a = b

(* The format set implements a best-effort set of the (format, modifier)  *)
(* pairs: each modifier event adds its pair, or leaves the set exactly as  *)
(* it was when a realloc fails, and no event, failing or not, loses a pair *)
(* the set held or adds one that was not sent.                             *)
Abstract == INSTANCE BestEffortSet
              WITH Items <- Formats \X Modifiers,
                   kept <- Pairs(formatSet), offered <- received, dropped <- failed

RefinesBestEffortSet == Abstract!Spec
=============================================================================
