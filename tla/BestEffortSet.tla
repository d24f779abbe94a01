---------------------------- MODULE BestEffortSet ----------------------------
(***************************************************************************)
(* What a growable set that gives up when memory runs out promises: every  *)
(* item offered is kept, or recorded as dropped when it was not held; an   *)
(* item once kept stays, and nothing is kept that was not offered.  The    *)
(* display's dma-buf format set (DmaBufModifierEvents) implements it, with *)
(* its (format, modifier) pairs as the items.                              *)
(***************************************************************************)
CONSTANTS Items

VARIABLES
  kept,     \* items the set holds
  offered,  \* items offered so far
  dropped   \* items an offer failed to add

vars == <<kept, offered, dropped>>

Init == kept = {} /\ offered = {} /\ dropped = {}

(* Offer x: it is added, or, if not already held, it may be dropped.       *)
Offer(x) ==
  /\ offered' = offered \cup {x}
  /\ \/ kept' = kept \cup {x} /\ UNCHANGED dropped
     \/ x \notin kept /\ UNCHANGED kept /\ dropped' = dropped \cup {x}

Next == \E x \in Items : Offer(x)

Spec == Init /\ [][Next]_vars
=============================================================================
