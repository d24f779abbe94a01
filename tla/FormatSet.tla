----------------------------- MODULE FormatSet -----------------------------
(***************************************************************************)
(* The dma-buf format/modifier set (WlEglDmaBufFormatSet) and the two       *)
(* functions that grow it: wlEglFormatSetAdd, which finds the format's     *)
(* entry or appends one, and wlEglDmaBufFormatAddModifier, which appends a *)
(* modifier the entry does not have yet.  Both grow their array with       *)
(* realloc and give up silently when it fails; the allocOk arguments are   *)
(* the outcomes of those calls.                                            *)
(*                                                                         *)
(* A set is a sequence of entries [format, modifiers] in array order; an   *)
(* entry's modifiers are a sequence too.  The display's formatSet and the  *)
(* format set of every feedback tranche are such sets.                     *)
(***************************************************************************)
EXTENDS Naturals, Sequences, SequencesExt

(* The (format, modifier) pairs a format set stands for.                   *)
Pairs(set) ==
  UNION {{<<set[i].format, m>> : m \in ToSet(set[i].modifiers)} : i \in DOMAIN set}

(* wlEglDmaBufFormatAddModifier storing the format instead of the          *)
(* modifier.                                                               *)
BuggyDmaBufFormatAddModifier(fmt, modifier, allocOk) ==
  IF Contains(fmt.modifiers, modifier) \/ ~allocOk THEN fmt
  ELSE [fmt EXCEPT !.modifiers = Append(@, fmt.format)]

(* wlEglDmaBufFormatAddModifier without its search for the modifier.      *)
DuplicatingDmaBufFormatAddModifier(fmt, modifier, allocOk) ==
  IF ~allocOk THEN fmt
  ELSE [fmt EXCEPT !.modifiers = Append(@, modifier)]

(* wlEglDmaBufFormatAddModifier: return if the entry has the modifier;     *)
(* otherwise grow the array by one (allocOk: realloc succeeded) and        *)
(* append it, or leave the entry as it was.                                *)
DmaBufFormatAddModifier(fmt, modifier, allocOk) ==
  IF Contains(fmt.modifiers, modifier) \/ ~allocOk THEN fmt
  ELSE [fmt EXCEPT !.modifiers = Append(@, modifier)]

(* wlEglFormatSetAdd assigning realloc's result to the array directly, so *)
(* that a failure drops every entry.                                       *)
LosingFormatSetAdd(set, format, modifier, fmtAllocOk, modAllocOk) ==
  LET f == SelectInSeq(set, LAMBDA e : e.format = format)
  IN IF f # 0
     THEN [set EXCEPT ![f] = DmaBufFormatAddModifier(@, modifier, modAllocOk)]
     ELSE IF ~fmtAllocOk THEN <<>>
     ELSE Append(set, DmaBufFormatAddModifier([format |-> format, modifiers |-> <<>>],
                                              modifier, modAllocOk))

(* wlEglFormatSetAdd appending the new entry without its modifier.        *)
ForgetfulFormatSetAdd(set, format, modifier, fmtAllocOk, modAllocOk) ==
  LET f == SelectInSeq(set, LAMBDA e : e.format = format)
  IN IF f # 0
     THEN [set EXCEPT ![f] = DmaBufFormatAddModifier(@, modifier, modAllocOk)]
     ELSE IF ~fmtAllocOk THEN set
     ELSE Append(set, [format |-> format, modifiers |-> <<>>])

(* wlEglFormatSetAdd: the first entry of the format gets the modifier;     *)
(* if there is none, grow the array by one (fmtAllocOk) and append an      *)
(* entry with no modifiers, then add the modifier to it (modAllocOk).      *)
(* The entry is kept even when that second realloc fails.                  *)
FormatSetAdd(set, format, modifier, fmtAllocOk, modAllocOk) ==
  LET f == SelectInSeq(set, LAMBDA e : e.format = format)
  IN IF f # 0
     THEN [set EXCEPT ![f] = DmaBufFormatAddModifier(@, modifier, modAllocOk)]
     ELSE IF ~fmtAllocOk THEN set
     ELSE Append(set, DmaBufFormatAddModifier([format |-> format, modifiers |-> <<>>],
                                              modifier, modAllocOk))
=============================================================================
