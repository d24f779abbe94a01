--------------------------- MODULE DmaBufFeedback ---------------------------
(***************************************************************************)
(* A display's default dma-buf feedback (WlEglDmaBufFeedback) and the      *)
(* zwp_linux_dmabuf_feedback_v1 listeners that fill it.  The compositor    *)
(* sends a batch: format_table, main_device, then per tranche              *)
(* tranche_target_device, tranche_formats, tranche_flags, tranche_done,    *)
(* and finally done.  The client accumulates a tranche in tmpTranche,      *)
(* commits it at tranche_done, and throws the committed tranches away      *)
(* lazily, at the first tranche-related event after a done.               *)
(*                                                                         *)
(* The feedback is a record fb; each listener is an operator on it, with   *)
(* a companion operator for the memory faults it makes.  A tranche's       *)
(* storage freed by wlEglDestroyFormatSet keeps its pointer and count, so  *)
(* "freed" marks a tranche whose format set points to freed memory.  The   *)
(* format table's mapping is "none" (NULL, calloc), "mapped", "failed"     *)
(* (MAP_FAILED, len 0) or "unmapped" (munmap'ed by wlEglDestroyFeedback,   *)
(* pointer and len kept).                                                  *)
(*                                                                         *)
(* This module drives the listeners with an arbitrary peer: any event with *)
(* any arguments at any time, as a buggy or hostile compositor may send,   *)
(* interleaved with the display's initialization and termination.          *)
(***************************************************************************)
EXTENDS Naturals, Sequences, SequencesExt, FormatSet

CONSTANTS
  Formats,      \* DRM fourcc codes
  Mods,         \* format modifiers
  Devs,         \* dev_t values of DRM devices
  NoDev,        \* the dev_t a calloc'ed or reset tranche holds
  MaxTableLen,  \* bound on the entries of a format table
  MaxIndices,   \* bound on the indices of a tranche_formats event
  MapMayFail,   \* mmap of the format table can fail
  TableSizeSlack, \* bytes a format_table size may carry past its whole
                  \* entries: {0} unless the assert on it is compiled out
  MaxEvents     \* bound on the steps of a run

ASSUME NoDev \notin Devs /\ MapMayFail \in BOOLEAN /\ TableSizeSlack \subseteq 0..15

(* WlEglDmaBufFormatTableEntry: format, padding, modifier.                 *)
TableEntries == Formats \X Mods

Tables == UNION {[1..n -> TableEntries] : n \in 0..MaxTableLen}

(* uint16_t indices, including one past the largest table.                 *)
IndexArrays == UNION {[1..n -> 0..MaxTableLen] : n \in 0..MaxIndices}

(* What a read past the end of the mapped table yields.                    *)
BeyondTable == <<"beyond", "beyond">>

Tranche ==
  [drmDev : Devs \cup {NoDev}, supportsScanout : BOOLEAN,
   formatSet : Seq([format : Formats \cup {"beyond"},
                    modifiers : Seq(Mods \cup {"beyond"})]),
   freed : BOOLEAN]

Mapping == {"none", "mapped", "failed", "unmapped"}

FeedbackRec ==
  [formatTable : [map : Mapping, entries : Tables, len : 0..MaxTableLen],
   tranches : Seq(Tranche), tmpTranche : Tranche, mainDev : Devs \cup {NoDev},
   feedbackDone : BOOLEAN, unprocessedFeedback : BOOLEAN,
   proxy : {"none", "live", "destroyed"}]

FaultKinds == {"freed_storage", "unmapped_read", "stale_unmap", "proxy_destroyed_twice"}

EmptyTranche ==
  [drmDev |-> NoDev, supportsScanout |-> FALSE, formatSet |-> <<>>, freed |-> FALSE]

(* The feedback inside a calloc'ed WlEglDisplay.                           *)
NewFeedback ==
  [formatTable |-> [map |-> "none", entries |-> <<>>, len |-> 0],
   tranches |-> <<>>, tmpTranche |-> EmptyTranche, mainDev |-> NoDev,
   feedbackDone |-> FALSE, unprocessedFeedback |-> FALSE, proxy |-> "none"]

-----------------------------------------------------------------------------
(* wlEglDestroyFormatSet on a tranche's set: freeing storage that is       *)
(* already freed is a fault; afterwards the set points to freed memory     *)
(* unless it was NULL (no formats).                                        *)
DestroyFormatSetFaults(t) ==
  IF t.freed /\ t.formatSet # <<>> THEN {"freed_storage"} ELSE {}

FreedByDestroy(t) == t.freed \/ t.formatSet # <<>>

(* wlEglFeedbackResetTranches: nothing when there are no tranches;         *)
(* otherwise destroy tmpTranche's set (kept, dangling) and every           *)
(* committed tranche's set, and drop the tranches.                         *)
ResetTranches(fb) ==
  IF fb.tranches = <<>> THEN fb
  ELSE [fb EXCEPT !.tmpTranche.freed = FreedByDestroy(fb.tmpTranche),
                  !.tranches = <<>>]

ResetTranchesFaults(fb) ==
  IF fb.tranches = <<>> THEN {}
  ELSE UNION {DestroyFormatSetFaults(t) : t \in {fb.tmpTranche} \cup ToSet(fb.tranches)}

(* dmabuf_feedback_check_reset_tranches: after a done, the first          *)
(* tranche-related event clears feedbackDone and resets the tranches.      *)
CheckResetTranches(fb) ==
  IF fb.feedbackDone
  THEN ResetTranches([fb EXCEPT !.feedbackDone = FALSE])
  ELSE fb

CheckResetFaults(fb) == IF fb.feedbackDone THEN ResetTranchesFaults(fb) ELSE {}

(* dmabuf_feedback_main_device.                                             *)
MainDevice(fb, dev) == [CheckResetTranches(fb) EXCEPT !.mainDev = dev]

(* dmabuf_feedback_tranche_target_device.                                   *)
TrancheTargetDevice(fb, dev) ==
  [CheckResetTranches(fb) EXCEPT !.tmpTranche.drmDev = dev]

(* dmabuf_feedback_tranche_flags: the scanout flag is only ever set.        *)
TrancheFlags(fb, scanout) ==
  [CheckResetTranches(fb) EXCEPT !.tmpTranche.supportsScanout = @ \/ scanout]

(* formatTable.entry[i] for a 0-based index.                               *)
TableEntry(table, i) ==
  IF i < Len(table.entries) THEN table.entries[i + 1] ELSE BeyondTable

(* tranche_formats without the check against formatTable.len.             *)
UncheckedLookedUp(table, indices) == indices

(* The indices dmabuf_feedback_tranche_formats looks up: those below len.  *)
LookedUp(table, indices) == SelectSeq(indices, LAMBDA i : i < table.len)

(* dmabuf_feedback_tranche_formats: add the table entry of every index     *)
(* below formatTable.len to tmpTranche's set, in order.  The reallocs of   *)
(* wlEglFormatSetAdd succeed here; what their failures do to a set is      *)
(* checked in DmaBufModifierEvents.                                        *)
TrancheFormats(fb, indices) ==
  LET r == CheckResetTranches(fb)
      Add(set, i) == FormatSetAdd(set, TableEntry(r.formatTable, i)[1],
                                  TableEntry(r.formatTable, i)[2], TRUE, TRUE)
  IN [r EXCEPT !.tmpTranche.formatSet =
                 FoldLeft(Add, @, LookedUp(r.formatTable, indices))]

TrancheFormatsFaults(fb, indices) ==
  LET r == CheckResetTranches(fb)
      reads == LookedUp(r.formatTable, indices) # <<>>
  IN CheckResetFaults(fb)
     \cup (IF reads /\ r.tmpTranche.freed THEN {"freed_storage"} ELSE {})
     \cup (IF reads /\ r.formatTable.map = "unmapped" THEN {"unmapped_read"} ELSE {})

(* tranche_done without the memset that starts the next tranche afresh.   *)
UnclearedTrancheDone(fb) == [fb EXCEPT !.tranches = Append(@, fb.tmpTranche)]

(* dmabuf_feedback_tranche_done: append tmpTranche (its pointers copied)   *)
(* to the tranches and zero it.                                            *)
TrancheDone(fb) ==
  [fb EXCEPT !.tranches = Append(@, fb.tmpTranche), !.tmpTranche = EmptyTranche]

(* dmabuf_feedback_done.                                                    *)
FeedbackDone(fb) ==
  [fb EXCEPT !.feedbackDone = TRUE, !.unprocessedFeedback = TRUE]

(* The sizes in bytes a format_table event may give a table of whole      *)
(* entries: 16 per entry (sizeof(WlEglDmaBufFormatTableEntry)), plus the   *)
(* trailing bytes of a partial entry where the assert is compiled out.     *)
TableSizes(entries) == {16 * Len(entries) + x : x \in TableSizeSlack}

(* dmabuf_feedback_format_table taking the table's size in bytes for its  *)
(* number of entries.                                                      *)
ByteSizedFormatTable(fb, entries, size, mapOk) ==
  [fb EXCEPT !.formatTable =
     IF mapOk /\ size > 0
     THEN [map |-> "mapped", entries |-> entries, len |-> size]
     ELSE [map |-> "failed", entries |-> <<>>, len |-> 0]]

(* dmabuf_feedback_format_table: len = size / 16 (a trailing partial entry *)
(* is dropped), then map size bytes; a size of 0 cannot be mapped, and a   *)
(* failed mmap sets len to 0.  The previous mapping is not unmapped.       *)
FormatTable(fb, entries, size, mapOk) ==
  [fb EXCEPT !.formatTable =
     IF mapOk /\ size > 0
     THEN [map |-> "mapped", entries |-> entries, len |-> size \div 16]
     ELSE [map |-> "failed", entries |-> <<>>, len |-> 0]]

(* The mappings a format_table event leaves behind without a munmap.      *)
TableLeaks(fb) == IF fb.formatTable.map = "mapped" THEN 1 ELSE 0

(* wlEglDestroyFeedback: reset the tranches, munmap len entries of the     *)
(* table (pointer and len kept; munmap of 0 bytes fails and leaves a       *)
(* table of less than one entry mapped), destroy the proxy if the pointer  *)
(* is set (pointer kept).                                                  *)
DestroyFeedback(fb) ==
  [ResetTranches(fb) EXCEPT
     !.formatTable.map = IF @ = "mapped" /\ fb.formatTable.len > 0 THEN "unmapped" ELSE @,
     !.proxy = IF @ = "live" THEN "destroyed" ELSE @]

DestroyFeedbackFaults(fb) ==
  ResetTranchesFaults(fb)
  \cup (IF fb.formatTable.map = "unmapped" THEN {"stale_unmap"} ELSE {})
  \cup (IF fb.proxy = "destroyed" THEN {"proxy_destroyed_twice"} ELSE {})

(* wlEglInitializeHook on a version 4 compositor: get the default feedback *)
(* and register the listeners (WlEglRegisterFeedback).                     *)
BindFeedback(fb) == [fb EXCEPT !.proxy = "live"]

-----------------------------------------------------------------------------
VARIABLES
  fb,            \* display->defaultFeedback
  initialized,   \* the display is initialized (its proxies bound)
  faults,        \* memory faults the client has made
  lostMappings,  \* format-table mappings left behind without a munmap
  sentEntries,   \* every format-table entry the compositor has sent
  steps          \* steps taken, bounded by MaxEvents

vars == <<fb, initialized, faults, lostMappings, sentEntries, steps>>

MapOutcomes == IF MapMayFail THEN BOOLEAN ELSE {TRUE}

Events ==
  UNION {[kind : {"format_table"}, entries : {t}, size : TableSizes(t),
          mapOk : MapOutcomes] : t \in Tables}
  \cup [kind : {"main_device", "tranche_target_device"}, dev : Devs]
  \cup [kind : {"tranche_formats"}, indices : IndexArrays]
  \cup [kind : {"tranche_flags"}, scanout : BOOLEAN]
  \cup [kind : {"tranche_done", "done"}]

(* The listener of event e.                                                *)
Apply(f, e) ==
  CASE e.kind = "format_table" -> FormatTable(f, e.entries, e.size, e.mapOk)
    [] e.kind = "main_device" -> MainDevice(f, e.dev)
    [] e.kind = "tranche_target_device" -> TrancheTargetDevice(f, e.dev)
    [] e.kind = "tranche_formats" -> TrancheFormats(f, e.indices)
    [] e.kind = "tranche_flags" -> TrancheFlags(f, e.scanout)
    [] e.kind = "tranche_done" -> TrancheDone(f)
    [] e.kind = "done" -> FeedbackDone(f)

ApplyFaults(f, e) ==
  CASE e.kind = "tranche_formats" -> TrancheFormatsFaults(f, e.indices)
    [] e.kind \in {"main_device", "tranche_target_device", "tranche_flags"} ->
         CheckResetFaults(f)
    [] OTHER -> {}

(* A read of the unmapped table ends the process (SIGSEGV).                *)
Alive == "unmapped_read" \notin faults

TypeOK ==
  /\ fb \in FeedbackRec
  /\ initialized \in BOOLEAN
  /\ faults \subseteq FaultKinds
  /\ lostMappings \in Nat
  /\ sentEntries \subseteq TableEntries
  /\ steps \in 0..MaxEvents

Init ==
  /\ fb = NewFeedback
  /\ initialized = FALSE
  /\ faults = {}
  /\ lostMappings = 0
  /\ sentEntries = {}
  /\ steps = 0

(* The client dispatches event e on the display's queue: only while the    *)
(* feedback proxy is alive.                                                *)
Receive(e) ==
  /\ fb.proxy = "live" /\ Alive /\ steps < MaxEvents
  /\ fb' = Apply(fb, e)
  /\ faults' = faults \cup ApplyFaults(fb, e)
  /\ lostMappings' = lostMappings + IF e.kind = "format_table" THEN TableLeaks(fb) ELSE 0
  /\ sentEntries' = IF e.kind = "format_table" THEN sentEntries \cup ToSet(e.entries)
                    ELSE sentEntries
  /\ steps' = steps + 1
  /\ UNCHANGED initialized

(* wlEglInitializeHook on a dma-buf version 4 compositor, reaching the     *)
(* binding of the default feedback.                                        *)
Initialize ==
  /\ ~initialized /\ Alive /\ steps < MaxEvents
  /\ fb' = BindFeedback(fb)
  /\ initialized' = TRUE
  /\ steps' = steps + 1
  /\ UNCHANGED <<faults, lostMappings, sentEntries>>

(* wlEglInitializeHook failing before the binding (event queue, registry,  *)
(* first round trip): terminateDisplay destroys the feedback as it is.    *)
InitializeFailsEarly ==
  /\ ~initialized /\ Alive /\ steps < MaxEvents
  /\ fb' = DestroyFeedback(fb)
  /\ faults' = faults \cup DestroyFeedbackFaults(fb)
  /\ steps' = steps + 1
  /\ UNCHANGED <<initialized, lostMappings, sentEntries>>

(* terminateDisplay of an initialized display (eglTerminate, or an         *)
(* initialization failing after the binding).                              *)
Terminate ==
  /\ initialized /\ Alive /\ steps < MaxEvents
  /\ fb' = DestroyFeedback(fb)
  /\ faults' = faults \cup DestroyFeedbackFaults(fb)
  /\ initialized' = FALSE
  /\ steps' = steps + 1
  /\ UNCHANGED <<lostMappings, sentEntries>>

Finished == (steps = MaxEvents \/ ~Alive) /\ UNCHANGED vars

PeerNext ==
  \/ \E e \in Events : Receive(e)
  \/ Initialize
  \/ InitializeFailsEarly
  \/ Terminate
  \/ Finished

PeerSpec == Init /\ [][PeerNext]_vars

-----------------------------------------------------------------------------
(* No listener and no teardown uses what an earlier reset or destroy      *)
(* released: tranche storage freed by wlEglFeedbackResetTranches, the      *)
(* format-table mapping munmap'ed by wlEglDestroyFeedback, or the feedback *)
(* proxy it destroyed, whose pointers are all kept.                        *)
FeedbackStorageSafe == faults = {}
=============================================================================
