--------------------------- MODULE FeedbackSession ---------------------------
(***************************************************************************)
(* The default dma-buf feedback of a display talking to a compositor that  *)
(* follows the linux-dmabuf version 4 protocol: on a new feedback object   *)
(* it first sends the format table; every batch is main_device, one or     *)
(* more tranches (tranche_target_device, tranche_formats with indices into *)
(* the table in effect, tranche_flags, tranche_done) and done; a later     *)
(* batch may send a new table first.  Wayland delivers the events of an    *)
(* object reliably and in order, so the compositor's pending events are a  *)
(* queue (script) that the client's listeners consume from the head.      *)
(*                                                                         *)
(* batch is what the batch being sent says and lastBatch what the last     *)
(* completely delivered one said: the device, and per tranche its device,  *)
(* scanout flag and (format, modifier) pairs.  That is the abstract state  *)
(* the client's committed tranches stand for.                              *)
(***************************************************************************)
EXTENDS DmaBufFeedback

CONSTANTS
  MaxTranches,     \* bound on the tranches of a batch
  MaxBatches,      \* bound on the batches of a run
  DestroyMidBatch  \* the display can be terminated between two events of a batch

ASSUME MaxTranches \in Nat \ {0} /\ DestroyMidBatch \in BOOLEAN

VARIABLES
  script,     \* events of the current batch not yet delivered
  batch,      \* the abstract content of the current batch
  lastBatch,  \* the abstract content of the last batch delivered whole
  compTable,  \* the format table in effect on the compositor's side
  tableSent,  \* the compositor has sent a table on this feedback object
  batches     \* batches started

sessionVars == <<script, batch, lastBatch, compTable, tableSent, batches>>
allVars == <<vars, sessionVars>>

NoBatch == [mainDev |-> NoDev, tranches |-> <<>>]

(* The feedback the client's committed state stands for.                   *)
ClientView(f) ==
  [mainDev |-> f.mainDev,
   tranches |-> [i \in DOMAIN f.tranches |->
                   [dev |-> f.tranches[i].drmDev,
                    scanout |-> f.tranches[i].supportsScanout,
                    pairs |-> Pairs(f.tranches[i].formatSet)]]]

(* A tranche the compositor may send: its indices may run past a table    *)
(* shorter than MaxTableLen (a compositor bug the client must skip).       *)
TrancheChoices ==
  [dev : Devs, scanout : BOOLEAN,
   indices : UNION {[1..k -> 0..(MaxTableLen - 1)] : k \in 1..MaxIndices}]

(* The (format, modifier) pairs a tranche's indices name in table tbl.     *)
Named(tbl, indices) == {tbl[j + 1] : j \in {i \in ToSet(indices) : i < Len(tbl)}}

TrancheScript(t) ==
  << [kind |-> "tranche_target_device", dev |-> t.dev],
     [kind |-> "tranche_formats", indices |-> t.indices],
     [kind |-> "tranche_flags", scanout |-> t.scanout],
     [kind |-> "tranche_done"] >>

NonEmptyTables == Tables \ {<<>>}

SessionInit ==
  /\ Init
  /\ script = <<>> /\ batch = NoBatch /\ lastBatch = NoBatch
  /\ compTable = <<>> /\ tableSent = FALSE /\ batches = 0

(* The compositor starts a batch: a table (required on a new object, else *)
(* optional; <<>> stands for none), the main device and the tranches.      *)
StartBatch ==
  /\ fb.proxy = "live" /\ Alive /\ script = <<>> /\ batches < MaxBatches
  /\ \E tableOpt \in IF tableSent THEN {<<>>} \cup NonEmptyTables ELSE NonEmptyTables,
        main \in Devs, n \in 1..MaxTranches :
       LET tbl == IF tableOpt = <<>> THEN compTable ELSE tableOpt
       IN \E ts \in [1..n -> TrancheChoices] :
            /\ script' =
                 (IF tableOpt = <<>> THEN <<>>
                  ELSE << [kind |-> "format_table", entries |-> tableOpt] >>)
                 \o << [kind |-> "main_device", dev |-> main] >>
                 \o FlattenSeq([i \in 1..n |-> TrancheScript(ts[i])])
                 \o << [kind |-> "done"] >>
            /\ batch' =
                 [mainDev |-> main,
                  tranches |-> [i \in 1..n |->
                                  [dev |-> ts[i].dev, scanout |-> ts[i].scanout,
                                   pairs |-> Named(tbl, ts[i].indices)]]]
            /\ compTable' = tbl
  /\ tableSent' = TRUE
  /\ batches' = batches + 1
  /\ UNCHANGED <<vars, lastBatch>>

(* The events the script's event e can be when the client dispatches it: *)
(* a format table goes with its size in bytes, which nothing reads before *)
(* the client does, and the client's mmap of it succeeds or fails.        *)
OnWire(e) ==
  IF e.kind = "format_table"
  THEN [kind : {e.kind}, entries : {e.entries}, size : TableSizes(e.entries),
        mapOk : MapOutcomes]
  ELSE {e}

(* The client dispatches the next event of the batch.                      *)
Deliver ==
  /\ script # <<>>
  /\ \E e \in OnWire(Head(script)) : Receive(e)
  /\ script' = Tail(script)
  /\ lastBatch' = IF Len(script) = 1 THEN batch ELSE lastBatch
  /\ UNCHANGED <<batch, compTable, tableSent, batches>>

(* A new feedback object: the compositor owes it a table and a batch.     *)
SessionInitialize ==
  /\ Initialize
  /\ tableSent' = FALSE /\ lastBatch' = NoBatch
  /\ UNCHANGED <<script, batch, compTable, batches>>

SessionInitializeFailsEarly ==
  /\ InitializeFailsEarly
  /\ UNCHANGED sessionVars

(* Terminating the display destroys the feedback object; the compositor's *)
(* undelivered events for it are dropped.  Without DestroyMidBatch this    *)
(* happens only between batches: the display's queue is dispatched only   *)
(* by the round trips of wlEglInitializeHook, which return after the       *)
(* reply to their wl_display.sync, and the compositor writes each batch    *)
(* before it reads the next request.                                       *)
SessionTerminate ==
  /\ DestroyMidBatch \/ script = <<>>
  /\ Terminate
  /\ script' = <<>>
  /\ UNCHANGED <<batch, lastBatch, compTable, tableSent, batches>>

SessionFinished ==
  /\ steps = MaxEvents \/ ~Alive \/ (batches = MaxBatches /\ script = <<>>)
  /\ UNCHANGED allVars

SessionNext ==
  \/ StartBatch
  \/ Deliver
  \/ SessionInitialize
  \/ SessionInitializeFailsEarly
  \/ SessionTerminate
  \/ SessionFinished

SessionSpec == SessionInit /\ [][SessionNext]_allVars

-----------------------------------------------------------------------------
(* What the client can learn of batch b through format table table: none  *)
(* of its formats when the table's mmap failed.                            *)
Readable(b, table) ==
  IF table.map = "failed"
  THEN [b EXCEPT !.tranches = [i \in DOMAIN b.tranches |-> [b.tranches[i] EXCEPT !.pairs = {}]]]
  ELSE b

(* Whenever a batch has been delivered whole and the next has not begun,   *)
(* the client's main device and committed tranches (device, scanout flag,  *)
(* formats the valid indices name in the table in effect, none if its     *)
(* mmap failed) are exactly those of that batch: the lazy reset at the     *)
(* first event of a batch, len = size / 16, the index check against        *)
(* formatTable.len, len = 0 after a failed mmap,                           *)
(* the table replacement and the tmpTranche hand-over at tranche_done      *)
(* together neither lose, invent nor mix tranches.                         *)
SnapshotMatchesBatch ==
  (fb.proxy = "live" /\ script = <<>> /\ lastBatch # NoBatch)
    => ClientView(fb) = Readable(lastBatch, fb.formatTable)

(* Every format table the client maps is unmapped before its pointer is    *)
(* overwritten: wlEglDestroyFeedback's munmap is the only one.             *)
MappingsNotLeaked == lostMappings = 0
=============================================================================
