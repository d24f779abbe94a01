\* Two batches of up to two tranches, tables of up to two whole entries
\* (the protocol's framing, which the assert in format_table checks) whose
\* mmap may fail; the display is terminated and re-initialized only between
\* batches, since its queue is dispatched only by wlEglInitializeHook's
\* round trips, each of which ends after the compositor's reply to its
\* wl_display.sync, and a compositor writes a batch in one go.
CONSTANTS
  fmt1 = fmt1  mod1 = mod1  mod2 = mod2  dev1 = dev1
  Formats <- MCFormats
  Mods <- MCMods
  Devs <- MCDevs
  NoDev = NoDev
  MaxTableLen = 2
  MaxIndices = 1
  MapMayFail = TRUE
  TableSizeSlack = {0}
  MaxEvents = 30
  MaxTranches = 2
  MaxBatches = 2
  DestroyMidBatch = FALSE
SPECIFICATION SessionSpec
SYMMETRY MCSymmetry
INVARIANT TypeOK
INVARIANT SnapshotMatchesBatch
