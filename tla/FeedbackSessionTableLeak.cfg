\* A second batch that sends a new format table while the first is mapped.
CONSTANTS
  fmt1 = fmt1  mod1 = mod1  mod2 = mod2  dev1 = dev1
  Formats <- MCFormats
  Mods <- MCMods
  Devs <- MCDevs
  NoDev = NoDev
  MaxTableLen = 2
  MaxIndices = 1
  MapMayFail = FALSE
  TableSizeSlack = {0}
  MaxEvents = 30
  MaxTranches = 2
  MaxBatches = 2
  DestroyMidBatch = FALSE
SPECIFICATION SessionSpec
INVARIANT MappingsNotLeaked
