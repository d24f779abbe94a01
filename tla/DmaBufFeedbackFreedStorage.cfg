\* Any peer, which may send done while a tranche is pending; tables of one
\* entry, so that eight steps fit.
CONSTANTS
  fmt1 = fmt1  mod1 = mod1  mod2 = mod2  dev1 = dev1
  Formats <- MCFormats
  Mods <- MCMods
  Devs <- MCDevs
  NoDev = NoDev
  MaxTableLen = 1
  MaxIndices = 1
  MapMayFail = FALSE
  TableSizeSlack = {0}
  MaxEvents = 8
SPECIFICATION PeerSpec
INVARIANT FeedbackStorageSafe
