\* Modifier events in every order and repetition; any realloc may fail.
CONSTANTS
  f1 = f1  f2 = f2
  Formats <- MCFormats
  HalfBits = 2
  Halves <- MCHalves
  AllocMayFail = TRUE
  MaxEvents = 5
SPECIFICATION Spec
INVARIANT TypeOK
INVARIANT SetMatchesReceived
INVARIANT NoDuplicates
PROPERTY RefinesBestEffortSet
