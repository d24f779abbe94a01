\* A display is created with refCount 0.
CONSTANTS
  t1 = t1  t2 = t2  s1 = s1  s2 = s2  n1 = n1  dev1 = dev1
  Threads <- MCThreads
  Slots <- MCSlots
  NativeDpys <- MCNativeDpys
  Devices = {}
  NoNative = NoNative
  NoDevice = NoDevice
  NullPtr = NullPtr
  NoThread = NoThread
  NoSlot = NoSlot
  PrimeRenderOffload = FALSE
  TrackReferences = TRUE
  TerminateMayFail = FALSE
  Compositors <- MCDmaBuf4
  DriverKinds <- MCExplicitSyncDriver
  MaxInitCount = 1
SPECIFICATION Spec
SYMMETRY MCSymmetry
INVARIANT ListedNotFreed
