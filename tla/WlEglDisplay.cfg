\* Two threads on up to two displays with a driver that counts display
\* references, on a dma-buf v4 compositor that offers the syncobj manager,
\* with a driver older than explicit sync.
CONSTANTS
  t1 = t1  t2 = t2  s1 = s1  s2 = s2  n1 = n1  dev1 = dev1
  Threads <- MCThreads
  Slots <- MCSlots
  NativeDpys <- MCNativeDpys
  Devices = {}
  NoNative = NoNative
  NoDevice = NoDevice
  NullPtr = NullPtr
  NoThread = NoThread
  NoSlot = NoSlot
  PrimeRenderOffload = FALSE
  TrackReferences = TRUE
  TerminateMayFail = FALSE
  Compositors <- MCDmaBuf4
  DriverKinds <- MCOlderDriver
  MaxInitCount = 1
SPECIFICATION Spec
SYMMETRY MCSymmetry
INVARIANT TypeOK
INVARIANT ConfigSelectionConsistent
INVARIANT ProbeMatchesBind
INVARIANT FeedbackRequestedOfV4
