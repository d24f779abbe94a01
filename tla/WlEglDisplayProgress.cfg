\* Progress of the hooks: no symmetry (temporal property); displays that
\* connect by themselves, an EGLStream or a dma-buf v3 compositor; one display
\* slot, nested initializations and an eglTerminate that may fail.
CONSTANTS
  t1 = t1  t2 = t2  s1 = s1  s2 = s2  n1 = n1  dev1 = dev1
  Threads <- MCThreads
  Slots <- MCOneSlot
  NativeDpys = {}
  Devices = {}
  NoNative = NoNative
  NoDevice = NoDevice
  NullPtr = NullPtr
  NoThread = NoThread
  NoSlot = NoSlot
  PrimeRenderOffload = FALSE
  TrackReferences = TRUE
  TerminateMayFail = TRUE
  Compositors <- MCStreamOrDmaBuf3
  DriverKinds <- MCOlderDriver
  MaxInitCount = 2
SPECIFICATION Spec
PROPERTY LockEventuallyReleased
