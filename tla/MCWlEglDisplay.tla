--------------------------- MODULE MCWlEglDisplay ---------------------------
(* WlEglDisplay for TLC: two threads, one or two display slots, one        *)
(* application connection, one device.                                      *)
EXTENDS WlEglDisplay, TLC

CONSTANTS t1, t2, s1, s2, n1, dev1

MCThreads == {t1, t2}
MCSlots == {s1, s2}
MCOneSlot == {s1}
MCNativeDpys == {n1}
MCDevices == {dev1}

(* Compositors on the NVIDIA GPU or on another one: an EGLStream one that  *)
(* also offers wl_drm, a dma-buf version 3 one with wl_drm, and a dma-buf   *)
(* version 4 one that names its device only through the feedback.          *)
Gl(iface, version) == [iface |-> iface, version |-> version]

StreamCompositor(dev) ==
  [globals |-> <<Gl("wl_eglstream_display", 1), Gl("wl_eglstream_controller", 2),
                 Gl("wl_drm", 2)>>,
   drmNode |-> <<dev, "primary">>, mainDevice |-> "none", devIdLookup |-> TRUE]

DmaBuf3Compositor(dev) ==
  [globals |-> <<Gl("zwp_linux_dmabuf_v1", 3), Gl("wl_drm", 2)>>,
   drmNode |-> <<dev, "primary">>, mainDevice |-> "none", devIdLookup |-> TRUE]

DmaBuf4Compositor(dev) ==
  [globals |-> <<Gl("zwp_linux_dmabuf_v1", 4), Gl("wp_presentation", 1),
                 Gl("wp_linux_drm_syncobj_manager_v1", 1)>>,
   drmNode |-> NoNode, mainDevice |-> dev, devIdLookup |-> TRUE]

MCStream == {StreamCompositor(dev) : dev \in DrmDevices}
MCDmaBuf3 == {DmaBuf3Compositor(dev) : dev \in DrmDevices}
MCDmaBuf4 == {DmaBuf4Compositor(dev) : dev \in DrmDevices}
MCStreamOrDmaBuf3 == MCStream \cup MCDmaBuf3

(* A driver with explicit sync support, and an older one; both have       *)
(* EGL_ANDROID_native_fence_sync, so the sync probe runs on either.  On    *)
(* the older one, egl.createSync creates the probe's sync or fails with    *)
(* another error than EGL_BAD_ATTRIBUTE.                                   *)
ExplicitSyncDriver == [nativeFence |-> TRUE, explicitSync |-> TRUE]
OlderDriver == [nativeFence |-> TRUE, explicitSync |-> FALSE]

MCOlderDriver == {OlderDriver}
MCExplicitSyncDriver == {ExplicitSyncDriver}

(* Threads are interchangeable, and so are memory slots.                   *)
MCSymmetry == Permutations(MCThreads) \cup Permutations(MCSlots)
=============================================================================
