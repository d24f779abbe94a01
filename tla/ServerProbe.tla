----------------------------- MODULE ServerProbe -----------------------------
(***************************************************************************)
(* What the client learns from the compositor's globals, twice: once by    *)
(* getServerProtocolsInfo when wlEglGetPlatformDisplayExport creates a     *)
(* display (a private queue, registry_handle_global_check_protocols, the   *)
(* wl_drm device event, the default dma-buf feedback's main device) and    *)
(* checkNvidiaDrmDevice on the DRM node found; and again when              *)
(* wlEglInitializeHook binds the globals with registry_handle_global.      *)
(*                                                                         *)
(* A compositor is a record: its globals in the order the registry         *)
(* announces them, the DRM node its wl_drm names, the device its default   *)
(* feedback names as main device, and whether the client's libdrm exports  *)
(* drmGetDeviceFromDevId.  There are two GPUs, "nvidia" and "other"; a     *)
(* DRM node is <<device, kind>> with kind "primary" or "render", and <<>>  *)
(* is a NULL drm_name.  Each bound proxy is counted, so that a global      *)
(* announced twice shows as two binds into one pointer.                    *)
(***************************************************************************)
EXTENDS Naturals, Sequences
LOCAL INSTANCE SequencesExt

Interfaces ==
  {"wl_eglstream_display", "wl_eglstream_controller", "zwp_linux_dmabuf_v1",
   "wl_drm", "wp_presentation", "wp_linux_drm_syncobj_manager_v1", "other"}

(* Bound on the version of a global.                                       *)
MaxVersion == 4

Global == [iface : Interfaces, version : 1..MaxVersion]

DrmDevices == {"nvidia", "other"}

DrmNodes == DrmDevices \X {"primary", "render"}

NoNode == <<>>

Compositor ==
  [globals : Seq(Global), drmNode : DrmNodes \cup {NoNode},
   mainDevice : DrmDevices \cup {"none"}, devIdLookup : BOOLEAN]

-----------------------------------------------------------------------------
(* The WlServerProtocols of a probe, zeroed by "= {}".                     *)
NoProtocols ==
  [hasEglStream |-> FALSE, hasDmaBuf |-> FALSE, wlDmaBuf |-> 0, wlDrm |-> 0,
   drmName |-> NoNode]

(* The check below taking a version 2 zwp_linux_dmabuf_v1 for dma-buf     *)
(* support.                                                                *)
EarlyCheckProtocols(p, g) ==
  LET dmabuf == g.iface = "zwp_linux_dmabuf_v1"
  IN [p EXCEPT !.hasEglStream = @ \/ g.iface = "wl_eglstream_display",
               !.hasDmaBuf = @ \/ (dmabuf /\ g.version >= 2),
               !.wlDmaBuf = IF dmabuf /\ g.version >= 4 THEN @ + 1 ELSE @,
               !.wlDrm = IF g.iface = "wl_drm" /\ g.version >= 2 THEN @ + 1 ELSE @]

(* registry_handle_global_check_protocols for global g.                    *)
CheckProtocols(p, g) ==
  LET dmabuf == g.iface = "zwp_linux_dmabuf_v1"
  IN [p EXCEPT !.hasEglStream = @ \/ g.iface = "wl_eglstream_display",
               !.hasDmaBuf = @ \/ (dmabuf /\ g.version >= 3),
               !.wlDmaBuf = IF dmabuf /\ g.version >= 4 THEN @ + 1 ELSE @,
               !.wlDrm = IF g.iface = "wl_drm" /\ g.version >= 2 THEN @ + 1 ELSE @]

(* The second round trip: each bound wl_drm gets the compositor's device   *)
(* event, and wl_drm_device replaces drm_name by a copy of its name.       *)
DrmDevice(p, c) ==
  IF p.wlDrm > 0 /\ c.drmNode # NoNode THEN [p EXCEPT !.drmName = c.drmNode] ELSE p

(* The feedback round trip, when a version 4 zwp_linux_dmabuf_v1 was bound *)
(* and libdrm has drmGetDeviceFromDevId: main_device stores the dev_t,     *)
(* and done replaces drm_name by that device's render node when the lookup *)
(* finds the device (a dev_t never sent stays 0 and is not found).         *)
FeedbackCheck(p, c) ==
  IF p.wlDmaBuf > 0 /\ c.devIdLookup /\ c.mainDevice # "none"
  THEN [p EXCEPT !.drmName = <<c.mainDevice, "render">>]
  ELSE p

(* getServerProtocolsInfo on compositor c, with its result: whether a      *)
(* device name was found.  allocOk is FALSE when one of its allocations    *)
(* fails: the queue, the proxy wrapper or the registry (the probe ends     *)
(* there) or a strdup of the name (drm_name is NULL).  The proxies bound   *)
(* by a global announced twice are never destroyed.                         *)
ServerProtocolsInfo(c, allocOk) ==
  LET p == FeedbackCheck(DrmDevice(FoldLeft(CheckProtocols, NoProtocols, c.globals), c), c)
  IN [hasEglStream |-> p.hasEglStream, hasDmaBuf |-> p.hasDmaBuf,
      drmName |-> IF allocOk THEN p.drmName ELSE NoNode,
      result |-> allocOk /\ p.drmName # NoNode]

(* checkNvidiaDrmDevice: open drm_name (openOk), switch a primary node's   *)
(* name to its device's render node (a strdup, renameOk), and report       *)
(* whether the device is NVIDIA's, by PCI vendor 0x10de or by the driver   *)
(* name nvidia-drm, tegra-udrm or tegra.                                   *)
CheckNvidiaDrmDevice(name, openOk, renameOk) ==
  /\ name # NoNode /\ openOk
  /\ name[2] = "render" \/ renameOk
  /\ name[1] = "nvidia"
-----------------------------------------------------------------------------
(* The proxies registry_handle_global has bound into a calloc'ed display.  *)
NoBindings ==
  [wlStreamDpy |-> 0, wlStreamCtl |-> 0, wlDmaBuf |-> 0, dmaBufBound |-> 0,
   dmaBufProtocolVersion |-> 0, wpPresentation |-> 0, wlDrmSyncobj |-> 0]

(* registry_handle_global binding zwp_linux_dmabuf_v1 at version 4 only    *)
(* above version 4.                                                        *)
LateDmaBufVersion(version) == IF version > 4 THEN 4 ELSE 3

(* The version registry_handle_global binds zwp_linux_dmabuf_v1 at.        *)
DmaBufVersion(version) == IF version > 3 THEN 4 ELSE 3

(* registry_handle_global for global g; explicitSync is the display's      *)
(* supports_native_fence_sync && supports_explicit_sync.  Every bind       *)
(* overwrites the pointer; dmaBufProtocolVersion is the version of the     *)
(* last zwp_linux_dmabuf_v1 announced, bound or not.                       *)
RegistryHandleGlobal(b, g, explicitSync) ==
  CASE g.iface = "wl_eglstream_display" -> [b EXCEPT !.wlStreamDpy = @ + 1]
    [] g.iface = "wl_eglstream_controller" -> [b EXCEPT !.wlStreamCtl = @ + 1]
    [] g.iface = "zwp_linux_dmabuf_v1" ->
         IF g.version >= 3
         THEN [b EXCEPT !.wlDmaBuf = @ + 1, !.dmaBufBound = DmaBufVersion(g.version),
                        !.dmaBufProtocolVersion = g.version]
         ELSE [b EXCEPT !.dmaBufProtocolVersion = g.version]
    [] g.iface = "wp_presentation" -> [b EXCEPT !.wpPresentation = @ + 1]
    [] g.iface = "wp_linux_drm_syncobj_manager_v1" /\ explicitSync ->
         [b EXCEPT !.wlDrmSyncobj = @ + 1]
    [] OTHER -> b

(* The first round trip of wlEglInitializeHook on compositor c.            *)
RegistryBind(c, explicitSync) ==
  FoldLeft(LAMBDA b, g : RegistryHandleGlobal(b, g, explicitSync), NoBindings, c.globals)

(* wlEglInitializeHook's tests after the round trip: the display can       *)
(* present when it bound wl_eglstream_display or zwp_linux_dmabuf_v1, and  *)
(* it uses dma-buf (listener, feedback) only without an EGLStream display. *)
Presentation(b) == b.wlStreamDpy > 0 \/ b.wlDmaBuf > 0

UsesDmaBuf(b) == b.wlStreamDpy = 0 /\ b.wlDmaBuf > 0
-----------------------------------------------------------------------------
(* Bounded inputs for comparing the probe with the binding: every          *)
(* announcement of up to MaxGlobals globals of the interfaces either looks *)
(* at, at every version up to MaxVersion.                                  *)
MaxGlobals == 3

ProbeGlobals ==
  [iface : {"wl_eglstream_display", "zwp_linux_dmabuf_v1", "wl_drm", "other"},
   version : 1..MaxVersion]

GlobalLists == UNION {[1..n -> ProbeGlobals] : n \in 0..MaxGlobals}

WithGlobals(gs) ==
  [globals |-> gs, drmNode |-> NoNode, mainDevice |-> "none", devIdLookup |-> FALSE]

(* getServerProtocolsInfo reports a presentation protocol exactly when the *)
(* bind of wlEglInitializeHook will find one, on every announcement.       *)
ProbeAgreesWithBind ==
  \A gs \in GlobalLists :
    LET p == ServerProtocolsInfo(WithGlobals(gs), TRUE)
    IN (p.hasEglStream \/ p.hasDmaBuf) = Presentation(RegistryBind(WithGlobals(gs), FALSE))

(* Whenever wlEglInitializeHook asks the bound zwp_linux_dmabuf_v1 for its *)
(* default feedback (dmaBufProtocolVersion >= 4), the proxy was bound at   *)
(* version 4, the first to have get_default_feedback.                      *)
FeedbackOnlyOnV4 ==
  \A gs \in GlobalLists :
    LET b == RegistryBind(WithGlobals(gs), FALSE)
    IN b.wlDmaBuf > 0 /\ b.dmaBufProtocolVersion >= 4 => b.dmaBufBound = 4
=============================================================================
