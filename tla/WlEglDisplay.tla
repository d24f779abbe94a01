---------------------------- MODULE WlEglDisplay ----------------------------
(***************************************************************************)
(* The display directory (wlEglDisplayList) and the WlEglDisplay handles   *)
(* of wayland-egldisplay.c, driven by application threads that call the    *)
(* EGL hooks concurrently, composed with the device registry.              *)
(*                                                                         *)
(* A display lives in a memory slot that is "unused", "live" or "freed".   *)
(* Freed memory keeps its contents (the usual outcome of a use after free  *)
(* with glibc) and is never handed out again; every access the code makes  *)
(* to a freed slot, or to storage a teardown freed without clearing the    *)
(* pointer, is recorded in faults, so the model goes on past the undefined *)
(* behaviour the way the program usually does.  A NULL dereference ends   *)
(* the process (crashed).                                                  *)
(*                                                                         *)
(* Locks: apiLock is wlExternalApiLock.  The short sections of             *)
(* wlEglAcquireDisplay, wlEglReleaseDisplay and wlEglGetPlatformDisplay-   *)
(* Export are single steps that need it free; wlEglDestroyAllDisplays      *)
(* holds it over several steps.  mutex[s] is display->mutex.               *)
(***************************************************************************)
EXTENDS Naturals, Integers, FiniteSets, ConfigHooks, ServerProbe, DriverSync

CONSTANTS
  Threads,          \* application threads calling the hooks
  Slots,            \* memory a WlEglDisplay can be allocated in
  NativeDpys,       \* wl_display connections the application passes
  Devices,          \* EGLDeviceEXT handles the application can request
  NoNative,         \* nativeDpy == NULL: the display connects by itself
  NoDevice,         \* EGL_NO_DEVICE_EXT, also the NULL eglDevice of line 1045
  NullPtr,          \* display->devDpy after wlEglDestroyAllDisplays
  NoThread,
  NoSlot,
  TrackReferences,  \* data->supportsDisplayReference
  TerminateMayFail, \* egl.terminate can return EGL_FALSE
  PrimeRenderOffload, \* __NV_PRIME_RENDER_OFFLOAD=1
  Compositors,      \* the kinds of compositor the client may meet
  DriverKinds,      \* the EGL drivers the process may run on (DriverSync)
  MaxInitCount      \* bound on nested eglInitialize calls, on the
                    \* driver's count of a device display and on how far
                    \* lost updates can move an entry's initCount

ASSUME NoDevice \notin Devices /\ NoNative \notin NativeDpys
ASSUME PrimeRenderOffload \in BOOLEAN /\ MaxInitCount \in Nat \ {0}

Keys == Devices \cup {NoDevice}

(* What getServerProtocolsInfo and checkNvidiaDrmDevice can make of each  *)
(* compositor, over the outcomes of their allocations and of the open, and *)
(* what wlEglCheckDriverSyncSupport can make of supports_explicit_sync on  *)
(* each driver, over the outcomes of __NV_DISABLE_EXPLICIT_SYNC and of its *)
(* calls, and what registry_handle_global binds with or without explicit  *)
(* sync:                                                                   *)
(* constant tables, computed once.                                         *)
ProbeOutcomes ==
  [c \in Compositors |->
     {LET p == ServerProtocolsInfo(c, allocOk)
      IN [result |-> p.result, hasProtocol |-> p.hasEglStream \/ p.hasDmaBuf,
          isServerNV |-> CheckNvidiaDrmDevice(p.drmName, openOk, renameOk)] :
        allocOk, openOk, renameOk \in BOOLEAN}]

SyncProbeOutcomes ==
  [drv \in DriverKinds, old \in BOOLEAN |->
     {CheckDriverSyncSupport(old, NativeFenceSync(drv), disabled, createOk, toFdOk, result) :
        disabled, createOk, toFdOk \in BOOLEAN, result \in CreateSyncResults(drv)}]

Bindings == [c \in Compositors, explicitSync \in BOOLEAN |-> RegistryBind(c, explicitSync)]

VARIABLES
  server,     \* the compositor the application connects to (ServerProbe)
  driver,     \* the EGL driver of the process (DriverSync)
  mem,        \* mem[s]: "unused", "live" or "freed"
  listed,     \* slots linked in wlEglDisplayList
  disp,       \* disp[s]: the fields of the WlEglDisplay in slot s
  handles,    \* displays returned to the application
  mutex,      \* mutex[s]: owner of display->mutex
  apiLock,    \* owner of wlExternalApiLock across wlEglDestroyAllDisplays
  teardown,   \* displays wlEglDestroyAllDisplays has still to visit
  pc,         \* pc[t]: where thread t is
  cur,        \* cur[t]: the display thread t works on
  faults,     \* memory-safety faults the code has made so far
  crashed,    \* a NULL dereference ended the process
  destroyed,  \* wlEglDestroyAllDisplays has run for the platform
  loaded,     \* loaded[t]: the devDpy->initCount thread t has loaded for ++ or --
  devList, devInitCount, eglInit

Reg == INSTANCE DeviceRegistry WITH Devices <- Keys

regVars == <<devList, devInitCount, eglInit>>
vars == <<server, driver, mem, listed, disp, handles, mutex, apiLock,
          teardown, pc, cur, faults, crashed, destroyed, loaded, devList,
          devInitCount, eglInit>>

PCs == {"idle", "ini_lock", "ini_body", "ini_inc", "ini_store", "ini_bind",
        "term_lock", "term_body", "term_dec", "term_store", "q_lock", "q_body",
        "unlock", "release", "da_loop"}

(* Where a thread is between wlInternalInitialize's or wlInternalTerminate's *)
(* test and the store of its ++ or --.                                       *)
CountUpdatePCs == {"ini_inc", "ini_store", "term_dec", "term_store"}
FaultKinds == {"display_freed", "stale_free", "null_devdpy"}

DisplayRec ==
  [native : NativeDpys \cup {NoNative}, useInitRefCount : BOOLEAN,
   requestedDevice : Keys, devDpy : Keys \cup {NullPtr},
   refCount : Int, initCount : Nat, bound : BOOLEAN,
   feedback : {"none", "live", "dangling"},
   formatSet : {"empty", "filled", "dangling"},
   explicitSync : BOOLEAN, syncobj : BOOLEAN]

(* The contents of a display as wlEglGetPlatformDisplayExport leaves it:   *)
(* calloc'ed, so refCount is 0, and bound to the registry entry of the     *)
(* local eglDevice, which is never assigned and stays NULL.                *)
NewDisplay(n, useRef, reqDev) ==
  [native |-> n, useInitRefCount |-> useRef, requestedDevice |-> reqDev,
   devDpy |-> NoDevice, refCount |-> 0, initCount |-> 0, bound |-> FALSE,
   feedback |-> "none", formatSet |-> "empty",
   explicitSync |-> FALSE, syncobj |-> FALSE]

Fault(kind, s) == [kind |-> kind, slot |-> s]

(* A fault when the code touches the display in slot s after it was freed. *)
TouchFaults(s) == IF mem[s] = "freed" THEN {Fault("display_freed", s)} ELSE {}

Goto(t, p) == pc' = [pc EXCEPT ![t] = p]

TypeOK ==
  /\ server \in Compositor /\ driver \in Drivers
  /\ mem \in [Slots -> {"unused", "live", "freed"}]
  /\ listed \subseteq Slots /\ handles \subseteq Slots /\ teardown \subseteq Slots
  /\ disp \in [Slots -> DisplayRec]
  /\ mutex \in [Slots -> Threads \cup {NoThread}]
  /\ apiLock \in Threads \cup {NoThread}
  /\ pc \in [Threads -> PCs] /\ cur \in [Threads -> Slots \cup {NoSlot}]
  /\ faults \subseteq [kind : FaultKinds, slot : Slots]
  /\ crashed \in BOOLEAN /\ destroyed \in BOOLEAN
  /\ loaded \in [Threads -> Int]
  /\ Reg!RegistryTypeOK

Init ==
  /\ server \in Compositors /\ driver \in DriverKinds
  /\ mem = [s \in Slots |-> "unused"]
  /\ listed = {} /\ handles = {} /\ teardown = {}
  /\ disp = [s \in Slots |-> NewDisplay(NoNative, FALSE, NoDevice)]
  /\ mutex = [s \in Slots |-> NoThread]
  /\ apiLock = NoThread
  /\ pc = [t \in Threads |-> "idle"] /\ cur = [t \in Threads |-> NoSlot]
  /\ faults = {} /\ crashed = FALSE /\ destroyed = FALSE
  /\ loaded = [t \in Threads |-> 0]
  /\ Reg!RegistryInit

-----------------------------------------------------------------------------
(* wlEglGetPlatformDisplayExport(nativeDpy n, EGL_TRACK_REFERENCES_KHR     *)
(* useRef, EGL_DEVICE_EXT reqDev), one step under the API lock.  A display *)
(* whose key matches is returned as it is; otherwise a new one is built.   *)
(* Construction fails without a display when: getServerProtocolsInfo     *)
(* finds no device name; checkNvidiaDrmDevice does not find the server on  *)
(* an NVIDIA device and neither PRIME offload nor a device was requested;  *)
(* the server has neither protocol (probe, one of ProbeOutcomes); the     *)
(* registry has no entry for the NULL device and cannot make one (regOk); *)
(* or the DRM device cannot be opened (openOk).  A failing                 *)
(* egl.queryDevices ends it like a failed probe.                           *)
(* A display that connected by itself has native = NoNative here, so the  *)
(* test "nativeDpy == n || (!n && ownNativeDpy)" is native = n.            *)
Matches(s, n, useRef, reqDev) ==
  /\ disp[s].native = n
  /\ disp[s].useInitRefCount = useRef
  /\ disp[s].requestedDevice = reqDev

GetPlatformDisplay(t, n, useRef, reqDev) ==
  /\ pc[t] = "idle" /\ apiLock = NoThread /\ ~destroyed
  /\ ~crashed
  /\ IF \E s \in listed : Matches(s, n, useRef, reqDev)
     THEN \E s \in listed :
            /\ Matches(s, n, useRef, reqDev)
            /\ handles' = handles \cup {s}
            /\ faults' = faults \cup TouchFaults(s)
            /\ UNCHANGED <<mem, listed, disp, regVars>>
     ELSE \E s \in Slots, probe \in ProbeOutcomes[server], regOk, openOk \in BOOLEAN :
            /\ mem[s] = "unused"
            /\ IF /\ probe.result
                  /\ probe.isServerNV \/ PrimeRenderOffload \/ reqDev # NoDevice
                  /\ probe.hasProtocol
               THEN /\ Reg!GetInternalDisplay(NoDevice, regOk)
                    /\ IF NoDevice \in devList' /\ openOk
                       THEN /\ mem' = [mem EXCEPT ![s] = "live"]
                            /\ listed' = listed \cup {s}
                            /\ disp' = [disp EXCEPT ![s] = NewDisplay(n, useRef, reqDev)]
                            /\ handles' = handles \cup {s}
                       ELSE UNCHANGED <<mem, listed, disp, handles>>
               ELSE UNCHANGED <<mem, listed, disp, handles, regVars>>
            /\ UNCHANGED faults
  /\ UNCHANGED <<server, driver, mutex, apiLock, teardown, pc, cur, crashed,
                 destroyed, loaded>>

(* wlEglAcquireDisplay at the start of the hook h: under the API lock, a   *)
(* listed display gets ++refCount and the hook goes on; an unlisted one    *)
(* makes the hook return EGL_FALSE.  The MaxInitCount guards only bound    *)
(* the model: no initialization past the nested and driver counts, and no  *)
(* initialization or termination once lost updates have moved an entry's  *)
(* initCount that far.                                                     *)
AcquireDisplay(t, s, h) ==
  /\ pc[t] = "idle" /\ apiLock = NoThread /\ s \in handles
  /\ ~crashed
  /\ h = "ini_lock" => /\ disp[s].initCount < MaxInitCount
                       /\ \A k \in devList : eglInit[k] < MaxInitCount
  /\ h \in {"ini_lock", "term_lock"} =>
       \A k \in devList : devInitCount[k] \in -MaxInitCount..MaxInitCount
  /\ IF s \in listed
     THEN /\ disp' = [disp EXCEPT ![s].refCount = @ + 1]
          /\ faults' = faults \cup TouchFaults(s)
          /\ Goto(t, h) /\ cur' = [cur EXCEPT ![t] = s]
     ELSE UNCHANGED <<disp, faults, pc, cur>>
  /\ UNCHANGED <<server, driver, mem, listed, handles, mutex, apiLock,
                 teardown, crashed, destroyed, loaded, regVars>>

(* pthread_mutex_lock(&display->mutex), then the hook's body.              *)
LockNext == [p \in {"ini_lock", "term_lock", "q_lock"} |->
               CASE p = "ini_lock" -> "ini_body"
                 [] p = "term_lock" -> "term_body"
                 [] p = "q_lock" -> "q_body"]

LockDisplay(t) ==
  /\ pc[t] \in DOMAIN LockNext
  /\ ~crashed
  /\ mutex[cur[t]] = NoThread
  /\ mutex' = [mutex EXCEPT ![cur[t]] = t]
  /\ faults' = faults \cup TouchFaults(cur[t])
  /\ Goto(t, LockNext[pc[t]])
  /\ UNCHANGED <<server, driver, mem, listed, disp, handles, apiLock,
                 teardown, cur, crashed, destroyed, loaded, regVars>>

(* pthread_mutex_unlock(&display->mutex) at the end of every hook path.    *)
UnlockDisplay(t) ==
  /\ pc[t] = "unlock"
  /\ ~crashed
  /\ mutex' = [mutex EXCEPT ![cur[t]] = NoThread]
  /\ Goto(t, "release")
  /\ UNCHANGED <<server, driver, mem, listed, disp, handles, apiLock,
                 teardown, cur, faults, crashed, destroyed, loaded, regVars>>

(* wlEglReleaseDisplay / wlEglUnrefDisplay: under the API lock,            *)
(* --refCount, and at zero the mutex is destroyed, drmFd closed and the    *)
(* memory freed, whether or not the display is still listed.              *)
Unref(s) ==
  /\ disp' = [disp EXCEPT ![s].refCount = @ - 1]
  /\ mem' = IF disp[s].refCount - 1 = 0 THEN [mem EXCEPT ![s] = "freed"] ELSE mem
  /\ faults' = faults \cup TouchFaults(s)

ReleaseDisplay(t) ==
  /\ pc[t] = "release" /\ apiLock = NoThread
  /\ ~crashed
  /\ Unref(cur[t])
  /\ Goto(t, "idle") /\ cur' = [cur EXCEPT ![t] = NoSlot]
  /\ UNCHANGED <<server, driver, listed, handles, mutex, apiLock, teardown,
                 crashed, destroyed, loaded, regVars>>
-----------------------------------------------------------------------------
(* terminateDisplay(display, globalTeardown) applied to the contents d of  *)
(* the display in slot s; ok is the outcome of wlInternalTerminate.        *)
(* Unless this is a global teardown of a display on the application's     *)
(* connection, it destroys the format set and the feedback and releases   *)
(* the proxies: wlEglDestroyFormatSet frees the arrays but keeps the       *)
(* pointer and numFormats, and wlEglDestroyFeedback destroys the feedback  *)
(* proxy but keeps the pointer, so both are left dangling, and destroying  *)
(* them again frees freed storage.                                         *)
DestroysResources(d, global) == ~global \/ d.native = NoNative

Teardown(d, global) ==
  IF DestroysResources(d, global)
  THEN [d EXCEPT !.initCount = 0, !.bound = FALSE, !.syncobj = FALSE,
                 !.formatSet = IF @ = "empty" THEN "empty" ELSE "dangling",
                 !.feedback = IF @ = "none" THEN "none" ELSE "dangling"]
  ELSE [d EXCEPT !.initCount = 0]

TeardownFaults(s, d, global) ==
  IF DestroysResources(d, global) /\ "dangling" \in {d.formatSet, d.feedback}
  THEN {Fault("stale_free", s)} ELSE {}

(* Whether terminateDisplay reaches wlInternalTerminate.                   *)
ReachesInternalTerminate(d, global) ==
  d.initCount > 0 /\ (d.initCount = 1 \/ global)

(* terminateDisplay with the nested-initialization test written as        *)
(* "initCount != 1", so an uninitialized display is decremented too.       *)
BuggyTerminateRec(d, global, ok) ==
  CASE d.initCount # 1 /\ ~global -> [d EXCEPT !.initCount = @ - 1]
    [] ok \/ global -> Teardown(d, global)
    [] OTHER -> d

TerminateRec(d, global, ok) ==
  CASE d.initCount = 0 -> d
    [] d.initCount > 1 /\ ~global -> [d EXCEPT !.initCount = @ - 1]
    [] ok \/ global -> Teardown(d, global)
    [] OTHER -> d

TerminateFaults(s, d, global, ok) ==
  IF ReachesInternalTerminate(d, global) /\ (ok \/ global)
  THEN TeardownFaults(s, d, global) ELSE {}

-----------------------------------------------------------------------------
(* wlEglInitializeHook, under display->mutex.  An initialized display      *)
(* returns the cached version and, with useInitRefCount, counts one more   *)
(* initialization.  Otherwise wlInternalInitialize runs on display->devDpy *)
(* (a NULL devDpy crashes); if egl.initialize fails the hook returns.      *)
InitializeBody(t) ==
  LET s == cur[t]
      d == disp[s]
  IN /\ pc[t] = "ini_body"
     /\ ~crashed
     /\ \/ /\ d.initCount > 0
           /\ disp' = [disp EXCEPT ![s].initCount = IF d.useInitRefCount THEN @ + 1 ELSE @]
           /\ Goto(t, "unlock")
           /\ UNCHANGED <<crashed, destroyed, regVars>>
           /\ faults' = faults \cup TouchFaults(s)
        \/ /\ d.initCount = 0 /\ d.devDpy = NullPtr
           /\ crashed' = TRUE
           /\ faults' = faults \cup TouchFaults(s) \cup {Fault("null_devdpy", s)}
           /\ UNCHANGED <<disp, pc, regVars>>
        \/ /\ d.initCount = 0 /\ d.devDpy # NullPtr
           /\ \E ok \in BOOLEAN :
                /\ Reg!InitializeCheck(d.devDpy, ok)
                /\ Goto(t, IF ok THEN "ini_inc" ELSE "unlock")
           /\ faults' = faults \cup TouchFaults(s)
           /\ UNCHANGED <<disp, crashed>>
     /\ UNCHANGED <<server, driver, mem, listed, handles, mutex, apiLock,
                    teardown, cur, destroyed, loaded>>

(* The load of devDpy->initCount for ++ (ini_inc) or -- (term_dec).        *)
CountLoad(t, from, to) ==
  /\ pc[t] = from
  /\ ~crashed
  /\ loaded' = [loaded EXCEPT ![t] = devInitCount[disp[cur[t]].devDpy]]
  /\ Goto(t, to)
  /\ UNCHANGED <<server, driver, mem, listed, disp, handles, mutex, apiLock,
                 teardown, cur, faults, crashed, destroyed, regVars>>

(* The store of wlInternalInitialize's devDpy->initCount++.                *)
InitializeStore(t) ==
  /\ pc[t] = "ini_store"
  /\ ~crashed
  /\ Reg!InitializeStore(disp[cur[t]].devDpy, loaded[t])
  /\ loaded' = [loaded EXCEPT ![t] = 0]
  /\ Goto(t, "ini_bind")
  /\ UNCHANGED <<server, driver, mem, listed, disp, handles, mutex, apiLock,
                 teardown, cur, faults, crashed, destroyed>>

(* The rest of wlEglInitializeHook: after wlInternalInitialize,            *)
(* wlEglCheckDriverSyncSupport may set supports_explicit_sync (one of      *)
(* SyncProbeOutcomes), which stays set across terminate and               *)
(* re-initialization; then initCount = 1, the private queue                *)
(* and the registry round trip, in which registry_handle_global binds the  *)
(* compositor's globals (ServerProbe's RegistryBind; the syncobj manager   *)
(* only with both sync flags set).  The EGLStream display is used if one   *)
(* was bound, else zwp_linux_dmabuf_v1: a version 3 object's modifier      *)
(* events fill display->formatSet, and a protocol version of 4 opts into   *)
(* the default feedback.  The hook fails before the binding (queue,        *)
(* registry, first round trip) or after it (listener, second round trip,  *)
(* or neither protocol bound); either way it goes on, still holding the    *)
(* mutex, with terminateDisplay(display, EGL_FALSE) at initCount 1, which  *)
(* TerminateBody and the steps after it run.                               *)
Bound(d, b) ==
  [d EXCEPT !.initCount = 1, !.bound = Presentation(b),
            !.syncobj = b.wlDrmSyncobj > 0,
            !.feedback = IF UsesDmaBuf(b) /\ b.dmaBufProtocolVersion >= 4 THEN "live" ELSE @,
            !.formatSet = IF UsesDmaBuf(b) /\ b.dmaBufBound = 3 THEN "filled" ELSE @]

BindFaults(s, d, b) ==
  IF UsesDmaBuf(b) /\ b.dmaBufBound = 3 /\ d.formatSet = "dangling"
  THEN {Fault("stale_free", s)} ELSE {}

InitializeBind(t) ==
  LET s == cur[t]
  IN /\ pc[t] = "ini_bind"
     /\ ~crashed
     /\ \E explicitSync \in SyncProbeOutcomes[driver, disp[s].explicitSync] :
        LET d == [disp[s] EXCEPT !.explicitSync = explicitSync]
            b == Bindings[server, NativeFenceSync(driver) /\ d.explicitSync]
        IN \/ /\ Presentation(b)
              /\ disp' = [disp EXCEPT ![s] = Bound(d, b)]
              /\ faults' = faults \cup BindFaults(s, d, b)
              /\ Goto(t, "unlock")
           \/ /\ disp' = [disp EXCEPT ![s] = [d EXCEPT !.initCount = 1]]
              /\ Goto(t, "term_body")
              /\ UNCHANGED faults
           \/ /\ disp' = [disp EXCEPT ![s] = Bound(d, b)]
              /\ faults' = faults \cup BindFaults(s, d, b)
              /\ Goto(t, "term_body")
     /\ UNCHANGED <<server, driver, mem, listed, handles, mutex, apiLock,
                    teardown, cur, crashed, destroyed, loaded, regVars>>
-----------------------------------------------------------------------------
(* wlEglTerminateHook: terminateDisplay(display, EGL_FALSE) under the      *)
(* mutex.  At initCount 1 it runs wlInternalTerminate, whose test (and the *)
(* driver's eglTerminate when the entry's count is 1) is one step; its     *)
(* load and store of the decrement follow when the tested count was        *)
(* positive, and a count of 0 or less skips them.  A failing eglTerminate  *)
(* returns with the display as it was.                                     *)
TerminateBody(t) ==
  LET s == cur[t]
      d == disp[s]
      k == d.devDpy
  IN /\ pc[t] = "term_body"
     /\ ~crashed
     /\ \/ /\ d.initCount # 1
           /\ disp' = [disp EXCEPT ![s] = TerminateRec(d, FALSE, TRUE)]
           /\ faults' = faults \cup TouchFaults(s)
           /\ Goto(t, "unlock")
           /\ UNCHANGED regVars
        \/ /\ d.initCount = 1
           /\ \E ok \in BOOLEAN :
                /\ Reg!TerminateCheck(k, ok)
                /\ LET skipsDecrement == ok /\ ~Reg!TerminateDecrements(k, ok)
                   IN /\ disp' = IF skipsDecrement
                                 THEN [disp EXCEPT ![s] = Teardown(d, FALSE)]
                                 ELSE disp
                      /\ faults' = faults \cup TouchFaults(s) \cup
                                   IF skipsDecrement
                                   THEN TeardownFaults(s, d, FALSE) ELSE {}
                      /\ Goto(t, IF Reg!TerminateDecrements(k, ok) THEN "term_dec"
                                                                  ELSE "unlock")
     /\ UNCHANGED <<server, driver, mem, listed, handles, mutex, apiLock,
                    teardown, cur, crashed, destroyed, loaded>>

(* wlEglDestroyAllDisplays' work on display s after terminateDisplay has   *)
(* left its contents d: devDpy = NULL, unlock, unlink it and drop one      *)
(* reference (freeing it at zero).                                         *)
UnlinkDisplay(s, d) ==
  /\ disp' = [disp EXCEPT ![s] = [d EXCEPT !.devDpy = NullPtr, !.refCount = @ - 1]]
  /\ mem' = IF d.refCount - 1 = 0 THEN [mem EXCEPT ![s] = "freed"] ELSE mem
  /\ listed' = listed \ {s}
  /\ teardown' = teardown \ {s}

(* The store of wlInternalTerminate's devDpy->initCount--, then the rest   *)
(* of terminateDisplay: back to the hook's unlock, or, in                  *)
(* wlEglDestroyAllDisplays (the thread holds the API lock), the global     *)
(* teardown and the unlinking of the display.                              *)
TerminateStore(t) ==
  LET s == cur[t]
      d == disp[s]
  IN /\ pc[t] = "term_store"
     /\ ~crashed
     /\ Reg!TerminateStore(d.devDpy, loaded[t])
     /\ loaded' = [loaded EXCEPT ![t] = 0]
     /\ \/ /\ apiLock # t
           /\ disp' = [disp EXCEPT ![s] = Teardown(d, FALSE)]
           /\ faults' = faults \cup TeardownFaults(s, d, FALSE)
           /\ Goto(t, "unlock")
           /\ UNCHANGED <<mem, listed, teardown, mutex, cur>>
        \/ /\ apiLock = t
           /\ UnlinkDisplay(s, Teardown(d, TRUE))
           /\ faults' = faults \cup TeardownFaults(s, d, TRUE)
           /\ mutex' = [mutex EXCEPT ![s] = NoThread]
           /\ cur' = [cur EXCEPT ![t] = NoSlot]
           /\ Goto(t, "da_loop")
     /\ UNCHANGED <<server, driver, handles, apiLock, crashed, destroyed>>

(* The query hook with its EGL_NOT_INITIALIZED return missing the unlock. *)
BuggyQueryBody(t) ==
  LET s == cur[t]
  IN /\ pc[t] = "q_body"
     /\ ~crashed
     /\ crashed' = (disp[s].initCount > 0 /\ disp[s].devDpy = NullPtr)
     /\ faults' = faults \cup TouchFaults(s)
     /\ Goto(t, IF disp[s].initCount = 0 THEN "release" ELSE "unlock")
     /\ UNCHANGED <<server, driver, mem, listed, disp, handles, mutex, apiLock,
                    teardown, cur, destroyed, loaded, regVars>>

(* wlEglQueryDisplayAttribHook: EGL_BAD_PARAMETER when the application     *)
(* passes value == NULL, then EGL_NOT_INITIALIZED when initCount is 0;     *)
(* otherwise EGL_DEVICE_EXT reads display->devDpy->eglDevice, any other   *)
(* attribute but EGL_TRACK_REFERENCES_KHR is passed on with                *)
(* display->devDpy->eglDisplay, and EGL_TRACK_REFERENCES_KHR reads only    *)
(* useInitRefCount.                                                         *)
QueryBody(t) ==
  LET s == cur[t]
  IN /\ pc[t] = "q_body"
     /\ ~crashed
     /\ \E valueNull \in BOOLEAN, name \in {"device", "track_references", "other"} :
          crashed' = /\ ~valueNull /\ disp[s].initCount > 0
                     /\ name # "track_references" /\ disp[s].devDpy = NullPtr
     /\ faults' = faults \cup TouchFaults(s)
     /\ Goto(t, "unlock")
     /\ UNCHANGED <<server, driver, mem, listed, disp, handles, mutex, apiLock,
                    teardown, cur, destroyed, loaded, regVars>>

(* wlEglChooseConfigHook and wlEglGetConfigAttribHook: neither acquires   *)
(* the display nor takes its mutex; each reads display->data and           *)
(* display->devDpy->eglDisplay, then calls the driver (ConfigHooks models  *)
(* what they do to the attributes).  Any thread outside the other hooks    *)
(* may call them while the platform is loaded; which one does not change   *)
(* the outcome.                                                            *)
ConfigHook(s) ==
  /\ \E t \in Threads : pc[t] = "idle"
  /\ ~destroyed
  /\ s \in handles
  /\ ~crashed
  /\ crashed' = (disp[s].devDpy = NullPtr)
  /\ faults' = faults \cup TouchFaults(s)
               \cup IF disp[s].devDpy = NullPtr THEN {Fault("null_devdpy", s)} ELSE {}
  /\ UNCHANGED <<server, driver, mem, listed, disp, handles, mutex, apiLock,
                 teardown, pc, cur, destroyed, loaded, regVars>>

-----------------------------------------------------------------------------
(* wlEglDestroyAllDisplays: take the API lock for the whole run, then for  *)
(* each listed display, under its mutex: terminateDisplay(display,         *)
(* EGL_TRUE), disconnect an owned connection, devDpy = NULL; then unlink   *)
(* it and drop one reference.  Last, wlFreeAllInternalDisplays.            *)
DestroyAllBegin(t) ==
  /\ pc[t] = "idle" /\ apiLock = NoThread /\ ~destroyed
  /\ ~crashed
  /\ apiLock' = t
  /\ teardown' = listed
  /\ Goto(t, "da_loop")
  /\ UNCHANGED <<server, driver, mem, listed, disp, handles, mutex, cur,
                 faults, crashed, destroyed, loaded, regVars>>

(* One display: terminateDisplay(display, EGL_TRUE) reaches                *)
(* wlInternalTerminate whenever initCount > 0, and goes on with the        *)
(* teardown whatever it returns.  When wlInternalTerminate decrements, the *)
(* thread keeps the display's mutex for the load and store (TerminateStore *)
(* finishes the display); otherwise the display is finished here.          *)
DestroyAllDisplay(t, s) ==
  LET d == disp[s]
      k == d.devDpy
  IN /\ pc[t] = "da_loop" /\ s \in teardown /\ mutex[s] = NoThread
     /\ ~crashed
     /\ \/ /\ ~ReachesInternalTerminate(d, TRUE)
           /\ UnlinkDisplay(s, d)
           /\ faults' = faults \cup TouchFaults(s)
           /\ UNCHANGED <<mutex, pc, cur, regVars>>
        \/ /\ ReachesInternalTerminate(d, TRUE)
           /\ \E ok \in BOOLEAN :
                /\ Reg!TerminateCheck(k, ok)
                /\ IF Reg!TerminateDecrements(k, ok)
                   THEN /\ mutex' = [mutex EXCEPT ![s] = t]
                        /\ cur' = [cur EXCEPT ![t] = s]
                        /\ Goto(t, "term_dec")
                        /\ faults' = faults \cup TouchFaults(s)
                        /\ UNCHANGED <<disp, mem, listed, teardown>>
                   ELSE /\ UnlinkDisplay(s, TerminateRec(d, TRUE, ok))
                        /\ faults' = faults \cup TouchFaults(s)
                                     \cup TerminateFaults(s, d, TRUE, ok)
                        /\ UNCHANGED <<mutex, pc, cur>>
     /\ UNCHANGED <<server, driver, handles, apiLock, crashed, destroyed, loaded>>

DestroyAllEnd(t) ==
  /\ pc[t] = "da_loop" /\ teardown = {}
  /\ ~crashed
  /\ Reg!FreeAllInternalDisplays
  /\ apiLock' = NoThread
  /\ destroyed' = TRUE
  /\ Goto(t, "idle")
  /\ UNCHANGED <<server, driver, mem, listed, disp, handles, mutex, teardown,
                 cur, faults, crashed, loaded>>

-----------------------------------------------------------------------------
(* A crashed process takes no more steps; after wlEglDestroyAllDisplays    *)
(* has finished, with every thread out of the hooks, the platform is gone  *)
(* and the run is over.                                                     *)
Halted ==
  /\ crashed \/ (destroyed /\ \A t \in Threads : pc[t] = "idle")
  /\ UNCHANGED vars

Hooks == {"ini_lock", "term_lock", "q_lock"}

(* The steps of thread t once it has started an operation.                 *)
Busy(t) ==
  \/ LockDisplay(t) \/ InitializeBody(t) \/ CountLoad(t, "ini_inc", "ini_store")
  \/ InitializeStore(t) \/ InitializeBind(t) \/ TerminateBody(t)
  \/ CountLoad(t, "term_dec", "term_store") \/ TerminateStore(t)
  \/ QueryBody(t) \/ UnlockDisplay(t) \/ ReleaseDisplay(t)
  \/ \E s \in Slots : DestroyAllDisplay(t, s)
  \/ DestroyAllEnd(t)

Next ==
  \/ \E t \in Threads, n \in NativeDpys \cup {NoNative}, useRef \in BOOLEAN,
       reqDev \in Keys : GetPlatformDisplay(t, n, useRef, reqDev)
  \/ \E t \in Threads, s \in Slots, h \in Hooks : AcquireDisplay(t, s, h)
  \/ \E t \in Threads : LockDisplay(t)
  \/ \E t \in Threads : InitializeBody(t)
  \/ \E t \in Threads : CountLoad(t, "ini_inc", "ini_store")
  \/ \E t \in Threads : InitializeStore(t)
  \/ \E t \in Threads : InitializeBind(t)
  \/ \E t \in Threads : TerminateBody(t)
  \/ \E t \in Threads : CountLoad(t, "term_dec", "term_store")
  \/ \E t \in Threads : TerminateStore(t)
  \/ \E t \in Threads : QueryBody(t)
  \/ \E t \in Threads : UnlockDisplay(t)
  \/ \E t \in Threads : ReleaseDisplay(t)
  \/ \E s \in handles : ConfigHook(s)
  \/ \E t \in Threads : DestroyAllBegin(t)
  \/ \E t \in Threads, s \in Slots : DestroyAllDisplay(t, s)
  \/ \E t \in Threads : DestroyAllEnd(t)
  \/ Halted

(* The hooks run to completion once started: no step of a started hook    *)
(* waits on anything but a lock, so weak fairness per thread suffices.    *)
Fairness == \A t \in Threads : WF_vars(Busy(t))

Spec == Init /\ [][Next]_vars /\ Fairness
-----------------------------------------------------------------------------
(* Properties.                                                             *)

(* Every display mutex a hook takes is eventually released (unless the     *)
(* process crashed): no return path of the hooks leaves it locked.        *)
LockEventuallyReleased ==
  \A t \in Threads, s \in Slots :
    (mutex[s] = t) ~> (mutex[s] # t \/ crashed)

(* A display that holds an initialization of its device entry: its        *)
(* initCount is positive, or its initialization has passed                 *)
(* wlInternalInitialize (freed memory keeps what nobody terminated).       *)
HoldsDevice(s, k) ==
  /\ mem[s] # "unused" /\ disp[s].devDpy = k
  /\ \/ disp[s].initCount > 0
     \/ \E t \in Threads : cur[t] = s /\ pc[t] = "ini_bind"

(* The driver's display of a device entry is initialized exactly once     *)
(* while some display holds an initialization of the entry, and not at    *)
(* all when none does, whenever no thread is between wlInternalInitialize's *)
(* or wlInternalTerminate's test and the store of its ++ or --: the entry's *)
(* initCount, shared by displays under different mutexes, makes the first *)
(* initialization call eglInitialize and the last termination call         *)
(* eglTerminate (spec: one native terminate however many nested            *)
(* initializations).                                                       *)
DriverInitMatchesDisplays ==
  (\A t \in Threads : pc[t] \notin CountUpdatePCs) =>
    \A k \in devList :
      eglInit[k] = IF \E s \in Slots : HoldsDevice(s, k) THEN 1 ELSE 0

(* A display still linked in wlEglDisplayList has not been freed by        *)
(* wlEglUnrefDisplay: the list holds a reference.                          *)
ListedNotFreed == \A s \in listed : mem[s] # "freed"

(* A listed display that eglInitialize reported initialized (initCount > 0 *)
(* outside an initialization or termination in progress) has a            *)
(* presentation protocol bound, as wlEglInitializeHook requires before    *)
(* returning EGL_TRUE.                                                     *)
InitializedHasProtocol ==
  \A s \in listed :
    (/\ mem[s] = "live" /\ disp[s].initCount > 0
     /\ ~\E t \in Threads :
          cur[t] = s /\ pc[t] \in {"ini_bind", "term_body", "term_dec", "term_store"})
    => disp[s].bound

(* No teardown or re-initialization frees or writes storage that an       *)
(* earlier terminateDisplay already freed (format set, feedback proxy).    *)
NoStaleStorageUse == \A f \in faults : f.kind # "stale_free"

(* No hook dereferences the NULL devDpy that wlEglDestroyAllDisplays       *)
(* leaves in a display another thread has acquired.                        *)
NoNullDevDpy == ~crashed

(* Whenever the application holds a display, the config hooks it may call  *)
(* on it agree: wlEglChooseConfigHook's rewriting of EGL_SURFACE_TYPE and   *)
(* wlEglGetConfigAttribHook's reporting of it make the driver return a     *)
(* config exactly when the surface type the application reads back for it  *)
(* satisfies the request under EGL's rules (ConfigHooks).                  *)
ConfigSelectionConsistent == handles # {} => HooksAgree

(* Whenever a display has been created on getServerProtocolsInfo's word    *)
(* that the compositor has a presentation protocol, wlEglInitializeHook's  *)
(* registry_handle_global binds one, and conversely, for every             *)
(* announcement of up to MaxGlobals globals (ServerProbe).                  *)
ProbeMatchesBind == handles # {} => ProbeAgreesWithBind

(* Whenever a display exists, its initialization asks for the default      *)
(* dma-buf feedback only of a zwp_linux_dmabuf_v1 proxy bound at version 4: *)
(* the version registry_handle_global binds and the dmaBufProtocolVersion  *)
(* it records agree, even when the global is announced more than once.     *)
FeedbackRequestedOfV4 == handles # {} => FeedbackOnlyOnV4

(* A display created with EGL_DEVICE_EXT is bound to the device entry of   *)
(* that device.                                                             *)
DisplayOnRequestedDevice ==
  \A s \in listed :
    disp[s].requestedDevice # NoDevice => disp[s].devDpy = disp[s].requestedDevice
=============================================================================
