--------------------------- MODULE DeviceRegistry ---------------------------
(***************************************************************************)
(* The per-platform list of internal device displays (WlEglDeviceDpy) of   *)
(* wayland-egldevice.c, and the driver's own state of the EGLDisplay each  *)
(* entry wraps.                                                            *)
(*                                                                         *)
(* An entry is keyed by its EGLDeviceEXT.  Its initCount counts the        *)
(* WlEglDisplays that initialized it; the driver display is initialized    *)
(* by the first wlInternalInitialize and terminated by the last            *)
(* wlInternalTerminate.  When the driver supports EGL_KHR_display_reference *)
(* the entry's display is created with EGL_TRACK_REFERENCES_KHR, so the    *)
(* driver itself counts eglInitialize calls; otherwise eglInitialize is    *)
(* idempotent and one eglTerminate ends it.                                *)
(*                                                                         *)
(* wlInternalInitialize tests initCount and increments it in two separate  *)
(* statements, and the increment is itself a load and a store; the         *)
(* composing module runs the test (InitializeCheck), the load and the      *)
(* store (InitializeStore) as three steps so that callers holding          *)
(* different locks can interleave between them.  The same holds for       *)
(* wlInternalTerminate (TerminateCheck, TerminateStore).                   *)
(***************************************************************************)
EXTENDS Integers

CONSTANTS
  Devices,          \* device handles an entry can be keyed by (NULL included)
  TrackReferences,  \* data->supportsDisplayReference
  TerminateMayFail  \* whether the driver's eglTerminate can return EGL_FALSE

ASSUME TrackReferences \in BOOLEAN /\ TerminateMayFail \in BOOLEAN

VARIABLES
  devList,       \* devices that have an entry in data->deviceDpyList
  devInitCount,  \* devDpy->initCount of each entry
  eglInit        \* the driver's initialization count of the entry's EGLDisplay

regVars == <<devList, devInitCount, eglInit>>

RegistryTypeOK ==
  /\ devList \subseteq Devices
  /\ devInitCount \in [Devices -> Int]
  /\ eglInit \in [Devices -> Nat]

RegistryInit ==
  /\ devList = {}
  /\ devInitCount = [k \in Devices |-> 0]
  /\ eglInit = [k \in Devices |-> 0]

(* data->egl.initialize / data->egl.terminate on the entry's EGLDisplay.   *)
DriverInitialize(k) ==
  eglInit' = [eglInit EXCEPT ![k] = IF TrackReferences THEN @ + 1 ELSE 1]

DriverTerminate(k) ==
  eglInit' = [eglInit EXCEPT ![k] = IF TrackReferences /\ @ > 0 THEN @ - 1 ELSE 0]

(* wlGetInternalDisplay: return the entry for device k, or create one.     *)
(* ok is the joint outcome of getPlatformDisplay, the two                  *)
(* queryDeviceString calls and the two stat calls; any failure frees the   *)
(* new entry and returns NULL.  The caller reads the result as k \in       *)
(* devList'.  A new entry starts with initCount 0 (calloc), whatever the   *)
(* driver's state of the (re-used) EGLDisplay of that device.              *)
GetInternalDisplay(k, ok) ==
  \/ /\ k \in devList
     /\ UNCHANGED regVars
  \/ /\ k \notin devList
     /\ ok
     /\ devList' = devList \cup {k}
     /\ devInitCount' = [devInitCount EXCEPT ![k] = 0]
     /\ UNCHANGED eglInit
  \/ /\ k \notin devList
     /\ ~ok
     /\ UNCHANGED regVars

(* wlInternalInitialize, first statement: if initCount is 0, initialize    *)
(* the driver display and cache its extensions; ok = FALSE when            *)
(* egl.initialize fails, and the function returns EGL_FALSE.               *)
InitializeCheck(k, ok) ==
  \/ /\ devInitCount[k] # 0
     /\ ok
     /\ UNCHANGED regVars
  \/ /\ devInitCount[k] = 0
     /\ ok
     /\ DriverInitialize(k)
     /\ UNCHANGED <<devList, devInitCount>>
  \/ /\ devInitCount[k] = 0
     /\ ~ok
     /\ UNCHANGED regVars

(* wlInternalInitialize's devDpy->initCount++ is a load and a store; the  *)
(* entry is shared by displays under different mutexes, so another thread  *)
(* can write the count between the two, and the store then writes back     *)
(* the value v its load read, plus one.                                    *)
InitializeStore(k, v) ==
  /\ devInitCount' = [devInitCount EXCEPT ![k] = v + 1]
  /\ UNCHANGED <<devList, eglInit>>

(* wlInternalTerminate up to the decrement: when the count is 1, terminate *)
(* the driver display; ok = FALSE when egl.terminate fails, and the        *)
(* function returns EGL_FALSE with the count unchanged.                    *)
TerminateCheck(k, ok) ==
  \/ /\ devInitCount[k] # 1
     /\ ok
     /\ UNCHANGED regVars
  \/ /\ devInitCount[k] = 1
     /\ ok
     /\ DriverTerminate(k)
     /\ UNCHANGED <<devList, devInitCount>>
  \/ /\ devInitCount[k] = 1
     /\ ~ok
     /\ TerminateMayFail
     /\ UNCHANGED regVars

(* Whether wlInternalTerminate goes on to the decrement after its test:    *)
(* the count it tested was positive and egl.terminate did not fail.        *)
TerminateDecrements(k, ok) == ok /\ devInitCount[k] > 0

(* The store of wlInternalTerminate's devDpy->initCount--, of the value v  *)
(* its load read, minus one.                                               *)
TerminateStore(k, v) ==
  /\ devInitCount' = [devInitCount EXCEPT ![k] = v - 1]
  /\ UNCHANGED <<devList, eglInit>>

(* wlFreeAllInternalDisplays: every entry still initialized gets one       *)
(* egl.terminate, whose result is ignored (those in failed keep the driver *)
(* display initialized), and every entry is removed and freed.             *)
FreeAllInternalDisplays ==
  \E failed \in SUBSET devList :
    /\ TerminateMayFail \/ failed = {}
    /\ eglInit' = [k \in Devices |->
                    IF k \in devList /\ devInitCount[k] > 0 /\ k \notin failed
                    THEN (IF TrackReferences /\ eglInit[k] > 0 THEN eglInit[k] - 1 ELSE 0)
                    ELSE eglInit[k]]
    /\ devList' = {}
    /\ devInitCount' = [k \in Devices |-> 0]

=============================================================================
