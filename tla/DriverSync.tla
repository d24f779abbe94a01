----------------------------- MODULE DriverSync ------------------------------
(***************************************************************************)
(* What wlEglInitializeHook learns of the driver's synchronization support *)
(* before it binds the compositor's globals: whether the device display's  *)
(* extension string has EGL_ANDROID_native_fence_sync, and whether         *)
(* wlEglCheckDriverSyncSupport finds the driver new enough for explicit    *)
(* sync.  The probe exports a dummy DRM syncobj as a sync file and asks    *)
(* the driver for an EGLSync on it with EGL_SYNC_STATUS = EGL_SIGNALED: a  *)
(* driver with explicit sync support rejects that with EGL_BAD_ATTRIBUTE,  *)
(* an older one creates the sync.                                          *)
(*                                                                         *)
(* A driver is a record: nativeFence (the extension), and explicitSync     *)
(* (the support the probe is after).  The probe's calls can also fail for  *)
(* other reasons, which the operators take as arguments.                   *)
(***************************************************************************)
EXTENDS Naturals

Drivers == [nativeFence : BOOLEAN, explicitSync : BOOLEAN]

(* What egl.createSync can do with the probe's attributes: create the      *)
(* sync, or fail with EGL_BAD_ATTRIBUTE (only a driver with explicit sync  *)
(* support) or with another error (any driver, e.g. out of memory).  That  *)
(* an older driver never answers EGL_BAD_ATTRIBUTE is an assumption about  *)
(* the driver, which the probe's inference rests on.                       *)
CreateSyncResults(drv) ==
  IF drv.explicitSync THEN {"bad_attribute", "other_error"}
                      ELSE {"created", "other_error"}

(* supports_native_fence_sync: every initialization sets it from the       *)
(* device display's extension string before anything reads it, and        *)
(* nothing clears it, so wherever it is read it is the driver's.           *)
NativeFenceSync(drv) == drv.nativeFence

(* wlEglCheckDriverSyncSupport: the new supports_explicit_sync, from the   *)
(* old one, supports_native_fence_sync, __NV_DISABLE_EXPLICIT_SYNC=1       *)
(* (disabled), drmSyncobjCreate (createOk), drmSyncobjHandleToFD (toFdOk)  *)
(* and egl.createSync's result.  It returns early, leaving the flag as it  *)
(* is, unless every step succeeds; it only ever sets the flag.             *)
CheckDriverSyncSupport(explicitSync, fenceSync, disabled, createOk, toFdOk, result) ==
  IF disabled \/ ~fenceSync \/ ~createOk \/ ~toFdOk
  THEN explicitSync
  ELSE explicitSync \/ result = "bad_attribute"
=============================================================================
