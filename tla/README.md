# TLA+ models of egl-wayland's display and dma-buf feedback core

This directory holds TLA+ models of the client-side core of egl-wayland as it
is in `src/src/wayland-egldisplay.c` and `src/src/wayland-egldevice.c`, the TLC
configurations that check them, and `PROJECT.json`, which maps every model
definition to the source lines it translates and lists the runs, mutants,
findings and hazards.

## 1. Inventory

### Components

| Component | Source | State it keeps | Operations |
|---|---|---|---|
| Device registry | `wayland-egldevice.c` | per platform data, the list `deviceDpyList` of `WlEglDeviceDpy` (device handle, driver `EGLDisplay`, `initCount`, cached extension flags, `dev`/`renderNode` ids) | `wlGetInternalDisplay` (lookup or create), `wlInternalInitialize`, `wlInternalTerminate`, `wlFreeAllInternalDisplays` |
| Display directory and display handle | `wayland-egldisplay.c` 793-869, 1033-1227, 1283-1456, 1563-1637 | the global list `wlEglDisplayList`; per `WlEglDisplay`: `refCount`, `initCount`, `useInitRefCount`, `ownNativeDpy`, `devDpy`, bound protocol proxies, `formatSet`, `defaultFeedback`, `mutex` | `wlEglGetPlatformDisplayExport`, `wlEglInitializeHook`, `wlEglTerminateHook`, `terminateDisplay`, `wlEglAcquireDisplay`, `wlEglReleaseDisplay`, `wlEglQueryDisplayAttribHook`, `wlEglDestroyAllDisplays` |
| Format/modifier set | 166-267 | `WlEglDmaBufFormatSet`: array of (format, modifier array) | `wlEglFormatSetAdd`, `wlEglDmaBufFormatAddModifier`, `wlEglDestroyFormatSet`; fed by `dmabuf_handle_modifier` (281-293) |
| dma-buf feedback state machine | 176-212, 300-474 | `WlEglDmaBufFeedback`: mapped `formatTable`, `tranches`, `tmpTranche`, `mainDev`, `feedbackDone`, `unprocessedFeedback`, proxy | the seven `dmabuf_feedback_*` listeners, `wlEglFeedbackResetTranches`, `wlEglDestroyFeedback`, `WlEglRegisterFeedback` |
| Server protocol probe | 561-724, 871-1031 | `WlServerProtocols` (has stream / dma-buf, `devId`, `drm_name`) | `getServerProtocolsInfo`, `registry_handle_global_check_protocols`, `wl_drm_device`, `dmabuf_feedback_check_*`, `checkNvidiaDrmDevice` |
| Registry binding at initialize | 476-559, 726-775 | the display's proxies, `caps`, `dmaBufProtocolVersion` | `registry_handle_global`, `eglstream_display_handle_caps`, `eglstream_display_handle_swapinterval_override` |
| Config translation | 1458-1561 | none (pure) | `wlEglChooseConfigHook`, `wlEglGetConfigAttribHook` |
| Extension strings | 1639-1703 | none (pure; not modelled, see section 7) | `wlEglQueryStringExport` |
| Explicit-sync probe | 1228-1281 | `supports_explicit_sync` | `wlEglCheckDriverSyncSupport` |
| Bind/unbind hooks, display detection | 62-163 | server-side `wl_eglstream_display` (code not in `src/`) | `wlEglBindDisplaysHook`, `wlEglUnbindDisplaysHook`, `wlEglIsWaylandDisplay` |

### How they interact

* The application's threads enter through the EGL hooks. `wlEglAcquireDisplay`
  and `wlEglReleaseDisplay` take the process-wide API lock
  (`wlExternalApiLock`) only to validate the handle against the directory and
  change `refCount`; the hook body runs under the display's own `mutex`.
  `wlEglGetPlatformDisplayExport` and `wlEglDestroyAllDisplays` hold the API
  lock for their whole run; the latter also takes each display's mutex while
  holding it (lock order: API lock, then display mutex).
* Every display is bound to a device-registry entry (`devDpy`). The entry is
  shared by all displays on the same device, but `wlInternalInitialize` and
  `wlInternalTerminate` are called under the *display's* mutex, not the API
  lock, so two displays on one device update `devDpy->initCount` concurrently.
  In this fork the device handle passed to `wlGetInternalDisplay` is the local
  `eglDevice`, which is never assigned (line 1180), so every display shares
  the entry for the NULL device.
* The compositor is an untrusted peer. Its events (registry globals, dma-buf
  modifiers, feedback events) are dispatched synchronously inside
  `wl_display_roundtrip_queue` calls made by the hooks; the feedback handlers
  update the display's `defaultFeedback`, the modifier handler its `formatSet`.
* `terminateDisplay` tears down the format set, the feedback (including the
  mapped format table) and the proxies; a later `wlEglInitializeHook` on the
  same `WlEglDisplay` re-uses those structures.

### What is hard here

* Concurrency: hooks on different displays run in parallel and share the
  device entry; `wlEglDestroyAllDisplays` runs while other threads are inside
  hooks holding references.
* Reference counting: two counters (`refCount` frees memory, `initCount`
  frees driver resources) with different rules; a display is created with
  `refCount` 0 (calloc, lines 1103-1113) although its directory entry is
  meant to hold a reference, which `wlEglDestroyAllDisplays` drops (1628).
* Partial failure: `wlEglInitializeHook` sets `initCount = 1` speculatively
  and unwinds through `terminateDisplay`, which itself can fail.
* Untrusted, reordered or partial peer input: the feedback state machine
  resets lazily on the first event of a new batch and frees `tmpTranche`'s
  storage without clearing it; format tables are re-sent and re-mapped.
* Re-initialization: destroy routines free storage but leave counters and
  pointers behind (`wlEglDestroyFormatSet`, `wlEglDestroyFeedback`).

### Properties that make each component correct

* Device registry: the driver display is initialized once while some display
  on the entry holds an initialization, and not at all otherwise (the spec:
  one native terminate per device display).
* Display: a display listed in the directory is never freed; `refCount` never
  goes below zero; a display reported initialized has a presentation protocol
  bound; no hook dereferences a NULL `devDpy`; every mutex taken is released
  (progress); no deadlock; one display per (connection, flags, device) key;
  a display lives on the device it asked for.
* Format set: formats unique, modifiers unique per format, adding a pair
  yields exactly the old pairs plus that pair (when allocation succeeds) and
  never loses a pair.
* Feedback: when a batch is complete the committed tranches are exactly the
  compositor's tranches of that batch (device, scanout flag, formats looked up
  in the current table); no freed storage is used; at most one format-table
  mapping is held.

## 2. Plan

Modules, in the order they are built (most important behaviour first):

1. `DeviceRegistry` - `wayland-egldevice.c`: entries keyed by device, their
   `initCount` and the driver's own display state; the test of
   `wlInternalInitialize` and `wlInternalTerminate` and the store of
   `initCount++`/`--` are separate steps, with the load between them a step of
   the caller, so that concurrent callers can interleave between them.
2. `WlEglDisplay` - the directory and display handles, composing
   `DeviceRegistry` by `INSTANCE`. Application threads with program counters
   run `GetPlatformDisplay`, `InitializeHook`, `TerminateHook`,
   `QueryDisplayAttribHook` and `DestroyAllDisplays` step by step, with the API
   lock and the per-display mutexes. Memory of a display is a slot that is
   allocated, listed and freed; a use of a freed slot is recorded as a fault
   and the model continues with the freed memory still holding its contents
   (the common outcome of the undefined behaviour). `MCWlEglDisplay` binds the
   constants.
3. `FormatSet` - `wlEglFormatSetAdd` and `wlEglDmaBufFormatAddModifier` as
   operators over sequences, with the `realloc` outcomes as arguments.
   `DmaBufModifierEvents` drives it with `dmabuf_handle_modifier` events.
4. `DmaBufFeedback` - the feedback listeners as actions driven by an
   arbitrary (untrusted) peer, plus destroy and re-bind; uses `FormatSet`.
5. `FeedbackSession` - composes `DmaBufFeedback` with a compositor that obeys
   the linux-dmabuf v4 feedback protocol and records the batches it sent; the
   abstract view (the last complete batch) is what the client's snapshot must
   equal.

6. `ServerProbe` - the server protocol probe (`getServerProtocolsInfo` with
   the wl_drm and feedback paths, `checkNvidiaDrmDevice`) and the registry
   binding of `wlEglInitializeHook` (`registry_handle_global`), as pure
   operators of a compositor record (its globals in order, its DRM node, its
   main device). `WlEglDisplay` takes `GetPlatformDisplay`'s and
   `InitializeBind`'s outcomes from them.
7. `ConfigHooks` - the attribute rewriting of `wlEglChooseConfigHook` and
   `wlEglGetConfigAttribHook`, checked against EGL's selection rule.
8. `BestEffortSet` - the abstract specification the format set refines.
9. `DriverSync` - `wlEglCheckDriverSyncSupport` and the native-fence flag,
   as operators of the driver and of the probe's call outcomes;
   `InitializeBind` sets the display's sticky `supports_explicit_sync` from
   them before the registry round trip.

Still open: the display's `formatSet` fed by `dmabuf_handle_modifier` inside
`WlEglDisplay` (today it is only "filled" or not there); an abstract
"reference-counted handle" specification refined by `WlEglDisplay` (its
refinement would fail today because of the `refCount` bug); the
`unprocessedFeedback` hand-off.

## 3. Modules

| Module | Models | State | Actions |
|---|---|---|---|
| `DeviceRegistry` | `wayland-egldevice.c` | `devList`, `devInitCount`, `eglInit` (driver's count of the entry's `EGLDisplay`) | `GetInternalDisplay`, `InitializeCheck`/`InitializeStore`, `TerminateCheck`/`TerminateStore` (`TerminateDecrements` is the test between them), `FreeAllInternalDisplays` |
| `WlEglDisplay` | directory, hooks, `terminateDisplay`, `wlEglDestroyAllDisplays` | `mem`, `listed`, `disp` (the display fields that matter), `handles`, `mutex`, `apiLock`, per-thread `pc`/`cur`/`loaded` (the value of `initCount` a thread has read and will store back, changed by one), `faults`, `crashed`, `destroyed`, `server`; the registry by `INSTANCE ... WITH Devices <- Keys` | `GetPlatformDisplay`, `AcquireDisplay`, `LockDisplay`, `InitializeBody`, `CountLoad`, `InitializeStore`, `InitializeBind` (its failure path continues at `TerminateBody` under the same mutex), `TerminateBody`, `TerminateStore`, `QueryBody`, `UnlockDisplay`, `ReleaseDisplay`, `DestroyAllBegin`/`DestroyAllDisplay`/`DestroyAllEnd`, `ConfigHook` (either config hook's read of `devDpy`, with no acquire and no mutex) |
| `FormatSet` | `wlEglFormatSetAdd`, `wlEglDmaBufFormatAddModifier` | operators only | - |
| `DmaBufModifierEvents` | `dmabuf_handle_modifier` filling `display->formatSet` | `formatSet`, `received`, `failed` (ghost: pairs whose add met a failed realloc), `events` | `HandleModifier` |
| `DmaBufFeedback` | the feedback listeners, `wlEglFeedbackResetTranches`, `wlEglDestroyFeedback`, the feedback's binding | `fb` (a record of `WlEglDmaBufFeedback`), `initialized`, `faults`, `lostMappings`, `sentEntries`, `steps` | `Receive(e)` for any event from an arbitrary peer, `Initialize`, `InitializeFailsEarly`, `Terminate` |
| `ServerProbe` | `getServerProtocolsInfo`, `registry_handle_global_check_protocols`, `wl_drm_device`, `dmabuf_feedback_check_*`, `checkNvidiaDrmDevice`, `registry_handle_global` | operators only: `ServerProtocolsInfo(c, allocOk)`, `CheckNvidiaDrmDevice`, `RegistryBind(c, explicitSync)` (a fold of `RegistryHandleGlobal` over the globals, counting the proxies bound into each pointer) | - |
| `DriverSync` | `wlEglCheckDriverSyncSupport`, `supports_native_fence_sync` | operators only: `CheckDriverSyncSupport`, `CreateSyncResults(drv)` (created, `EGL_BAD_ATTRIBUTE`, other error), `NativeFenceSync` | - |
| `ConfigHooks` | `wlEglChooseConfigHook`, `wlEglGetConfigAttribHook` | operators only: `ChooseConfigAttribs`, `GetConfigAttrib`, and EGL's rule `RequestedSurfaceType`/`SurfaceTypeMatches` as the reference | - |
| `BestEffortSet` | abstract: a set that may drop an offered item it does not hold | `kept`, `offered`, `dropped` | `Offer(x)` |
| `FeedbackSession` | `DmaBufFeedback` with a protocol-abiding compositor | adds `script` (undelivered events, in order), `batch`, `lastBatch`, `compTable`, `tableSent`, `batches` | `StartBatch`, `Deliver`, `SessionInitialize`, `SessionTerminate` |

Each `MC*` module binds model values and small sets for TLC. A hook is split
into the steps between which another thread can act: the API-lock sections
(`AcquireDisplay`, `ReleaseDisplay`, `GetPlatformDisplay`) are atomic, as is
each section under a display mutex, except that `wlInternalInitialize`'s and
`wlInternalTerminate`'s test, the load and the store of the shared
`initCount` are separate steps, because another display's mutex does not
exclude them: a concurrent update between a load and its store is lost. Memory that is
freed keeps its contents; every access to it is recorded in `faults` and the
run continues, which is what the program usually does. A NULL dereference sets
`crashed` and the process stops (`Halted`).

## 4. Runs

| Run | Cfg | Expect | What it shows |
|---|---|---|---|
| `display_core` | `WlEglDisplay.cfg` | pass | Two threads run every hook on two displays, with `initCount` updated by separate loads and stores. `ConfigSelectionConsistent`: the choose hook's rewriting and the attribute hook's reporting make the driver return a config exactly when the surface type read back satisfies the request, for every attribute list of up to three pairs. `ProbeMatchesBind`: the probe finds a presentation protocol exactly when the bind will, for every announcement of up to three globals. `FeedbackRequestedOfV4`: the default feedback is asked only of a proxy bound at version 4, even with repeated globals. `TypeOK` also catches a terminate that drives a display's `initCount` below zero (1.65M states, about 1.5 min). |
| `display_progress` | `WlEglDisplayProgress.cfg` | pass | `LockEventuallyReleased`: every display mutex is released on every return path, including the query hook's `EGL_BAD_PARAMETER` and `EGL_NOT_INITIALIZED` returns. Each hook unlocks the mutex before `wlEglReleaseDisplay` takes the API lock; `wlEglDestroyAllDisplays` takes the mutex while holding the API lock. A path that released first would deadlock against a teardown, and this property catches it. |
| `display_refcount` | `WlEglDisplayRefCount.cfg` | violation | `ListedNotFreed`: a display is freed while listed (refCount starts at 0). |
| `driver_init_race` | `WlEglDisplayDriverInitRace.cfg` | violation | `DriverInitMatchesDisplays`: two displays on the shared entry, initialized concurrently under their own mutexes, both see `initCount == 0` and both call `egl.initialize`. Without reference tracking the same race loses an increment, and one display's terminate ends the driver display the other still uses. |
| `init_failure` | `WlEglDisplayInitFailure.cfg` | violation | `InitializedHasProtocol`: failing initialization plus failing terminate leaves a display "initialized" with no protocol. |
| `stale_storage` | `WlEglDisplayStaleStorage.cfg` | violation | `NoStaleStorageUse`: the format set freed by a terminate (here the fail path of an initialization) is reallocated by a re-initialization; the trace keeps the display alive through the other thread's reference. |
| `null_devdpy` | `WlEglDisplayNullDevDpy.cfg` | violation | `NoNullDevDpy`: a config hook, which takes no lock and does not acquire the display, dereferences the `devDpy` that a concurrent `wlEglDestroyAllDisplays` set to NULL. |
| `requested_device` | `WlEglDisplayRequestedDevice.cfg` | violation | `DisplayOnRequestedDevice`: `EGL_DEVICE_EXT` is ignored. |
| `modifier_events` | `DmaBufModifierEvents.cfg` | pass | `SetMatchesReceived`, `NoDuplicates` and `RefinesBestEffortSet` (the set implements `BestEffortSet` under the mapping kept = its pairs, offered = pairs received, dropped = pairs whose add failed) over every sequence of five modifier events with failing reallocs. |
| `feedback_freed_storage` | `DmaBufFeedbackFreedStorage.cfg` | violation | `FeedbackStorageSafe`: nothing a reset or destroy released is used again. TLC's shortest trace is eglTerminate followed by a re-initialization that fails early. That second `wlEglDestroyFeedback` destroys the proxy twice; had the table been mapped, it would also munmap the stale range. The same property also catches a peer that sends `done` with a tranche pending, after which the client reallocs freed storage. |
| `feedback_session` | `FeedbackSession.cfg` | pass | `SnapshotMatchesBatch`: after each `done` the client's tranches are exactly the batch's, over two batches with new or kept tables, out-of-range indices and termination/re-initialization between batches. Format tables may fail to mmap (then the client must see no formats). Keeping `len` after a failed mmap breaks the property (3.1M states, about 1 min). |
| `feedback_table_leak` | `FeedbackSessionTableLeak.cfg` | violation | `MappingsNotLeaked`: a re-sent format table leaks the previous mapping. |

Every property of a passing run has a mutant in `PROJECT.json` (a plausible
bug in the code, as an operator defined just before the one it replaces) that
TLC finds violating it; the findings explain each violation run.

## 5. Bounds

* Display runs: two threads and two display slots (symmetric model values),
  one application connection plus the self-connected display, both
  `EGL_TRACK_REFERENCES_KHR` values, nested initialization up to
  `MaxInitCount` (1 in `display_core`, 2 elsewhere). `display_core` lets
  `eglTerminate` succeed (`TerminateMayFail = FALSE`) to stay within time;
  `display_progress` lets it fail, with nested initializations, on one slot. `display_core` runs on a dma-buf v4 compositor whose
  default feedback names the NVIDIA device; `display_progress` on an
  EGLStream or a dma-buf v3 compositor with a wl_drm primary node; the
  violation runs on whichever of the three shows their defect. The dma-buf
  v4 compositor also announces the syncobj manager. `display_core` and
  `display_progress` run on a driver older than explicit sync (the case
  where the probe can go wrong); the violation runs on a driver with it. Two
  threads and two slots are the least that show a race between displays
  sharing the device entry, a reference held across `wlEglDestroyAllDisplays`,
  and the re-use of a display after terminate. `Devices = {}` except in
  `requested_device`: every display shares the NULL device's entry anyway.
  The driver's own count and the entry's `initCount` (which lost updates can
  drive below zero or past the displays' counts) are bounded by `MaxInitCount`
  in `AcquireDisplay`'s guard. These guards only bound the model; they cut off
  runs that have already gone wrong.
* Modifier events: two formats, five events, and modifiers from the halves
  0 and 1 (four modifiers). That is enough for repeats, a second format and a
  failing realloc at either of the two call sites.
  * TLC's integers are 32-bit, so the halves are scaled to 2 bits
    (`HalfBits`) and the modifier to 4.
  * `ModifierOf` is the code's `(hi << HalfBits) | lo`, while the received
    pairs use the protocol's `hi * 2^HalfBits + lo`.
  * A shift without the widening cast (`NarrowModifierOf`) merges modifiers,
    and `SetMatchesReceived` catches it.
* Probe and config hooks: the agreement properties quantify over every
  announcement of up to three globals (`MaxGlobals`) of the four interfaces
  the probe or the bind tests, at versions 1 to 4, which covers each version
  threshold (2, 3, 4) and a global announced twice; and every attribute list
  of up to three pairs (`MaxAttribs`), which covers a repeated
  `EGL_SURFACE_TYPE`, `EGL_DONT_CARE` and no `EGL_SURFACE_TYPE` at all.
* Feedback session: one format, two modifiers (symmetric: they are only
  compared), one device, tables of one or two entries, sizes of 16 bytes
  per entry (`TableSizeSlack = {0}`: the protocol frames whole entries, the
  code asserts it at 435, and the spec says a bad size must be rejected, which
  no run states), mmap success or failure, one index 0 or 1 per
  `tranche_formats`, one or two tranches per batch, and two batches. That is
  enough for:
  * a table replaced by a shorter one, and a kept table;
  * an index past a one-entry table;
  * indices into a table whose mmap failed;
  * two tranches whose formats must not mix;
  * a re-initialization between batches.

  Termination happens only between batches (`DestroyMidBatch = FALSE`). The
  display's event queue is dispatched only by `wlEglInitializeHook`'s two
  round trips (1351, 1389), a round trip returns after the sync reply, and the
  compositor writes a whole batch before it reads the next request. So a
  terminate mid-batch needs a peer that breaks the protocol. Allowed, it
  violates `SnapshotMatchesBatch`: `wlEglFeedbackResetTranches` returns early
  when `numTranches` is 0, so `tmpTranche` survives `wlEglDestroyFeedback`
  (listed as a hazard at 178).

## 6. Fairness

`WlEglDisplay` assumes weak fairness of each thread's started hook
(`WF_vars(Busy(t))`): once a thread is inside a hook, each of its steps is
enabled until taken except while waiting for a lock, and the code has no
other blocking point (no wait on the compositor is modelled inside a hook).
Starting a new hook is not fair: the application may stop calling EGL at any
time. Liveness is checked without symmetry.

## 7. Not modelled

* `eglstream_display_handle_caps`, the swap-interval override and
  `registry_handle_global_remove`: they store values (`caps`,
  `wlStreamCtlVer`, the override) that no modelled operation reads.
* A failing `wl_registry_bind` in the probe or at initialize, and a failing
  `malloc` in `wlEglChooseConfigHook`: each only leaves a pointer NULL or
  returns `EGL_BAD_ALLOC`, with no state change the properties see.
* The file descriptor `wlEglCheckDriverSyncSupport` exports: nothing
  closes it. When `egl.createSync` fails, which is what it does on every
  driver with explicit sync support, the descriptor stays with the caller,
  so each initialization on such a driver leaks one. File descriptors are
  not part of the model, so no run shows this; it is listed as a hazard.
* `__NV_DISABLE_EXPLICIT_SYNC` set only before a re-initialization: the
  model keeps `supports_explicit_sync` sticky, as the code does. The
  earlier result therefore still binds the syncobj manager; no property
  states otherwise.
* The bind/unbind hooks and `wlEglIsValidNativeDisplayExport`: they only
  check arguments and take the API lock around calls to
  `wl_eglstream_display_bind`/`unbind`/`get`, `wlEglMemoryIsReadable` and
  `wlEglCheckInterfaceType`. Those functions are outside `src/`, and the
  spec does not describe them.
* Device names, PCI vendor ids and `drmDevice` contents are abstracted to two
  GPUs with a primary and a render node; the `wl_array` size of
  `main_device` (only asserted) is below that level of detail. A short array
  in an NDEBUG build makes `memcpy` read past it. The `dev_t` that results
  is whatever memory follows, which the model cannot give a meaning.
* A format table of fewer than 16 bytes (NDEBUG) has `len` 0, so
  `wlEglDestroyFeedback`'s `munmap` of `16 * len` bytes fails and the
  mapping stays. `DestroyFeedback` models this, but only the conforming-size
  leak run checks `MappingsNotLeaked`, and it reports the simpler leak at
  438 first.
* `wlEglQueryStringExport`: it changes no state and picks a constant string
  by the EGL version and the driver's extensions; a property of it would only
  restate its branches.
* Which errors a driver's `egl.createSync` returns: `DriverSync` assumes only a
  driver with explicit sync support answers `EGL_BAD_ATTRIBUTE`; the probe's
  inference rests on that, so no property checks it.
* Surfaces (`wlEglDestroyAllSurfaces`) are code outside `src/`.
* The `unprocessedFeedback` hand-off to surfaces; allocation failure of the
  tranches array (asserted only).
* Proxies leaked by a global announced twice are counted in `RegistryBind`
  but no property bounds them.
