# Verification of the KMSDRM display path and of SDL's threads

TLA+ models, TLC runs and TLAPS proofs about two parts of this repository. One
puts frames on a panel: the KMSDRM video backend of the SDL3 it builds
(`sdl3/src/video/kmsdrm`), with the explicit fencing, the rotated present and
the renderer pre-rotation that the repository adds to it. The other is what in
SDL's core runs threads of its own beside the application's: timers and
asynchronous I/O. Paths below are relative to `sdl3/src/video/kmsdrm/` unless they start with `sdl3/` or `tests/`.

## 1. The system

### Parts, state, operations

| Part | State it keeps | Operations |
|---|---|---|
| Swap paths (`SDL_kmsdrmopengles.c`) | per window: `bo`, `next_bo`, `swap_window`; per display: `gpu_fence`, `kms_fence`, three fence descriptors | `SwapWindow`, which picks `SwapWindowFenced`, `SwapWindowDoubleBuffered` or `SwapWindowLegacy`, and `SwapWindowRotated` above any of them |
| Commits and flips (`SDL_kmsdrmvideo.c` 509-642, 874-960) | `atomic_req`, `waiting_for_flip`, the kernel's pending flip | `drm_atomic_set_plane_props`, `drm_atomic_waitpending`, `drm_atomic_commit`, `WaitPageflip`, `FlipHandler` |
| Surfaces (`SDL_kmsdrmvideo.c` 1677-2106) | `gs`, `present_gs`, `egl_surface`, `egl_surface_dirty` | `CreateSurfaces`, `DestroySurfaces`, `DirtySurfaces`, `ReleaseVT`, `AcquireVT` |
| Rotated present (`SDL_kmsdrmrotate.c`) | `frame_bo`, `frame_fence`, `pending_bo`, `pending_fence`, a second GL context, an image cache | `Create`, `BeginPresent`, `EndPresent`, `Destroy` |
| Windows and GBM (`SDL_kmsdrmvideo.c` 1613-1675, 2223-2468) | the window list, `gbm_init`, `vulkan_mode`, EGL library loaded | `CreateWindow`, `DestroyWindow`, `GBMInit`, `GBMDeinit`, `SetWindowSize`, `SetWindowFullscreen`, `SetDisplayMode` |
| Orientation maps (`SDL_kmsdrmorientation.h`, `SDL_kmsdrmprerotate.h`) | none | quarter-turn maps of points, rectangles, deltas and pixel copies |
| Cursor (`SDL_kmsdrmmouse.c`) | one cursor bo per display | show, move, dump, warp |
| Vulkan (`SDL_kmsdrmvulkan.c`) | none of its own | `CreateSurface` |
| Library loading (`SDL_kmsdrmdyn.c`) | a reference count, two libraries | load and unload symbols |
| VT signals (`sdl3/src/core/linux/SDL_evdev_kbd.c`) | one pending word | two signal handlers, `kbd_vt_update` |
| Timing, commit verdicts (`SDL_kmsdrmtiming.c`, `SDL_kmsdrmcommit.h`) | counters | record, report |
| sunxifb (`sdl3/src/video/sunxifb`) | one framebuffer window | create, swap |
| Timers (`sdl3/src/timer/SDL_timer.c`) | the timers, on the lists `pending`, `freelist` and `timers`; the map of ids; `init`, `active`, `sem` | `SDL_AddTimer`, `SDL_RemoveTimer`, `SDL_TimerThread`, `SDL_InitTimers`, `SDL_QuitTimers` |
| Asynchronous I/O (`sdl3/src/io/SDL_asyncio.c`, `sdl3/src/io/generic/SDL_asyncio_generic.c`) | per file: `tasks`, `closing`; per queue: `tasks_inflight`, `completed_tasks`; the pool's tasks and counts | open, read, write, close; create, wait, signal and destroy a queue; the pool's workers; `SDL_QuitAsyncIO` |

### How they interact

The application draws with GL into the window's EGL surface and calls
`SDL_GL_SwapWindow`. The swap path takes the drawn buffer from the GBM surface
(`gbm_surface_lock_front_buffer`), gives it to the kernel (a modeset the first
time, then an atomic commit or a page flip), and releases the buffer it
replaces (`gbm_surface_release_buffer`), into which EGL may then draw. Three
actors run at once, and nothing but fences and blocking calls orders them: the
**program**, one thread that makes all of these calls; the **GPU**, which
executes submitted rendering later; and the **display**, which takes a flip at a
vertical blank. A mode or size change only marks the surfaces dirty, and the
next swap rebuilds them in its middle. A VT switch destroys them between two
swaps, drops DRM master, and rebuilds them on the way back. With a panel
mounted sideways there is a second surface and a second GL context: the rotate
pass reads the application's buffer on the GPU and draws into the one that is
scanned out.

Timers and asynchronous I/O meet the rest only in the application. A timer is
added by any thread, called by the timer thread, and its callback may add and
remove timers in turn. A task is started by a thread of the application, done
by a worker, and its result taken by whichever thread waits on its queue.
`SDL_Quit` ends both while other threads may be in their calls.

### What is hard about it

- The fenced path releases a buffer that is still on the screen, and relies on
  the GPU waiting for the flip's fence.
- The wait for the last flip is bounded (`KMSDRM_WaitSyncFile`, one second)
  while the EGL wait before it is not, and is a no-op on some drivers.
- A swap has six calls that can fail, each at a point where a buffer is locked
  or a fence is open.
- A rebuild or a VT switch meets a swap half way, a flip in progress, or fences
  of surfaces that are about to go.
- The legacy path is one swap late by design, and forgets a flip that failed.
- The rotated present orders two GL contexts and two surfaces, hands buffers
  back one present late, and is also chosen by state that a VT switch destroys.

- A timer's structure is reused for another as soon as it is over, while ids,
  map entries and removals in progress still lead to it.
- A close is put off until the last result before it has been taken, by whatever
  thread takes it; queues may be destroyed and SDL may quit in between.
- Workers come, sleep, time out and leave while tasks arrive; a count read in the
  wrong order leaves a task with nobody awake.

PROJECT.json lists these at their lines, with the properties that cover them or
the reason why none does.

### What makes each part correct

- Swap paths: the GPU never writes what is shown; a flip never shows an
  unfinished frame; a successful swap is presented; every buffer and fence is
  given back; every call returns. (`ScanoutProtocol` is the first two as an
  abstract specification.)
- Surfaces: destroyed only off the screen; a rebuild leaves nothing of the old
  surfaces behind.
- Rotated present: no buffer is drawn into while a pass reads it; whatever
  fails, the application's buffers come back; its context is current after a
  present (which does not hold whatever fails, see section 3).
- Windows: GBM and EGL live exactly as long as a window that needs them.
- Maps: inverse bijections of the pixels of a rectangle, and all of their users
  turn the same way.
- Timers: each is in one place; a removal is of its own timer, and final; one
  that is added is called; `SDL_Quit` frees them all and returns.
- Asynchronous I/O: a close comes last, and comes; a queue outlives its tasks;
  no result and no task waits for someone asleep; destroying and quitting return.
- Signals: each release of the VT is acknowledged, once, after `ReleaseVT`.

## 2. The modules

| Module | Models | Lines of code |
|---|---|---|
| `GbmKms` | what the backend drives: the GBM surface's buffers, the GPU, the CRTC. External; every operator is a call the backend makes, as it uses it and as `tests/kmsdrm-rotation/fake-kms.c` stands in for it | - |
| `ScanoutProtocol` | the abstract promise of a swap path: one buffer shown, one queued, and which the GPU may write | - |
| `KmsAtomic` | the fenced and the double-buffered path, rebuilds, VT switches | `SDL_kmsdrmopengles.c` 144-446, 605-637; `SDL_kmsdrmvideo.c` 509-642, 1677-2106 |
| `KmsLegacy` | the legacy path, rebuilds, VT switches | `SDL_kmsdrmopengles.c` 448-560; `SDL_kmsdrmvideo.c` 874-960, 1677-2106 |
| `RotatedPresent` | the application's buffers of a rotated window | `SDL_kmsdrmrotate.c` 126-529; `SDL_kmsdrmopengles.c` 562-637 |
| `KmsSession` | the windows of one display, GL and Vulkan, with the GBM device, the plane and EGL they share; the VT signals and their handling | `SDL_kmsdrmvideo.c` 1613-1675, 2078-2139, 2223-2468; `sdl3/src/core/linux/SDL_evdev_kbd.c` 314-421 |
| `KmsOrientation` | the quarter-turn maps, and what the renderer, the cursor and the input build from them; no state | `SDL_kmsdrmorientation.h`, `SDL_kmsdrmprerotate.h`; `SDL_kmsdrmmouse.c` 232-290, 517-553; `sdl3/src/render/opengles2/SDL_render_gles2.c` 1065-1122, 2341-2377 |
| `SDLTimer` | timers, their thread, the application's threads and `SDL_Quit` | `sdl3/src/timer/SDL_timer.c` 40-407; `sdl3/src/thread/SDL_thread.c` 556-582 |
| `AsyncIO` | files, queues, tasks and the thread pool | `sdl3/src/io/SDL_asyncio.c` 46-303; `sdl3/src/io/generic/SDL_asyncio_generic.c` 53-266, 277-359 |
| `KmsSessionProofs` | theorems about `KmsSession` | |
| `KmsOrientationProofs` | theorems about `KmsOrientation` | |
| `KmsAtomicProofs` | theorems about `KmsAtomic` | |
| `KmsAtomicRefinement` | the proof that `KmsAtomic` implements `ScanoutProtocol` | |
| `KmsLegacyProofs` | theorems about `KmsLegacy`, and the proof that it implements `ScanoutProtocol` | |
| `RotatedPresentProofs` | theorems about `RotatedPresent` | |
| `SDLTimerProofs` | theorems about `SDLTimer` | |
| `AsyncIOProofs` | theorems about `AsyncIO` | |
| `MC...` | the buffers' or windows' symmetry, for TLC | |

**State and steps.** Variables keep the names of the C fields (`bo`, `next_bo`,
`atomic_req`, `kms_fence`, `waiting_for_flip`, `frame_bo` ...). A descriptor or a
fence object is a Boolean: it is live or not. `pc` says where the program's
thread is in a call; an action runs from one point where another actor can make
a difference to the next: a call that blocks, one that reads the state of the
display, one that may fail. A function that fails returns `FALSE` in `swap_ok`.
`Faults` lists the external calls that may fail in an instance, `Events` what
else happens to the window. One small operator stands for each decision a bug
could change (`PendingFlipWaited`, `ReleasedBySwap`, `ConsoleRestored` ...); the
operator above it marked `mutant` is the bug, and each property is checked to
find it.

**The world (`GbmKms`).** EGL draws into any buffer that is neither locked nor
the one just swapped. Rendering submitted is executed at any later time;
behind `eglWaitSyncKHR` on a flip's fence it is held until that flip completes
(`gate`, `held`). A flip completes at some vertical blank after its in-fence, or
after its buffer's rendering on a kernel with implicit synchronisation
(`ImplicitSync`). A second flip is refused (-EBUSY), a blocking commit waits.
`EglWaits` says whether `eglClientWaitSyncKHR` waits at all (Mesa's Zink does not;
the code has the poll for that reason).

**One thread.** All entry points of the KMSDRM backend are called by the thread that
owns the window; SDL requires it. Only `RotatedPresent` looks at two contexts, and
both are the same thread's.

**`RotatedPresent` and the flip.** The scanned-out surface's swap is the one of
the other modules; here it appears as `SwapWindow` and `Present`, with what matters to
the application's buffers. `SwapWindow` is the part before its wait for the flip in
progress, which may fail and so leave that flip pending when `EndPresent` comes
(`SDL_kmsdrmopengles.c:188`, `:222`, `:226`, `:474`). `Present` queues its own flip
once there is none. `swap_window` is one of the three paths: on the fenced one, passes
submitted later wait until the flip has completed; the double-buffered one returns
with the frame shown; the legacy one returns true also when its page flip failed.

**`KmsSession` and the swaps.** The other modules have one window whose surfaces
come and go; this one has the windows, and `surfaces` is the set of those that
have any. `CreateWindow` runs from one failing call to the next (`CreateGlWindow`
with `GbmInit`, `LoadEgl`, `CreateSurfaces`); a failure leads to `pc = "failed"`,
where `SDL_CreateWindow` can only call `DestroyWindow`. `kbd_vt_update` runs from one
touch of the pending word or of the console to the next (`ReadSignal`, `ReleaseVT`
or `AcquireVT`, `Acknowledge`, `ClearSignal`), since the signal handlers may run
between any two. The console is external: it asks for the VT, takes any
`VT_RELDISP` but a refusal for its permission, and comes back later. Reading
through a NULL pointer ends in `pc = "crashed"`. A window created as a GL window in
Vulkan mode is `"plain"`: the code makes it without GBM.

**`KmsOrientation`.** Operators over integer pixels and edges; fractions are
integers in a stated unit, so that a texture coordinate or a clip-space position
is exact. What floating point adds is left out. `Turned` is the `switch` that every
map has. GL's rows counted from the bottom, the viewport transform and the
sampling at pixel centres are part of it, since the maps are only right together
with them. The hot spot is handed to the kernel with the cursor's picture
(`CursorHotSpot`); nothing takes it off the position (`CursorPixel`), since the
code that does is compiled out (`USE_ATOMIC_CURSOR` is 0, `SDL_kmsdrmmouse.c:66`).

**`SDLTimer`.** A step runs from one lock or atomic to the next; `pc` has a place for
each in `SDL_CreateTimer` and `SDL_RemoveTimer`, for every thread, the timer
thread's callbacks included. Timers are addresses, which `SDL_CreateTimer` reuses.
Time is left out: at a tick the time of any set of timers may have come
(`CheckActive`). A semaphore's wait may also time out at any moment. Two premises
about the application are variables or constants, so that what rests on them is
visible: `serialised`, one call to add or remove at a time, and `Orderly`, no
callback adds a timer while a thread is in `SDL_Quit`. The timer thread's look at a
timer's flag (`ProcessTimer`) and its call (`CallBack`) are two steps, since a removal
may come between them.

**`AsyncIO`.** A step is what happens under one lock; the condition variables are
sets of threads asleep, and a signal wakes one of them, whichever the kernel
picks. Only `ShutdownThreadpool` holds the pool's lock over several steps: it cancels
the queued tasks one by one (`CancelLoop`), each onto its queue, whose lock is
another; what needs the pool waits for that (`LockIsFree`).
Calls that are refused change nothing and are left out as guards.
`SDL_LoadFileAsync` is an open, a read and a close by one thread. Both the lists of
tasks and of results are last in, first out, as in the code. `Careful` says that the
application destroys no queue that a pending close names.

## 3. The runs

| Run | Instance | Checks |
|---|---|---|
| `atomic_explicit` | fenced path, 3 buffers, VT switches, no implicit sync, EGL wait a no-op | `NoBusyCommit`, `NoStrayFence`, `FlipShowsFinishedFrame` |
| `atomic_live` | both paths, 3 buffers, rebuilds and VT switches, failing modesets, EGL wait waits | `FreedOffScreen`, `CallReturns`, `KeepsProtocol` |
| `atomic_faults` | both paths, 4 buffers, rebuilds, VT switches, every fault | `TypeOK`, `BuffersProtected`, `SuccessIsPresented` |
| `legacy` | 3 buffers, both modes, rebuilds, VT switches, every fault | `TypeOK`, `NoBusyFlip`, `BufferForNextFrame`, `KeepsProtocol`, `CallReturns` |
| `rotated` | 3 application buffers, every fault, the three swap paths below, with and without fences, rebuilds, VT switches | `TypeOK`, `NoTornFrame`, `AppLockedAccounted`, `CallReturns` |
| `session` | 3 windows, GL and Vulkan, atomic and legacy drivers; GBM, EGL, surfaces, rebuilds and the list fail; VT switches | `TypeOK`, `ReleaseNotForgotten`, `ReturnNotForgotten`, `DeviceGoesLast`, `LeavesNothingOnVt`, `SwitchIsAnswered` |
| `timer` | 2 threads and the timer thread, 2 structures, 2 ids; initialisation and `malloc` fail; `SDL_Quit` and a new start | `TypeOK`, `OnePlace`, `QuitFreesAll`, `CancelsItsOwn`, `RemovedIsSkipped`, `AddedTimerFires`, `QuitReturns` |
| `asyncio` | 2 threads, 2 workers, 2 queues, a file of two requests and a close; workers that cannot be had; timeouts; queues destroyed; `SDL_Quit` | `TypeOK`, `CloseIsLast`, `CloseNotForgotten`, `OnePlace`, `QueueOutlivesTasks`, `NoLostWakeup`, `PoolServes`, `DestroyReturns`, `QuitReturns` |

Four runs show the code doing other than what it says:

- `atomic_busy_leak`: a commit that fails leaves `next_bo` locked and forgotten
  (`SDL_kmsdrmopengles.c:303`). With flips slower than the one-second poll, a few
  -EBUSY leave EGL without a buffer: what `fake-kms.c:1612` calls leaking.
- `legacy_failed_flip`: a page flip that fails is only logged; the next swap
  releases the buffer that is still on the screen (`SDL_kmsdrmopengles.c:536`).
- `session_failed_window`: the creation of a second window fails; its cleaning
  up finds one window listed, takes its own for the last, and unloads EGL and
  GBM under the other (`SDL_kmsdrmvideo.c:2262`). The "right comparison" of the
  comment above is right for a first window only.
- `timer_entry_freed`: a callback that runs before `SDL_AddTimer` has returned removes
  its timer, and with it the entry that `SDL_timer.c:358` reads the result from.

Five more properties are false of the code. They stand in the modules for the record,
and TLC finds a trace of each as soon as a cfg names it, but no run does:

- `NeverCrashes` (`KmsSession`; in `session`): `KMSDRM_GBMInit` fails with `gbm_init`
  recorded; the cleaning up moves a plane that is NULL (`SDL_kmsdrmvideo.c:1644`, `:250`).
- `FreedOffScreen` where "commit" and "setcrtc" both fail (in `atomic_faults`): each
  failure is only noted (`SDL_kmsdrmvideo.c:1751`, `:1772`), and the surface is
  destroyed on the screen, against the rule at `:505`. One of the two failing does no harm
  (`atomic_live`, `SurfaceFreedOffScreen`).
- `ContextRestored` (`RotatedPresent`; in `rotated`): `EndPresent` does not look at the
  result of `SDL_EGL_MakeCurrent` (`SDL_kmsdrmrotate.c:528`). When it fails the swap has
  succeeded and the rotate pass's context stays current, where `SDL_kmsdrmrotate.h:84`
  says that the application's is.
- `NoCallAfterRemoval` (`SDLTimer`; in `timer`): the timer thread has read the flag of a
  timer (`SDL_timer.c:162`); another thread removes the timer and gets true; the callback
  is called (`:166`).
- `CancelsInAnyThread` (`SDLTimer`; in `timer`): between unlinking an entry and setting its
  timer's flag (`SDL_timer.c:394`, `:397`) the timer fires and another thread's
  `SDL_AddTimer` reuses it: the new timer is canceled in place of the old.

Other known differences: a swap of a rotated window whose VT
is away is not skipped, as `SDL_kmsdrmopengles.c:576` means it to be, since the
window has lost the state it is chosen by (`:629`), and fails instead. A swap that
fails leaves its fence, or the fence's descriptor, to be overwritten by the next;
so does one with a rebuild in its middle on the fenced path, whose teardown commits the
request that was already given an out-fence.
Results of asynchronous I/O are handed out last completed first
(`SDL_asyncio_generic.c:58`), where `sdl3/include/SDL3/SDL_asyncio.h:82` says "in
order of completion".

Two simplifications. A fence object that cannot be made ends in an `SDL_assert`
(`SDL_kmsdrmopengles.c:153`, `:179`), which the usual release builds leave out: in
`KmsAtomic` that happens only where there is no context to make it in, when a swap is
called without a surface, whose `eglSwapBuffers` then fails as in the code. `is_atomic` is fixed from the start in `KmsSession`: the
code sets it when the displays are initialised, before there is a window
(`SDL_kmsdrmvideo.c:1534`), and again, to the same value, in `KMSDRM_GBMInit` (`:1626`).

**Bounds.** On the display path the only bounds are the numbers of buffers and of
windows; there is no counter, so each run explores all interleavings of any
length. Three windows are one more than the comparison of `DestroyWindow` tells
apart. Three buffers is what a Mesa surface hands out on these paths at most in
use at once (on screen, queued, drawn into), and four, Mesa's limit, is used where
failures can strand one. Buffers are interchangeable, which the safety runs use as
a symmetry; runs with liveness do not.

`MaxId` bounds the timers ever added in `timer`: two, with two structures, so that the
second may reuse the first's structure while the first's removal, callback or
freeing is under way; SDL starts and quits any number of times. `MaxIO` bounds the
requests of a file in `asyncio`: two, so that a close waits for one that is taken while
another is in the pool or at a worker. Two queues let results and a close go
different ways, two workers let one leave while the other is idle. Files, queues
and ids are not reused. Without `MaxIO` an old task could stay at the bottom of the
pool's stack for ever.

**Deadlock** is checked in every run but `session`, `asyncio` and those of `SDLTimer`:
the application can always do something. In `session` a crashed program stops; in the
others one that has used up its ids or its files and has quit does.

**`Prompt`** (`session`) says that no one asks to leave the VT during the few calls
of `kbd_vt_update`. It is an assumption about the user, not about the code, and the
code needs it: without it, a request that comes while a return is handled is
granted by that return's own `VT_ACKACQ` with everything still up
(`LeavesNothingOnVt` fails), and a request that comes between the acknowledgement
of the last one and the compare-and-swap, by way of a return in between, looks
like the old one and is cleared with it (`ReleaseNotForgotten` fails). `Prompt =
FALSE` shows both.

**`sound`** (`legacy`) is chosen once: in a behaviour with `sound` none of the calls
that bring a frame to the screen, or take it off, fails. `KeepsProtocol` is stated for these,
since a failed flip breaks it (`legacy_failed_flip`); the other properties hold
whatever fails.

**`serialised`, `Orderly`, `Careful`.** Each names what the code needs of the
application beyond what it says:

- With two threads in `SDL_AddTimer` and `SDL_RemoveTimer` at once, a removal may set the
  flag of a timer that has been recycled since it was unlinked (`SDL_timer.c:397`), see
  `CancelsInAnyThread` above. `CancelsItsOwn`, `AddedTimerFires` and `QuitFreesAll` are
  stated for `serialised` calls; without it they fail.
  `sdl3/include/SDL3/SDL_timer.h` calls both functions safe from any thread.
  `OnePlace` and `RemovedIsSkipped` do not rest on it.
- With `Orderly = FALSE` a callback in `SDL_AddTimer` waits for `SDL_Quit` to be over,
  which waits for the callback (`:259`): `QuitReturns` fails.
- With `Careful = FALSE` a queue is freed while a close that waits for its turn names
  it (`SDL_asyncio.c:288`): `QueueOutlivesTasks` fails.
- A timer added after the timer thread's last look stays in `pending` through
  `SDL_Quit`, and is called after the next `SDL_Init`; `QuitFreesAll` counts it out.
- After `SDL_Quit` a close that was put off goes to a pool without threads, and a
  queue that waits for it is not destroyed; `DestroyReturns` counts it out.

**Fairness.** `Backend` is weakly fair: a thread inside a call goes on when it
can. `Gpu(b)` is: a driver executes what was submitted. `Display` is: a display
completes a flip whose buffer is ready. Nothing is assumed of the application,
which may stop calling, except in `session`: there it pumps events again and
again (`SF_vars(ReadSignal)`, strong because it may be in other calls in between),
which SDL requires of every program and without which no signal is handled. In
`timer`, threads in a call and the timer thread go on; a callback returns (strong,
because it may be in calls of its own in between), and the time of each timer
comes again and again. In `asyncio`, threads in a call and workers go on, and
synchronous I/O ends; no timeout is fair, so nothing rests on one. No fault is ever
fair. With a display that stops
completing flips, `CallReturns` does not hold where `EglWaits` is true: the EGL
wait of `drm_atomic_waitpending` (`SDL_kmsdrmvideo.c:617`) has no timeout, whatever
the bounded poll after it is for (`:574`).

## 4. What is proved

For every number of buffers, both atomic paths, and every set of faults and
events, from the assumptions on the constants in `GbmKms` and `KmsAtomic`:

| Theorem | Says | Needs |
|---|---|---|
| `TypeCorrect` | `Spec => []TypeOK` | - |
| `BuffersOwned` | who holds which buffer at each step (`LockInv`) | - |
| `SuccessfulSwapIsPresented` | `Spec => []SuccessIsPresented` | - |
| `ScanoutProtected` | `Spec => []BuffersProtected` | `ImplicitSync` |
| `CommitsWhenFlipIsOver` | `Spec => []NoBusyCommit` | the poll does not time out |
| `LockedIsKnown` | `Spec => []LockedAccounted`: every locked buffer is one the window will release | no commit, modeset or framebuffer fails, the poll does not time out (`NoneLost`) |
| `NextFrameHasBuffer` | `Spec => []BufferForNextFrame`: the converse of `atomic_busy_leak` | `NoneLost`, three buffers |
| `FencesAreClosed` | `Spec => []NoStrayFence` | `NoneLost`, no `eglSwapBuffers` or lock fails, no rebuild, two buffers (`NoneStray`) |
| `SurfaceFreedOffScreen` | `Spec => []FreedOffScreen` | not both the commit and the modeset of a teardown fail |
| `FlipsShowFinishedFrames` | `Spec => FlipShowsFinishedFrame` | not both the commit and the modeset of a teardown fail |
| `KmsAtomicKeepsProtocol` | `Spec => KeepsProtocol` | not both the commit and the modeset of a teardown fail, `ImplicitSync` |

And for every finite set of windows, all kinds and all faults, from the
assumptions in `KmsSession`:

| Theorem of `KmsSessionProofs` | Says | Needs |
|---|---|---|
| `TypeCorrect` | `Spec => []TypeOK` | - |
| `ReleaseIsRemembered` | `Spec => []ReleaseNotForgotten` | `Prompt` |
| `ReturnIsRemembered` | `Spec => []ReturnNotForgotten` | `Prompt` |
| `VtLeftClean` | `Spec => LeavesNothingOnVt` | `Prompt`, `drmDropMaster` works |
| `DeviceOutlivesOthers` | `Spec => DeviceGoesLast` | - |

`ConsoleAgrees` is the invariant of the signals: the word, the signal in hand and
the console's state determine one another at each point of `kbd_vt_update`. With
`SurfacesListed` (who can have surfaces) it gives `ReleasedAll`, that nothing is
left at the acknowledgement. `DeviceGoesLast` needs that `num_windows <= 1` with the
window listed means that it is the only one (`LastIsAlone`), which is where the
comment's other case goes wrong.

The argument for `KmsAtomic`. `LockInv` follows the buffers through a swap: EGL's are never
locked; the one to present is locked, is not the one it replaces, and is the one
the request is for; after a commit it is queued or shown. From it:
`SuccessInv` (nothing is left over while the VT is away, so a window with a
buffer has shown or queued it) and `ScreenInv`: the flip's buffer is locked and
its rendering is not held behind the flip, and what is on the screen is either
locked or behind the closed gate. The second is why `BuffersProtected` is not
inductive by itself: between `FinishSwap` and the vertical blank the buffer on
the screen is unlocked, and only `gate` keeps new rendering off it.
`FlipIsAwaitable` and `PlaneMovedAway` are the like for the waits and for the
teardown. `FenceInv` follows the two descriptors and the fence from the step that
makes each to the one that closes it; it rests on `AccountInv`, since with all locked
buffers known EGL always has one and a swap gets beyond its first call.
`FlipIsGiven` says that a flip of the fenced path has been given its frame's fence, so
that `FlipsShowFinishedFrames` does without `ImplicitSync`.
Each lemma has one case per action. The refinement maps `shown`,
`queued` and `writing` to `onscreen`, `flip` and `running`.

`ImplicitSync` is needed by the blocking calls (the first modeset and the
double-buffered path), which are given no fence.

For panels and windows of every size, `KmsOrientationProofs` proves:

| Theorem | Says |
|---|---|
| `PanelShowsEveryPixel` | the two pixel maps are inverse bijections of the image's and the panel's pixels |
| `SizesAreInverse` | so are the two size maps |
| `RectangleIsImage` | a turned rectangle has exactly the turned pixels |
| `PassCopiesExactly` | the rotate pass samples the centre of the texel the pixel map names |
| `TouchHitsWhatIsShown` | positions and motions of the input are turned as the picture is |
| `ScissorIsTheClip` | the scissor lets through exactly the clip rectangle's pixels |
| `QuadFillsItsRectangle` | projection and viewport put a rectangle's corners on the turned edges |
| `ReadbackIsLogical` | a pixel read back is the one asked for |
| `CursorOffByHotSpot` | each pixel of a turned cursor is seen where the logical one would have it, plus the turned hot spot, which only the kernel can take off |
| `CopiesAreInverse` | an image turned to the panel and back is the same |

Each is by cases over the four rotations, the last by the first; they need nothing
but natural sizes. There is no state, so no run stands beside them.

For every number of buffers and every set of faults, `KmsLegacyProofs` proves:

| Theorem | Says | Needs |
|---|---|---|
| `TypeCorrect` | `Spec => []TypeOK` | - |
| `FlipsAreNotBusy` | `Spec => []NoBusyFlip` | - |
| `NoWaitIsInVain` | `Spec => []AwaitedComes`: the wait for a flip is for one that will come, or whose event is there | - |
| `NextFrameHasBuffer` | `Spec => []BufferForNextFrame` | two buffers, three if locking can fail (`EnoughBuffers`) |
| `KmsLegacyKeepsProtocol` | `Spec => KeepsProtocol` | `ImplicitSync`, `EnoughBuffers` |
| `SoundSwapsProtectScreen` | `Spec => [](sound => BuffersProtected)` | `ImplicitSync`, `EnoughBuffers` |

`AwaitInv` ties `waiting_for_flip` to the kernel: it is set exactly while a flip is in
progress or its event unread. It holds whatever fails and across teardowns, which
do not wait. `LockInv` is weaker than what one expects, because a flip that
failed leaves buffers in odd places: the locked buffers are among `bo` and `next_bo`,
and among `bo` alone once the swap has released the older one. Where everything stands
exactly is `SoundInv`, which holds in sound behaviours only: `DuringSwap` and
`BetweenSwaps` give, for each point of the code, the locked buffers, the one shown and
the one queued. From it every step is a step of `ScanoutProtocol` or a stutter.

For every number of the application's buffers, `RotatedPresentProofs` proves, without
a hypothesis:

| Theorem | Says |
|---|---|
| `TypeCorrect` | `Spec => []TypeOK` |
| `PassesReadWholeFrames` | `Spec => []NoTornFrame` |
| `LockedAreHandedBack` | `Spec => []AppLockedAccounted` |
| `WaitsAreNotCircular` | `Spec => []NoCircularWait`: no pass waits for a flip that waits for that pass, also when a present failed with the flip before it in progress |

`NoTornFrame` needs to know that a buffer stays locked for as long as a pass has to read
it (`PassesLocked`), which in turn rests on why `EndPresent` may give up a lock: it waits
on the fence of that buffer's pass, or there was none and the pass was finished before
(`FencedOrDone`).

For every number of threads, timers and ids, `SDLTimerProofs` proves:

| Theorem | Says | Needs |
|---|---|---|
| `TypeCorrect` | `Spec => []TypeOK` | - |
| `EachTimerInOnePlace` | `Spec => []OnePlace` | - |
| `RemovedIsNotTaken` | `Spec => RemovedIsSkipped` | - |
| `RemovalHitsItsOwn` | `Spec => CancelsItsOwn` | says nothing unless `serialised` |
| `QuitLeavesPendingOnly` | `Spec => []QuitFreesAll` | the same |

None rests on `Orderly`. `CallInv` and `ThreadInv` say what each thread has in hand at each
point; `PlaceInv` that these hands, and the five lists, are disjoint and hold
all of memory. `RemovedIsNotTaken` is the surprising one: with calls that overlap a removal
may mark a foreign timer, but a timer whose removal was reported is marked all the same. It
follows from `MapInv`: an entry in memory is linked, or owned by one thread, so one removal at
most finds an id; and while an id is a timer's, its entry leads to that timer.
`SerialInv` adds what holds when calls do not overlap: the timer of an entry has that entry's
id, and a timer about to get a new id has no entry left.

For every number of threads, workers, files, requests and queues, `AsyncIOProofs` proves:

| Theorem | Says | Needs |
|---|---|---|
| `TypeCorrect` | `Spec => []TypeOK`; the counts of threads and of tasks in flight stay within theirs | - |
| `EachTaskInOnePlace` | `Spec => []OnePlace` | - |
| `TakenTasksAreGone` | a task whose result was taken is at no thread and on no list | - |
| `CloseComesLast` | `Spec => []CloseIsLast` | - |
| `ClosesAreKept` | `Spec => []CloseNotForgotten` | - |
| `PoolKeepsServing` | `Spec => []PoolServes` | - |
| `ResultsFindThreads` | `Spec => []NoLostWakeup` | - |
| `QueuesOutliveTasks` | `Spec => []QueueOutlivesTasks` | `Careful` |

`TaskInv` says that the tasks in the threads' and workers' hands, in the pool and on the
queues are all different, started and not yet taken. Its lemmas treat these four as
arguments, one lemma for each way a task moves, so that an action is a matter of
naming the moves it makes. `FileInv` has the counts: `tasks_inflight` is the number of
live tasks that name the queue. `PoolInv` is what `PoolServes` needs: the two counts are
those of the threads, a pool that is initialised has one, and none sleeps while there
is a task. This is where the idle count must be read after its own decrement:
`OthersIdle` is what keeps the last worker from leaving. `NoLostWakeup` is inductive by
itself, with a count of the woken. For `QueuesOutliveTasks`, `LifeInv` has to speak of
closes that wait for their turn too: one that names a dying queue waits for tasks of
that queue only, so its turn comes while the destroyer still waits.

Assumed are the named assumptions on the constants of each module, and nothing
else: the theorems are of the specifications the runs check, with the same definitions.

Only model-checked remain: all liveness (`CallReturns`, `SwitchIsAnswered`,
`AddedTimerFires`, `QuitReturns`, `DestroyReturns`), which is out of the prover's reach,
and what the four runs that expect a violation show.

## 5. What is not modelled

Pixels, formats, modifiers, modes and their choice, VRR, gamma and connector
properties: no interleaving depends on them. The EGL image cache of the rotate
pass. Several windows on one display share its fences; the swap models have
one window, and `KmsSession` has no swaps. Several displays, each with a plane of
its own that `KMSDRM_GBMInit` sets up for the first window's only. Vulkan windows bring their own swapchain. sunxifb leaves all buffering
to its driver.

In `AsyncIO`, the io_uring and Windows backends, which implement the same interface;
`cancel_task`, which SDL does not call; and calls that meet the last lines of
`ShutdownThreadpool`, where the pool's lock is destroyed. In `SDLTimer`, a timer's
interval and order, and `SDL_Delay`.

The rest of SDL is upstream code: drivers for other systems, GPU and render
backends, vendored headers, which make up nearly all of the repository's lines,
and subsystems without a thread or a protocol of their own. It is not this
project's subject.

## 6. Plan

1. Proofs with weaker hypotheses: `FencesAreClosed` of the double-buffered path, which has
   no fences to leave behind whatever fails, and the refinement of `KmsLegacy` up to the
   first failed flip instead of without any.
2. Two windows on one display in `KmsAtomic`: the shared fences and timing record.
3. Several displays in `KmsSession`, and the cursor's bo, which belongs to one.
4. The reference count of library loading (`SDL_kmsdrmdyn.c`).
