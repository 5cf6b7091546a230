------------------------------- MODULE KmsLegacy -------------------------------
(***************************************************************************)
(* The swap path of the KMSDRM backend on a kernel without atomic          *)
(* modesetting, KMSDRM_GLES_SwapWindowLegacy: the previous page flip is    *)
(* waited for through the events of the DRM descriptor, and the buffer it  *)
(* replaced is released one swap later.  With the surface rebuild and the  *)
(* VT switch, as in KmsAtomic, one thread runs all of it.                  *)
(***************************************************************************)
EXTENDS GbmKms

CONSTANTS
  Events         \* what else happens to the window: "dirty", "vt"

ASSUME KmsLegacyAssumption == Events \subseteq {"dirty", "vt"}

VARIABLES
  pc,                 \* where the program's thread is
  double_buffer,      \* windata->double_buffer: each swap waits for its own flip
  bo,                 \* windata->bo: the buffer the last flip replaces
  next_bo,            \* windata->next_bo: the buffer of the last flip
  egl_surface_dirty,  \* a mode or size change waits for the next swap
  waiting_for_flip,   \* windata->waiting_for_flip
  flip_event,         \* the completion of a flip can be read from drm_fd
  cont,               \* what the teardown in progress is part of
  swap_ok,            \* the last SDL_GL_SwapWindow returned true
  sound               \* in this behaviour no call that puts a frame on the
                      \* screen, or takes it off, fails

flipVars   == <<waiting_for_flip, flip_event>>
windowVars == <<bo, next_bo, egl_surface_dirty>>
modeVars   == <<double_buffer, sound>>  \* which never change
progVars   == <<pc, windowVars, waiting_for_flip, cont, modeVars, swap_ok>>
vars       == <<worldVars, progVars, flip_event>>

TypeOK ==
  /\ WorldTypeOK
  /\ pc \in {"idle", "wait", "swap", "lock", "modeset", "flip", "wait_now",
             "td_crtc", "td_free", "create"}
  /\ double_buffer \in BOOLEAN
  /\ bo \in Buffers \cup {NoBuf}
  /\ next_bo \in Buffers \cup {NoBuf}
  /\ egl_surface_dirty \in BOOLEAN
  /\ waiting_for_flip \in BOOLEAN
  /\ flip_event \in BOOLEAN
  /\ cont \in {"none", "rebuild", "vt"}
  /\ swap_ok \in BOOLEAN
  /\ sound \in BOOLEAN

Init ==
  /\ WorldInit
  /\ pc = "idle"
  /\ double_buffer \in BOOLEAN
  /\ bo = NoBuf
  /\ next_bo = NoBuf
  /\ egl_surface_dirty = FALSE
  /\ waiting_for_flip = FALSE
  /\ flip_event = FALSE
  /\ cont = "none"
  /\ swap_ok = TRUE
  /\ sound \in BOOLEAN

MayFail(call) == call \in Faults /\ ~sound

SwapReturns(ok) == pc' = "idle" /\ swap_ok' = ok
Goto(label) == pc' = label /\ UNCHANGED swap_ok

-------------------------------------------------------------------------------
(* The application, between two calls into the backend *)

AppRenders ==
  /\ pc = "idle"
  /\ \E b \in Buffers : Render(b)
  /\ UNCHANGED <<progVars, flip_event>>

DirtySurfaces ==
  /\ pc = "idle"
  /\ "dirty" \in Events
  /\ egl_surface_dirty' = TRUE
  /\ UNCHANGED <<worldVars, pc, bo, next_bo, flipVars, cont, modeVars,
                 swap_ok>>

ReleaseVT ==
  /\ pc = "idle"
  /\ "vt" \in Events
  /\ master
  /\ cont' = "vt"
  /\ Goto("td_crtc")
  /\ UNCHANGED <<worldVars, windowVars, flipVars, modeVars>>

AcquireVT ==
  /\ pc = "idle"
  /\ ~master
  /\ master' = TRUE
  /\ cont' = "vt"
  /\ Goto("create")
  /\ UNCHANGED <<surfaceVars, gpuVars, displayVars, windowVars, flipVars,
                 modeVars>>

-------------------------------------------------------------------------------
(* The swap *)

\* Switched away to another VT (or left without a surface): nothing to do.
SkipSwap ==
  /\ pc = "idle"
  /\ ~gs
  /\ SwapReturns(TRUE)
  /\ UNCHANGED <<worldVars, windowVars, flipVars, cont, modeVars>>

BeginSwap ==
  /\ pc = "idle"
  /\ gs
  /\ IF egl_surface_dirty THEN cont' = "rebuild" /\ Goto("td_crtc")
                          ELSE UNCHANGED cont /\ Goto("wait")
  /\ UNCHANGED <<worldVars, windowVars, flipVars, modeVars>>

\* KMSDRM_WaitPageflip returns: no flip is awaited, or its event is read.
NotWaited == UNCHANGED flipVars  \* mutant
FlipAwaited ==
  /\ waiting_for_flip => flip_event
  /\ waiting_for_flip' = FALSE
  /\ flip_event' = FALSE

\* poll reports an error on the descriptor: the flip goes on being awaited.
PollFails ==
  /\ pc \in {"wait", "wait_now"}
  /\ waiting_for_flip
  /\ "poll" \in Faults
  /\ SwapReturns(FALSE)
  /\ UNCHANGED <<worldVars, windowVars, flipVars, cont, modeVars>>

\* The flip has replaced bo, which goes back to EGL.
NothingReleased == {}  \* mutant
ReleasedBySwap == {bo}

WaitPageflip ==
  /\ pc = "wait"
  /\ FlipAwaited
  /\ locked' = locked \ ReleasedBySwap
  /\ bo' = next_bo
  /\ Goto("swap")
  /\ UNCHANGED <<gs, front, back, gpuVars, displayVars, master, next_bo,
                 egl_surface_dirty, cont, modeVars>>

SwapBuffers ==
  /\ pc = "swap"
  /\ \/ EglSwap /\ Goto("lock")
     \/ EglSwapFails /\ (sound => CannotSwap) /\ SwapReturns(FALSE)
  /\ UNCHANGED <<windowVars, flipVars, cont, modeVars>>

NullBufferUsed == Goto(IF bo = NoBuf THEN "modeset" ELSE "flip")  \* mutant
LockFailed == SwapReturns(FALSE)

LockFrontBuffer ==
  /\ pc = "lock"
  /\ \/ /\ next_bo' = front
        /\ locked' = locked \cup {front}
        /\ front' = NoBuf
        /\ \/ Goto(IF bo = NoBuf THEN "modeset" ELSE "flip")
           \/ MayFail("fb") /\ SwapReturns(FALSE)
     \/ /\ MayFail("lock")
        /\ next_bo' = NoBuf
        /\ LockFailed
        /\ UNCHANGED <<locked, front>>
  /\ UNCHANGED <<gs, back, gpuVars, displayVars, master, bo, egl_surface_dirty,
                 flipVars, cont, modeVars>>

\* The first swap on a surface sets the mode with its frame.
SetCrtc ==
  /\ pc = "modeset"
  /\ \/ Show(next_bo, ImplicitSync) /\ SwapReturns(TRUE)
     \/ MayFail("setcrtc") /\ SwapReturns(FALSE) /\ UNCHANGED displayVars
  /\ UNCHANGED <<surfaceVars, gpuVars, master, windowVars, flipVars, cont,
                 modeVars>>

\* drmModePageFlip: a failure is logged, and the swap goes on.
WaitsAnyway == TRUE         \* mutant
FailureAwaited == waiting_for_flip

PageFlip ==
  /\ pc = "flip"
  /\ \/ /\ StartFlip(next_bo, ImplicitSync)
        /\ waiting_for_flip' = TRUE
     \/ /\ flip # NoBuf \/ MayFail("pageflip")
        /\ waiting_for_flip' = FailureAwaited
        /\ UNCHANGED displayVars
  /\ IF double_buffer THEN Goto("wait_now") ELSE SwapReturns(TRUE)
  /\ UNCHANGED <<surfaceVars, gpuVars, master, windowVars, flip_event, cont,
                 modeVars>>

WaitNow ==
  /\ pc = "wait_now"
  /\ FlipAwaited
  /\ SwapReturns(TRUE)
  /\ UNCHANGED <<worldVars, windowVars, cont, modeVars>>

-------------------------------------------------------------------------------
(* KMSDRM_DestroySurfaces, then for a rebuild KMSDRM_CreateSurfaces *)

ConsoleRestored ==
  \/ Show(Tty, FALSE)
  \/ (MayFail("setcrtc") \/ ~master) /\ UNCHANGED displayVars

TeardownCrtc ==
  /\ pc = "td_crtc"
  /\ ConsoleRestored
  /\ Goto("td_free")
  /\ UNCHANGED <<surfaceVars, gpuVars, master, windowVars, flipVars, cont,
                 modeVars>>

\* waiting_for_flip stays as it is: a flip still in progress, which ends when
\* its buffer is freed, leaves its event for the next wait.
EventKept == flip_event \/ flip # NoBuf

ClearedBo == NoBuf

TeardownFree ==
  /\ pc = "td_free"
  /\ FreeSurface
  /\ flip_event' = EventKept
  /\ bo' = ClearedBo
  /\ next_bo' = NoBuf
  /\ master' = (cont # "vt")
  /\ Goto(IF cont = "vt" THEN "idle" ELSE "create")
  /\ UNCHANGED <<egl_surface_dirty, waiting_for_flip, cont, modeVars>>

\* The swap that rebuilds goes on whatever became of the surfaces.
CreateSurfaces ==
  /\ pc = "create"
  /\ \/ gs' = TRUE /\ egl_surface_dirty' = FALSE
     \/ /\ "create" \in Faults
        /\ gs' = FALSE
        /\ egl_surface_dirty' \in {FALSE, egl_surface_dirty}
  /\ Goto(IF cont = "rebuild" THEN "wait" ELSE "idle")
  /\ UNCHANGED <<locked, front, back, gpuVars, displayVars, master, bo, next_bo,
                 flipVars, cont, modeVars>>

-------------------------------------------------------------------------------
App == \/ AppRenders \/ DirtySurfaces \/ ReleaseVT \/ AcquireVT
       \/ SkipSwap \/ BeginSwap

\* The rest of a call the program is in.
Backend == \/ WaitPageflip \/ SwapBuffers \/ LockFrontBuffer \/ SetCrtc
           \/ PageFlip \/ WaitNow
           \/ TeardownCrtc \/ TeardownFree \/ CreateSurfaces

EventSent == TRUE

Gpu(b)  == GpuDone(b) /\ UNCHANGED <<progVars, flip_event>>
Display == Vblank /\ flip_event' = EventSent /\ UNCHANGED progVars

Next == App \/ Backend \/ PollFails \/ (\E b \in Buffers : Gpu(b)) \/ Display

Spec == Init /\ [][Next]_vars

\* A call in progress continues, submitted rendering is executed, and a flip
\* whose buffer is drawn completes.  The application owes nothing, and no wait is
\* ended by an error that must come.
FairSpec == /\ Spec
            /\ WF_vars(Backend)
            /\ \A b \in Buffers : WF_vars(Gpu(b))
            /\ WF_vars(Display)

-------------------------------------------------------------------------------
(* Safety *)

\* drmModePageFlip is never called with a flip in progress (-EBUSY).
NoBusyFlip == pc = "flip" => flip = NoBuf

\* "at which point the previous front buffer can be released": the GPU never
\* writes the buffer that is on the screen.
BuffersProtected == onscreen \notin running

\* While the surface exists, EGL finds a buffer for the next frame once the
\* swap has released the one it replaced.
BufferForNextFrame ==
  pc = "swap" /\ gs => back # NoBuf \/ Free # {}

-------------------------------------------------------------------------------
(* Liveness *)

\* Every call into the backend returns, in particular from WaitPageflip.
CallReturns == pc # "idle" ~> pc = "idle"

-------------------------------------------------------------------------------
(* Refinement *)

\* The path keeps the promise of ScanoutProtocol, on a kernel that waits for a
\* buffer's rendering when it is given no fence, and while the calls that carry
\* a frame succeed: after one that fails the swap has lost track of the buffers.
Protocol == INSTANCE ScanoutProtocol WITH
  None    <- NoBuf,
  shown   <- IF sound /\ onscreen \in Buffers THEN onscreen ELSE NoBuf,
  queued  <- IF sound THEN flip ELSE NoBuf,
  writing <- IF sound THEN running ELSE {}
KeepsProtocol == Protocol!Spec
================================================================================
