------------------------------- MODULE KmsAtomic -------------------------------
(***************************************************************************)
(* The atomic swap paths of the KMSDRM backend, for one unrotated window:  *)
(* KMSDRM_GLES_SwapWindowFenced ("fenced", a nonblocking commit            *)
(* between two fences) and KMSDRM_GLES_SwapWindowDoubleBuffered ("double", *)
(* a blocking one), with the surface rebuild of a mode or size             *)
(* change and the teardown and rebuild around a VT switch.                 *)
(*                                                                         *)
(* One thread of the program runs all of it; pc is where that thread is.   *)
(* Between any two of its steps the GPU and the display may move.  A step  *)
(* ends where another actor can make a difference: at a call that blocks,  *)
(* that reads the state of the display, or that fails.                     *)
(***************************************************************************)
EXTENDS GbmKms

CONSTANTS
  Paths,   \* the swap paths KMSDRM_GLES_SwapWindow may choose for the window
  Events   \* what else happens to the window: "dirty", "vt"

ASSUME KmsAtomicAssumption ==
  /\ Paths \subseteq {"fenced", "double"}
  /\ Events \subseteq {"dirty", "vt"}

VARIABLES
  pc,                     \* where the program's thread is
  swap_window,            \* windata->swap_window, chosen at the first swap
  bo,                     \* windata->bo: the buffer on screen or queued
  next_bo,                \* windata->next_bo: the buffer about to replace it
  egl_surface_dirty,      \* a mode or size change waits for the next swap
  atomic_req,             \* dispdata->atomic_req
  gpu_fence,              \* dispdata->gpu_fence is a live fence object
  kms_in_fence_fd,        \* ... is an open descriptor (not -1)
  kms_out_fence_fd,       \* ... is an open descriptor
  kms_out_fence_wait_fd,  \* ... is an open descriptor
  kms_fence,              \* dispdata->kms_fence is a live fence object
  cont,                   \* what the teardown in progress is part of
  swap_ok                 \* the last SDL_GL_SwapWindow returned true

windowVars == <<bo, next_bo, egl_surface_dirty>>
fenceVars  == <<gpu_fence, kms_in_fence_fd, kms_out_fence_fd,
                kms_out_fence_wait_fd, kms_fence>>
vars       == <<worldVars, pc, windowVars, atomic_req, fenceVars, cont,
                swap_window, swap_ok>>

NoReq == [fb |-> NoBuf, in_fence |-> FALSE]
Labels == {"idle", "lock", "modeset", "request", "wait", "commit", "finish",
           "td_commit", "td_crtc", "td_free", "create"}

TypeOK ==
  /\ WorldTypeOK
  /\ pc \in Labels
  /\ swap_window \in Paths
  /\ bo \in Buffers \cup {NoBuf}
  /\ next_bo \in Buffers \cup {NoBuf}
  /\ egl_surface_dirty \in BOOLEAN
  /\ atomic_req \in [fb : Buffers \cup {NoBuf, Tty}, in_fence : BOOLEAN]
  /\ gpu_fence \in BOOLEAN
  /\ kms_in_fence_fd \in BOOLEAN
  /\ kms_out_fence_fd \in BOOLEAN
  /\ kms_out_fence_wait_fd \in BOOLEAN
  /\ kms_fence \in BOOLEAN
  /\ cont \in {"none", "rebuild", "vt"}
  /\ swap_ok \in BOOLEAN

Init ==
  /\ WorldInit
  /\ pc = "idle"
  /\ swap_window \in Paths
  /\ bo = NoBuf
  /\ next_bo = NoBuf
  /\ egl_surface_dirty = FALSE
  /\ atomic_req = NoReq
  /\ gpu_fence = FALSE
  /\ kms_in_fence_fd = FALSE
  /\ kms_out_fence_fd = FALSE
  /\ kms_out_fence_wait_fd = FALSE
  /\ kms_fence = FALSE
  /\ cont = "none"
  /\ swap_ok = TRUE

\* SDL_GL_SwapWindow returns.
SwapReturns(ok) == pc' = "idle" /\ swap_ok' = ok
Goto(label) == pc' = label /\ UNCHANGED swap_ok

-------------------------------------------------------------------------------
(* The application, between two calls into the backend *)

AppRenders ==
  /\ pc = "idle"
  /\ \E b \in Buffers : Render(b)
  /\ UNCHANGED <<pc, windowVars, atomic_req, fenceVars, cont, swap_window,
                 swap_ok>>

\* SetWindowSize, SetWindowFullscreen, SetDisplayMode.
DirtySurfaces ==
  /\ pc = "idle"
  /\ "dirty" \in Events
  /\ egl_surface_dirty' = TRUE
  /\ UNCHANGED <<worldVars, pc, bo, next_bo, atomic_req, fenceVars, cont,
                 swap_window, swap_ok>>

ReleaseVT ==
  /\ pc = "idle"
  /\ "vt" \in Events
  /\ master
  /\ cont' = "vt"
  /\ Goto("td_commit")
  /\ atomic_req' = [atomic_req EXCEPT !.fb = Tty]
  /\ UNCHANGED <<worldVars, windowVars, fenceVars, swap_window>>

AcquireVT ==
  /\ pc = "idle"
  /\ ~master
  /\ master' = TRUE
  /\ cont' = "vt"
  /\ Goto("create")
  /\ UNCHANGED <<surfaceVars, gpuVars, displayVars, windowVars,
                 atomic_req, fenceVars, swap_window>>

-------------------------------------------------------------------------------
(* The swap *)

FenceKept == TRUE  \* mutant
FenceAlive == FALSE

\* The fence for the frame's rendering, eglSwapBuffers, and the export of the
\* fence.  With no surface there is no current context and no fence either.
SwapBuffers ==
  /\ pc = "idle"
  /\ \/ /\ EglSwap
        /\ gpu_fence' = FenceAlive
        /\ kms_in_fence_fd' = (swap_window = "fenced" \/ kms_in_fence_fd)
        /\ Goto("lock")
     \/ /\ EglSwapFails
        /\ gpu_fence' = (swap_window = "fenced" /\ gs)
        /\ SwapReturns(FALSE)
        /\ UNCHANGED kms_in_fence_fd
  /\ UNCHANGED <<windowVars, atomic_req, kms_out_fence_fd,
                 kms_out_fence_wait_fd, kms_fence, cont, swap_window>>

NullBufferUsed == Goto(IF bo = NoBuf THEN "modeset" ELSE "request")  \* mutant
LockFailed == SwapReturns(FALSE)

LockFrontBuffer ==
  /\ pc = "lock"
  /\ \/ /\ next_bo' = front
        /\ locked' = locked \cup {front}
        /\ front' = NoBuf
        /\ \/ Goto(IF bo = NoBuf THEN "modeset" ELSE "request")
           \/ "fb" \in Faults /\ SwapReturns(FALSE)
     \/ /\ "lock" \in Faults
        /\ next_bo' = NoBuf
        /\ LockFailed
        /\ UNCHANGED <<locked, front>>
  /\ UNCHANGED <<gs, back, gpuVars, displayVars, master, bo, egl_surface_dirty,
                 atomic_req, fenceVars, cont, swap_window>>

\* The first swap on a surface sets the mode with its frame.
SetCrtc ==
  /\ pc = "modeset"
  /\ \/ Show(next_bo, ImplicitSync) /\ Goto("request")
     \/ "setcrtc" \in Faults /\ SwapReturns(FALSE) /\ UNCHANGED displayVars
  /\ UNCHANGED <<surfaceVars, gpuVars, master, windowVars, atomic_req,
                 fenceVars, cont, swap_window>>

\* The plane, and in the fenced path the two fences, go into the request.  A
\* dirty surface is rebuilt now: the teardown adds its plane to this request.
NoInFence == FALSE  \* mutant
HasInFence == swap_window = "fenced"

BuildRequest ==
  /\ pc = "request"
  /\ atomic_req' = [fb |-> IF egl_surface_dirty THEN Tty ELSE next_bo,
                    in_fence |-> HasInFence]
  /\ cont' = IF egl_surface_dirty THEN "rebuild" ELSE cont
  /\ Goto(IF egl_surface_dirty THEN "td_commit" ELSE "wait")
  /\ UNCHANGED <<worldVars, windowVars, fenceVars, swap_window>>

\* drm_atomic_waitpending can return: first the EGL wait, unbounded but a no-op
\* on some drivers, then the poll of the flip's own sync_file, which gives up
\* after a second.
NoPoll == kms_fence /\ EglWaits => flip = NoBuf  \* mutant: the EGL wait alone
PendingFlipWaited ==
  /\ kms_fence /\ EglWaits => flip = NoBuf
  /\ kms_out_fence_wait_fd => flip = NoBuf \/ "timeout" \in Faults

WaitPending ==
  /\ pc = "wait"
  /\ PendingFlipWaited
  /\ kms_fence' = FALSE
  /\ kms_out_fence_wait_fd' = FALSE
  /\ Goto("commit")
  /\ UNCHANGED <<worldVars, windowVars, atomic_req, gpu_fence, kms_in_fence_fd,
                 kms_out_fence_fd, cont, swap_window>>

AlwaysNonblocking == FALSE  \* mutant
Blocking == swap_window = "double"

CommitMayFail ==
  \/ atomic_req = NoReq             \* -EINVAL
  \/ ~Blocking /\ flip # NoBuf      \* -EBUSY
  \/ "commit" \in Faults

FailureIgnored == Goto("finish")  \* mutant
CommitFailed == SwapReturns(FALSE)

\* drm_atomic_commit after its wait: the request is freed whatever happens.
AtomicCommit ==
  /\ pc = "commit"
  /\ atomic_req' = NoReq
  /\ \/ /\ atomic_req # NoReq
        /\ IF Blocking THEN Show(atomic_req.fb, ImplicitSync)
           ELSE StartFlip(atomic_req.fb, atomic_req.in_fence \/ ImplicitSync)
        /\ kms_in_fence_fd' = FALSE
        /\ kms_out_fence_fd' = (kms_out_fence_fd \/ atomic_req.in_fence)
        /\ Goto("finish")
     \/ /\ CommitMayFail
        /\ CommitFailed
        /\ UNCHANGED <<displayVars, kms_in_fence_fd, kms_out_fence_fd>>
  /\ UNCHANGED <<surfaceVars, gpuVars, master, windowVars, gpu_fence,
                 kms_out_fence_wait_fd, kms_fence, cont, swap_window>>

\* The previous buffer goes back to EGL.  In the fenced path it may still be on
\* the screen: the out-fence, which the GPU is made to wait for, keeps the
\* next frames' rendering off it until the flip has completed.
ReleasedBySwap == {bo}
NoGpuWait == FALSE          \* mutant
FenceNeverSignals == TRUE   \* mutant
GpuWaitsForFlip == flip # NoBuf

FinishSwap ==
  /\ pc = "finish"
  /\ locked' = locked \ ReleasedBySwap
  /\ bo' = next_bo
  /\ IF swap_window = "fenced"
       THEN /\ kms_out_fence_wait_fd' = TRUE
            /\ kms_fence' = TRUE
            /\ kms_out_fence_fd' = FALSE
            /\ gate' = GpuWaitsForFlip
       ELSE UNCHANGED <<kms_out_fence_wait_fd, kms_fence, kms_out_fence_fd,
                        gate>>
  /\ SwapReturns(TRUE)
  /\ UNCHANGED <<gs, front, back, running, held, displayVars, master, next_bo,
                 egl_surface_dirty, atomic_req, gpu_fence, kms_in_fence_fd, cont, swap_window>>

-------------------------------------------------------------------------------
(* KMSDRM_DestroySurfaces, then for a rebuild KMSDRM_CreateSurfaces *)

\* mutant: the plane is left to drmModeSetCrtc, as on a legacy driver
LeftToSetCrtc ==
  /\ pc = "td_commit"
  /\ PendingFlipWaited
  /\ kms_fence' = FALSE
  /\ kms_out_fence_wait_fd' = FALSE
  /\ atomic_req' = NoReq
  /\ Goto("td_crtc")
  /\ UNCHANGED <<surfaceVars, gpuVars, displayVars, master, windowVars, gpu_fence,
                 kms_in_fence_fd, kms_out_fence_fd, cont, swap_window>>

\* A blocking commit points the plane at the console, in a rebuild still with
\* the fences of the frame just drawn; its failure is only noted.
TeardownCommit ==
  /\ pc = "td_commit"
  /\ PendingFlipWaited
  /\ kms_fence' = FALSE
  /\ kms_out_fence_wait_fd' = FALSE
  /\ atomic_req' = NoReq
  /\ \/ /\ Show(Tty, FALSE)
        /\ atomic_req.in_fence => Drawn(next_bo)
        /\ kms_in_fence_fd' = FALSE
        /\ kms_out_fence_fd' = (kms_out_fence_fd \/ atomic_req.in_fence)
     \/ /\ "commit" \in Faults \/ ~master
        /\ UNCHANGED <<displayVars, kms_in_fence_fd, kms_out_fence_fd>>
  /\ Goto("td_crtc")
  /\ UNCHANGED <<surfaceVars, gpuVars, master, windowVars, gpu_fence, cont,
                 swap_window>>

\* So does drmModeSetCrtc, tried a second time when it fails.
TeardownCrtc ==
  /\ pc = "td_crtc"
  /\ \/ Show(Tty, FALSE)
     \/ ("setcrtc" \in Faults \/ ~master) /\ UNCHANGED displayVars
  /\ Goto("td_free")
  /\ UNCHANGED <<surfaceVars, gpuVars, master, windowVars, atomic_req,
                 fenceVars, cont, swap_window>>

\* bo and next_bo are released, the surfaces destroyed; a VT switch then drops
\* DRM master.
TeardownFree ==
  /\ pc = "td_free"
  /\ FreeSurface
  /\ bo' = NoBuf
  /\ next_bo' = NoBuf
  /\ master' = (cont # "vt")
  /\ Goto(IF cont = "vt" THEN "idle" ELSE "create")
  /\ UNCHANGED <<egl_surface_dirty, atomic_req, fenceVars, cont, swap_window>>

\* Creating them either succeeds, or cleans up after itself and leaves none.
\* Only the last step that can fail, eglMakeCurrent, comes after the dirty flag
\* is cleared.  In a swap the emptied request is then committed.
CreateSurfaces ==
  /\ pc = "create"
  /\ \/ gs' = TRUE /\ egl_surface_dirty' = FALSE
     \/ /\ "create" \in Faults
        /\ gs' = FALSE
        /\ egl_surface_dirty' \in {FALSE, egl_surface_dirty}
  /\ Goto(IF cont = "rebuild" THEN "commit" ELSE "idle")
  /\ UNCHANGED <<locked, front, back, gpuVars, displayVars, master, bo, next_bo,
                 atomic_req, fenceVars, cont, swap_window>>

-------------------------------------------------------------------------------
App == AppRenders \/ DirtySurfaces \/ ReleaseVT \/ AcquireVT \/ SwapBuffers

\* The rest of a call the program is in.
Backend == \/ LockFrontBuffer \/ SetCrtc \/ BuildRequest \/ WaitPending
           \/ AtomicCommit \/ FinishSwap
           \/ TeardownCommit \/ TeardownCrtc \/ TeardownFree \/ CreateSurfaces

progVars == <<pc, windowVars, atomic_req, fenceVars, cont, swap_window, swap_ok>>

Gpu(b)  == GpuDone(b) /\ UNCHANGED progVars
Display == Vblank /\ UNCHANGED progVars

Next == App \/ Backend \/ (\E b \in Buffers : Gpu(b)) \/ Display

Spec == Init /\ [][Next]_vars

\* A call in progress continues, submitted rendering is executed, and a flip
\* whose buffer is drawn completes.  The application owes nothing.
FairSpec == /\ Spec
            /\ WF_vars(Backend)
            /\ \A b \in Buffers : WF_vars(Gpu(b))
            /\ WF_vars(Display)

-------------------------------------------------------------------------------
(* Safety *)

\* The GPU never writes the buffer that is on the screen, and a flip never
\* waits for rendering that itself waits for the flip: what the boxed comments
\* of SwapWindowFenced call the buffer access protection mechanism.
BuffersProtected ==
  /\ onscreen \notin running
  /\ flip \notin held

\* No nonblocking commit reaches a flip in progress, which the kernel refuses
\* (-EBUSY): drm_atomic_waitpending has seen every flip complete before it.
NoBusyCommit ==
  pc = "commit" /\ atomic_req # NoReq => flip = NoBuf

\* A locked buffer is one the window knows, so that it will be released; and
\* between swaps only one is.
LockedAccounted ==
  /\ locked \subseteq {bo, next_bo}
  /\ pc = "idle" => locked = {bo} \ {NoBuf}

\* Whatever fails, a swap that reported success has its frame on the screen or
\* queued for it until the surfaces are torn down.
SuccessIsPresented ==
  pc = "idle" /\ swap_ok /\ bo # NoBuf => bo \in {onscreen, flip}

\* Between swaps no fence object or descriptor is left behind that the next
\* swap would overwrite without destroying or closing it.
NoStrayFence ==
  pc = "idle" => ~gpu_fence /\ ~kms_in_fence_fd /\ ~kms_out_fence_fd

\* "NEVER destroy a GBM surface whose buffers are being read by a plane: first,
\* move the plane away from those buffers": at the point of destruction nothing
\* of the surface is shown or about to be.
FreedOffScreen ==
  pc = "td_free" => onscreen = Tty /\ flip = NoBuf

\* While the surface exists, EGL always finds a buffer for the next frame.
BufferForNextFrame ==
  pc = "idle" /\ gs => back # NoBuf \/ Free # {}

\* A flip that was given the frame's in-fence never shows an unfinished frame,
\* whether or not the kernel synchronises buffers by itself.
FlipShowsFinishedFrame ==
  [][flip # NoBuf /\ flip' = NoBuf => Drawn(flip)]_displayVars

-------------------------------------------------------------------------------
(* Liveness *)

\* Every call into the backend returns: the program, the GPU and the display
\* never all wait for each other.
CallReturns == pc # "idle" ~> pc = "idle"

-------------------------------------------------------------------------------
(* Refinement *)

\* Both paths keep the promise of ScanoutProtocol, on a kernel that waits for
\* a buffer's rendering when it is given no fence.
Protocol == INSTANCE ScanoutProtocol WITH
  None    <- NoBuf,
  shown   <- IF onscreen \in Buffers THEN onscreen ELSE NoBuf,
  queued  <- flip,
  writing <- running
KeepsProtocol == Protocol!Spec
===============================================================================
