-------------------------------- MODULE GbmKms --------------------------------
(***************************************************************************)
(* The world the KMSDRM backend drives, for one window on one CRTC: the    *)
(* buffers of the GBM surface that is scanned out, the rendering submitted *)
(* to the GPU, and the display.  None of it is SDL code: each operator is  *)
(* modelled from how SDL_kmsdrmvideo.c and SDL_kmsdrmopengles.c call it,   *)
(* and from the stand-in the repository tests against                      *)
(* (tests/kmsdrm-rotation/fake-kms.c).                                     *)
(*                                                                         *)
(* A buffer of the surface is free, being rendered (back), swapped but not *)
(* locked (front), or locked by gbm_surface_lock_front_buffer.  The GPU    *)
(* executes submitted rendering at its own pace: "running" holds the       *)
(* buffers that submitted rendering may be writing now.  eglWaitSyncKHR on *)
(* the fence of a page flip closes a gate: rendering submitted behind the  *)
(* gate is "held" until that flip has completed.                           *)
(***************************************************************************)
EXTENDS FiniteSets

CONSTANTS
  Buffers,       \* the buffers of the GBM surface that is scanned out
  NoBuf,         \* a NULL gbm_bo, or no flip
  Tty,           \* the framebuffer the CRTC showed before SDL (crtc->buffer_id)
  Faults,        \* the external calls that may fail in this instance
  ImplicitSync,  \* a flip without IN_FENCE_FD waits for the buffer's rendering
  EglWaits       \* eglClientWaitSyncKHR waits for a flip (Mesa's Zink does not)

FaultKinds == {"swap", "lock", "fb", "setcrtc", "commit", "pageflip",
               "create", "timeout", "poll"}

ASSUME GbmKmsAssumption ==
  /\ NoBuf \notin Buffers
  /\ Tty \notin Buffers
  /\ NoBuf # Tty
  /\ Faults \subseteq FaultKinds
  /\ ImplicitSync \in BOOLEAN
  /\ EglWaits \in BOOLEAN

VARIABLES
  gs,        \* the GBM surface and its EGL surface exist
  locked,    \* the buffers locked by gbm_surface_lock_front_buffer
  front,     \* the buffer eglSwapBuffers marked, until it is locked
  back,      \* the buffer the current frame is rendered into
  running,   \* buffers that submitted rendering may be writing now
  held,      \* buffers of rendering held behind the gate
  gate,      \* the GPU waits for the pending flip (eglWaitSyncKHR)
  onscreen,  \* what the CRTC scans out
  flip,      \* the buffer of the page flip in progress
  fenced,    \* that flip waits for its buffer's rendering
  master     \* SDL is DRM master (it is not while its VT is away)

surfaceVars == <<gs, locked, front, back>>
gpuVars     == <<running, held, gate>>
displayVars == <<onscreen, flip, fenced>>
worldVars   == <<surfaceVars, gpuVars, displayVars, master>>

WorldTypeOK ==
  /\ gs \in BOOLEAN
  /\ locked \subseteq Buffers
  /\ front \in Buffers \cup {NoBuf}
  /\ back \in Buffers \cup {NoBuf}
  /\ running \subseteq Buffers
  /\ held \subseteq Buffers
  /\ gate \in BOOLEAN
  /\ onscreen \in Buffers \cup {Tty}
  /\ flip \in Buffers \cup {NoBuf}
  /\ fenced \in BOOLEAN
  /\ master \in BOOLEAN

WorldInit ==
  /\ gs = TRUE
  /\ locked = {}
  /\ front = NoBuf
  /\ back = NoBuf
  /\ running = {}
  /\ held = {}
  /\ gate = FALSE
  /\ onscreen = Tty
  /\ flip = NoBuf
  /\ fenced = FALSE
  /\ master = TRUE

-------------------------------------------------------------------------------
(* GBM and EGL *)

\* EGL may pick any buffer that is not locked and not the one just swapped.
Free == Buffers \ (locked \cup {front, back})

\* All rendering submitted for b has been executed.
Drawn(b) == b \notin running \cup held

\* The renderer submits the frame's commands: EGL picks a back buffer, and the
\* commands queue behind whatever the GPU has been told to wait for.
Render(b) ==
  /\ gs
  /\ back = NoBuf
  /\ b \in Free
  /\ back' = b
  /\ running' = IF gate THEN running ELSE running \cup {b}
  /\ held' = IF gate THEN held \cup {b} ELSE held
  /\ UNCHANGED <<gs, locked, front, gate, displayVars, master>>

\* eglSwapBuffers: the back buffer becomes the one to lock; a previous one that
\* was never locked is dropped.  A frame without rendering still takes a buffer.
EglSwap ==
  /\ gs
  /\ \E b \in Buffers : /\ IF back = NoBuf THEN b \in Free ELSE b = back
                        /\ front' = b
  /\ back' = NoBuf
  /\ UNCHANGED <<gs, locked, gpuVars, displayVars, master>>

\* eglSwapBuffers fails: on no surface, or when every buffer is taken.
CannotSwap == ~gs \/ (back = NoBuf /\ Free = {})

EglSwapFails ==
  /\ CannotSwap \/ "swap" \in Faults
  /\ UNCHANGED worldVars

\* A gbm_surface_destroy of a surface the GPU may still be rendering into: the
\* rendering loses its target, and a framebuffer still shown is removed with
\* its buffer (KMSDRM_FBDestroyCallback), which turns the plane off.
FreeSurface ==
  /\ gs' = FALSE
  /\ locked' = {}
  /\ front' = NoBuf
  /\ back' = NoBuf
  /\ running' = {}
  /\ held' = {}
  /\ gate' = FALSE
  /\ onscreen' = Tty
  /\ flip' = NoBuf
  /\ fenced' = FALSE

-------------------------------------------------------------------------------
(* The GPU and the display, which run beside the program *)

GpuDone(b) ==
  /\ b \in running
  /\ running' = running \ {b}
  /\ UNCHANGED <<surfaceVars, held, gate, displayVars, master>>

\* A blocking modeset or plane update (drmModeSetCrtc, an atomic commit without
\* NONBLOCK): waits for the flip in progress, and for b's rendering when
\* waits is set, then shows b.
Show(b, waits) ==
  /\ master
  /\ flip = NoBuf
  /\ waits /\ b \in Buffers => Drawn(b)
  /\ onscreen' = b
  /\ UNCHANGED <<flip, fenced>>

\* A page flip to b is accepted only when none is in progress (else -EBUSY).
StartFlip(b, waits) ==
  /\ master
  /\ flip = NoBuf
  /\ flip' = b
  /\ fenced' = waits
  /\ UNCHANGED onscreen

\* The flip completes at a vertical blank, once the buffer it waits for is
\* drawn; its fence signals, which opens the GPU's gate.
Vblank ==
  /\ flip # NoBuf
  /\ fenced => Drawn(flip)
  /\ onscreen' = flip
  /\ flip' = NoBuf
  /\ fenced' = FALSE
  /\ running' = running \cup held
  /\ held' = {}
  /\ gate' = FALSE
  /\ UNCHANGED <<surfaceVars, master>>
===============================================================================
