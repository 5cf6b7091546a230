----------------------------- MODULE RotatedPresent -----------------------------
(***************************************************************************)
(* The rotated present of SDL_kmsdrmrotate.c, driven by                    *)
(* KMSDRM_GLES_SwapWindowRotated: on a panel mounted sideways each frame   *)
(* of the application, drawn into a surface of its own, is read by a       *)
(* rotate pass in a second GL context and drawn into the surface that is   *)
(* scanned out.  This module is about the application's buffers: who may   *)
(* write them, who may still read them, and when EGL gets them back.       *)
(*                                                                         *)
(* The flip of the scanned-out surface is one of the three swap paths of   *)
(* KmsAtomic and KmsLegacy, seen from here: it may fail before it has      *)
(* waited for the flip before it, or after; the fenced one also makes the  *)
(* rotate context's later passes wait until the new flip has completed,    *)
(* which itself waits for the pass of its frame.                           *)
(***************************************************************************)
EXTENDS FiniteSets

CONSTANTS
  Buffers,  \* the buffers of the application's GBM surface
  NoBuf,    \* a NULL gbm_bo
  Faults,   \* the calls that may fail
  Events    \* what else happens to the window: "dirty", "vt"

ASSUME RotatedPresentAssumption ==
  /\ NoBuf \notin Buffers
  /\ Faults \subseteq {"swap", "sync", "lock", "makecurrent", "image",
                       "present", "create"}
  /\ Events \subseteq {"dirty", "vt"}

VARIABLES
  pc,           \* where the program's thread is
  rotate,       \* windata->rotate and both surfaces exist
  swap_window,  \* the swap path below: "fenced", "double" or "legacy"
  have_fences,  \* rot->have_fences
  dirty,        \* windata->egl_surface_dirty
  away,         \* another VT is shown
  current,      \* the thread's EGL context: "app", "rotate" or "none"
  locked,       \* application buffers locked by lock_front_buffer
  front,        \* the one eglSwapBuffers marked
  back,         \* the one the application renders into
  bo,           \* the local of BeginPresent
  app_fence,    \* the local of BeginPresent: a fence object
  frame_bo,     \* rot->frame_bo
  frame_fence,  \* rot->frame_fence: a fence object
  pending_bo,   \* rot->pending_bo
  pending_fence,\* rot->pending_fence: a fence object
  swap_ok,      \* the result of the last SDL_GL_SwapWindow
  drawing,      \* buffers the application's submitted commands may be writing
  queued,       \* buffers of submitted passes that have not started
  reading,      \* buffers a pass may be reading now
  held,         \* queued passes that wait for the flip in progress
  flip,         \* a flip of the present surface is in progress
  awaited       \* the passes that flip waits for

poolVars  == <<locked, front, back>>
rotVars   == <<frame_bo, frame_fence, pending_bo, pending_fence>>
localVars == <<bo, app_fence>>
gpuVars   == <<drawing, queued, reading, held, flip, awaited>>
winVars   == <<rotate, swap_window, have_fences, dirty, away>>
vars == <<pc, winVars, current, poolVars, localVars, rotVars, swap_ok, gpuVars>>

TypeOK ==
  /\ pc \in {"idle", "lock", "pass", "inner", "flip", "end",
             "destroy", "create", "acquire"}
  /\ swap_window \in {"fenced", "double", "legacy"}
  /\ {rotate, have_fences, dirty, away} \subseteq BOOLEAN
  /\ current \in {"app", "rotate", "none"}
  /\ locked \subseteq Buffers
  /\ {front, back, bo, frame_bo, pending_bo} \subseteq Buffers \cup {NoBuf}
  /\ {app_fence, frame_fence, pending_fence, swap_ok, flip} \subseteq BOOLEAN
  /\ drawing \cup queued \cup reading \cup awaited \subseteq Buffers
  /\ held \subseteq queued

Init ==
  /\ pc = "idle"
  /\ rotate = TRUE
  /\ swap_window \in {"fenced", "double", "legacy"}
  /\ have_fences \in BOOLEAN
  /\ dirty = FALSE
  /\ away = FALSE
  /\ current = "app"
  /\ locked = {}
  /\ front = NoBuf
  /\ back = NoBuf
  /\ bo = NoBuf
  /\ app_fence = FALSE
  /\ frame_bo = NoBuf
  /\ frame_fence = FALSE
  /\ pending_bo = NoBuf
  /\ pending_fence = FALSE
  /\ swap_ok = TRUE
  /\ drawing = {}
  /\ queued = {}
  /\ reading = {}
  /\ held = {}
  /\ flip = FALSE
  /\ awaited = {}

SwapReturns(ok) == pc' = "idle" /\ swap_ok' = ok
Goto(label) == pc' = label /\ UNCHANGED swap_ok
Fails(label) == pc' = label /\ swap_ok' = FALSE
Free == Buffers \ (locked \cup {front, back})
\* The rotate pass of b has been executed (its fence has signalled).
PassDone(b) == b \notin queued \cup reading

-------------------------------------------------------------------------------
(* The application, the VT and the window, between two swaps *)

\* What the application draws while the rotate context is current (EndPresent
\* may leave it so) goes to the present surface, and is not followed.
AppRenders ==
  /\ pc = "idle"
  /\ current = "app"
  /\ back = NoBuf
  /\ \E b \in Free : back' = b /\ drawing' = drawing \cup {b}
  /\ UNCHANGED <<pc, winVars, current, locked, front, localVars, rotVars,
                 swap_ok, queued, reading, held, flip, awaited>>

DirtySurfaces ==
  /\ pc = "idle"
  /\ "dirty" \in Events
  /\ dirty' = TRUE
  /\ UNCHANGED <<pc, rotate, swap_window, have_fences, away, current, poolVars,
                 localVars,
                 rotVars, swap_ok, gpuVars>>

ReleaseVT ==
  /\ pc = "idle"
  /\ "vt" \in Events
  /\ ~away
  /\ away' = TRUE
  /\ Goto("destroy")
  /\ UNCHANGED <<rotate, swap_window, have_fences, dirty, current, poolVars,
                 localVars,
                 rotVars, gpuVars>>

AcquireVT ==
  /\ pc = "idle"
  /\ away
  /\ away' = FALSE
  /\ Goto("acquire")
  /\ UNCHANGED <<rotate, swap_window, have_fences, dirty, current, poolVars,
                 localVars,
                 rotVars, gpuVars>>

-------------------------------------------------------------------------------
(* The swap *)

\* KMSDRM_GLES_SwapWindow dispatches on windata->rotate, which is gone with the
\* surfaces: the swap path below is called on no surface.  The fenced one fails,
\* the legacy one skips the swap.
SwapNotRotated ==
  /\ pc = "idle"
  /\ ~rotate
  /\ SwapReturns(swap_window = "legacy")
  /\ UNCHANGED <<winVars, current, poolVars, localVars, rotVars, gpuVars>>

\* A pending change rebuilds the surfaces; the frame just drawn is dropped.
SwapRebuilds ==
  /\ pc = "idle"
  /\ rotate
  /\ dirty
  /\ Goto("destroy")
  /\ UNCHANGED <<winVars, current, poolVars, localVars, rotVars, gpuVars>>

\* The application's eglSwapBuffers, and the fence behind its commands.  EGL
\* swaps only a surface of the current context.
SwapBuffers ==
  /\ pc = "idle"
  /\ rotate
  /\ ~dirty
  /\ \/ /\ current = "app"
        /\ \E b \in Buffers : /\ IF back = NoBuf THEN b \in Free ELSE b = back
                              /\ front' = b
        /\ back' = NoBuf
        /\ \/ app_fence' = have_fences
           \/ "sync" \in Faults /\ app_fence' = FALSE
        /\ Goto("lock")
     \/ /\ \/ "swap" \in Faults
           \/ current # "app"
           \/ back = NoBuf /\ Free = {}
        /\ Fails("end")
        /\ UNCHANGED <<front, back, app_fence>>
  /\ UNCHANGED <<winVars, current, locked, bo, rotVars, gpuVars>>

PassOnNothing == Fails("pass")  \* mutant
LockFailed == Fails("end")

\* Without a fence the frame is finished (glFinish) before it is locked.
LockFrontBuffer ==
  /\ pc = "lock"
  /\ ~app_fence => drawing = {}
  /\ \/ /\ bo' = front
        /\ locked' = locked \cup {front}
        /\ front' = NoBuf
        /\ UNCHANGED app_fence
        /\ Goto("pass")
     \/ /\ "lock" \in Faults
        /\ bo' = NoBuf
        /\ app_fence' = FALSE
        /\ LockFailed
        /\ UNCHANGED <<locked, front>>
  /\ UNCHANGED <<winVars, current, back, rotVars, gpuVars>>

NotHandedBack == {}  \* mutant
HandedBackOnError == {bo}
BehindItsOwnFlip == swap_window = "fenced"  \* mutant
BehindFlip == swap_window = "fenced" /\ flip

\* The rotate context is made current, the buffer's image found or made, and
\* the pass drawn, behind the flip the fenced path told the GPU to wait for.
RotatePass ==
  /\ pc = "pass"
  /\ app_fence' = FALSE
  /\ \/ /\ current' = "rotate"
        /\ queued' = queued \cup {bo}
        /\ held' = IF BehindFlip THEN held \cup {bo} ELSE held
        /\ frame_bo' = bo
        /\ \/ frame_fence' = have_fences
           \/ "sync" \in Faults /\ frame_fence' = FALSE
        /\ Goto("inner")
        /\ UNCHANGED locked
     \/ /\ \/ "makecurrent" \in Faults /\ UNCHANGED current
           \/ "image" \in Faults /\ current' = "rotate"
        /\ locked' = locked \ HandedBackOnError
        /\ Fails("end")
        /\ UNCHANGED <<queued, held, frame_bo, frame_fence>>
  /\ UNCHANGED <<winVars, front, back, bo, pending_bo, pending_fence, drawing,
                 reading, flip, awaited>>

\* windata->swap_window, up to its wait for the flip before.  The eglSwapBuffers,
\* lock and framebuffer of the atomic paths and the poll of the legacy path can
\* fail with that flip still in progress, as can a commit after a poll that gave
\* up.  Without a fence the pass was finished first.
SwapWindow ==
  /\ pc = "inner"
  /\ ~frame_fence => PassDone(frame_bo)
  /\ \/ Goto("flip")
     \/ "present" \in Faults /\ Fails("end")
  /\ UNCHANGED <<winVars, current, poolVars, localVars, rotVars, gpuVars>>

\* The flip is queued, and waits for the pass that draws its frame.
FlipQueued == flip' = TRUE /\ awaited' = {frame_bo} \ {b \in Buffers : PassDone(b)}
NoFlip == UNCHANGED <<flip, awaited>>

\* With no flip in progress any more: the nonblocking commit, the blocking one
\* that returns when the frame is shown, or drmModePageFlip, whose failure is
\* logged and after which the immediate wait can fail.
Present ==
  /\ pc = "flip"
  /\ ~flip
  /\ swap_window = "double" => PassDone(frame_bo)
  /\ pc' = "end"
  /\ \/ (IF swap_window = "double" THEN NoFlip ELSE FlipQueued) /\ swap_ok' = TRUE
     \/ "present" \in Faults /\ NoFlip /\ swap_ok' \in {FALSE, swap_window = "legacy"}
     \/ "present" \in Faults /\ swap_window = "legacy" /\ FlipQueued /\ swap_ok' = FALSE
  /\ UNCHANGED <<winVars, current, poolVars, localVars, rotVars, drawing,
                 queued, reading, held>>

NoWait == TRUE  \* mutant
PendingPassDone == pending_fence => PassDone(pending_bo)

\* KMSDRM_Rotate_EndPresent: the previous frame's buffer goes back to the
\* application once its pass is done.  Whether its context could be made
\* current again is not looked at.
EndPresent ==
  /\ pc = "end"
  /\ IF frame_bo # NoBuf
       THEN /\ pending_bo # NoBuf => PendingPassDone
            /\ locked' = locked \ {pending_bo}
            /\ pending_bo' = frame_bo
            /\ pending_fence' = frame_fence
            /\ frame_bo' = NoBuf
            /\ frame_fence' = FALSE
       ELSE UNCHANGED <<locked, rotVars>>
  /\ \/ current' = "app"
     \/ "makecurrent" \in Faults /\ UNCHANGED current
  /\ Goto("idle")
  /\ UNCHANGED <<winVars, front, back, localVars, gpuVars>>

-------------------------------------------------------------------------------
(* DestroySurfaces and CreateSurfaces, seen from the application's surface *)

\* The blocking commit to the console has waited for the flip; the last pass
\* is waited for, then both surfaces go, and with them all that used them.
DestroySurfaces ==
  /\ pc = "destroy"
  /\ ~flip
  /\ pending_bo # NoBuf => PendingPassDone
  /\ rotate' = FALSE
  /\ current' = "none"
  /\ locked' = {}
  /\ front' = NoBuf
  /\ back' = NoBuf
  /\ pending_bo' = NoBuf
  /\ pending_fence' = FALSE
  /\ drawing' = {}
  /\ queued' = {}
  /\ reading' = {}
  /\ held' = {}
  /\ Goto(IF away THEN "idle" ELSE "create")
  /\ UNCHANGED <<swap_window, have_fences, dirty, away, localVars, frame_bo,
                 frame_fence, flip, awaited>>

\* A swap that rebuilds returns what the rebuild returns.
Created(ok) == IF pc = "create" THEN SwapReturns(ok) ELSE Goto("idle")

CreateSurfaces ==
  /\ pc \in {"create", "acquire"}
  /\ \/ /\ rotate' = TRUE
        /\ current' = "app"
        /\ dirty' = FALSE
        /\ Created(TRUE)
     \/ /\ "create" \in Faults
        /\ rotate' = FALSE
        /\ current' = "none"
        /\ dirty' \in {FALSE, dirty}
        /\ Created(FALSE)
  /\ UNCHANGED <<swap_window, have_fences, away, poolVars, localVars, rotVars,
                 gpuVars>>

-------------------------------------------------------------------------------
(* The GPU and the display *)

progVars == <<pc, winVars, current, poolVars, localVars, rotVars, swap_ok>>

AppFrameDone(b) ==
  /\ b \in drawing
  /\ drawing' = drawing \ {b}
  /\ UNCHANGED <<progVars, queued, reading, held, flip, awaited>>

\* A pass starts behind the frame it reads (eglWaitSyncKHR on app_fence, or the
\* frame was finished) and behind the flip.
FrameDrawn(b) == b \notin drawing

PassStarts(b) ==
  /\ b \in queued \ held
  /\ FrameDrawn(b)
  /\ queued' = queued \ {b}
  /\ reading' = reading \cup {b}
  /\ UNCHANGED <<progVars, drawing, held, flip, awaited>>

PassEnds(b) ==
  /\ b \in reading
  /\ reading' = reading \ {b}
  /\ awaited' = awaited \ {b}
  /\ UNCHANGED <<progVars, drawing, queued, held, flip>>

\* The flip is shown, and its fence lets the passes behind it go.
FlipDone ==
  /\ flip
  /\ awaited = {}
  /\ flip' = FALSE
  /\ held' = {}
  /\ UNCHANGED <<progVars, drawing, queued, reading, awaited>>

Backend == \/ LockFrontBuffer \/ RotatePass \/ SwapWindow \/ Present
           \/ EndPresent \/ DestroySurfaces \/ CreateSurfaces

Gpu(b) == AppFrameDone(b) \/ PassStarts(b) \/ PassEnds(b)

Next == \/ AppRenders \/ DirtySurfaces \/ ReleaseVT \/ AcquireVT
        \/ SwapNotRotated \/ SwapRebuilds \/ SwapBuffers
        \/ Backend \/ (\E b \in Buffers : Gpu(b)) \/ FlipDone

Spec == Init /\ [][Next]_vars

\* A swap in progress continues, the GPU executes what it was given, and a flip
\* whose frame is ready completes.
FairSpec == /\ Spec
            /\ WF_vars(Backend)
            /\ \A b \in Buffers : WF_vars(Gpu(b))
            /\ WF_vars(FlipDone)

-------------------------------------------------------------------------------
(* Safety *)

\* The application's GPU commands never write a buffer a rotate pass reads, and
\* never wrote one that a pass is still to read: "only then may the application
\* render into that buffer again".
NoTornFrame == reading \cap drawing = {} /\ back \notin queued \cup reading

\* Whatever step of a present fails, the locked application buffers are the
\* ones the window will hand back, two at most.
AppLockedAccounted ==
  locked = (IF pc = "pass" THEN {bo, pending_bo} ELSE {frame_bo, pending_bo})
             \ {NoBuf}

\* "make `app_context` current again": the application finds its own context
\* after a present, while there is a surface to make it current on.  It does not when
\* the call that restores it fails, which EndPresent does not notice.
ContextRestored == pc = "idle" /\ rotate => current = "app"

-------------------------------------------------------------------------------
(* Liveness *)

\* Every call into the backend returns, also after a present that failed while
\* the flip before it was in progress: EndPresent then waits for a pass held
\* behind that flip, which must not be waiting for that pass.
CallReturns == pc # "idle" ~> pc = "idle"
=================================================================================
