---------------------------- MODULE KmsLegacyProofs ----------------------------
(***************************************************************************)
(* Proofs about KmsLegacy, for every set of buffers, both modes and every  *)
(* set of faults and events: first of the wait for flips, then of the      *)
(* locks, then that the path implements ScanoutProtocol as long as the     *)
(* calls that carry a frame succeed.                                       *)
(***************************************************************************)
EXTENDS KmsLegacy, TLAPS

\* A swap that got as far has a buffer to lock, or one it has locked.
SwapHasBuffer ==
  /\ pc = "lock" => front \in Buffers
  /\ pc \in {"modeset", "flip"} => next_bo \in Buffers

TypeInv == TypeOK /\ SwapHasBuffer

\* The flag says that there is something to wait for: the flip in progress, or
\* the event of one that is over, never both.
AwaitedComes ==
  /\ waiting_for_flip <=> flip_event \/ flip # NoBuf
  /\ ~(flip_event /\ flip # NoBuf)

\* Between the wait and the next flip there is nothing to wait for.
WaitedFirst ==
  pc \in {"swap", "lock", "modeset", "flip"} => ~waiting_for_flip

AwaitInv == AwaitedComes /\ WaitedFirst

\* The window knows the buffers it has locked, and once a swap has released the
\* one before the last there is one at most.
LockedIsKnown ==
  /\ locked \subseteq {bo, next_bo}
  /\ pc \in {"swap", "lock"} => locked \subseteq {bo}

\* A buffer of EGL's is not locked.
EglOwns ==
  /\ front \in Buffers => front \notin locked /\ front # back
  /\ back \in Buffers => back \notin locked
  /\ "lock" \notin Faults /\ pc # "lock" => front = NoBuf

\* Two buffers will do, and where locking the front buffer fails a third, since
\* the one it failed for stays with EGL until the next swap.
EnoughBuffers ==
  \E a, b \in Buffers :
    /\ a # b
    /\ "lock" \in Faults => \E c \in Buffers : c # a /\ c # b

LockInv == LockedIsKnown /\ EglOwns

-------------------------------------------------------------------------------
(* In a sound behaviour *)

Tearing == {"td_crtc", "td_free", "create"}

\* Nothing waits at the gate, which only the atomic path closes.
NoGate == ~gate /\ held = {}

\* Without DRM master there is neither a surface nor a call in progress, and only
\* with a surface does a swap get to lock a buffer.
AwayIsIdle ==
  /\ ~master => pc = "idle" /\ ~gs
  /\ pc \in {"lock", "modeset", "flip"} => gs

\* Nothing of a surface that is gone is known or shown.
GoneIsForgotten ==
  /\ ~gs \/ pc = "create" => /\ bo = NoBuf /\ next_bo = NoBuf /\ locked = {}
                             /\ onscreen = Tty /\ flip = NoBuf /\ running = {}
  /\ pc = "td_free" => onscreen = Tty /\ flip = NoBuf

\* The window's buffers, where the screen still shows the one the flip replaces
\* or already the one it brought.
BetweenSwaps ==
  pc \in {"idle", "wait", "wait_now", "td_crtc"} =>
    /\ locked = {bo, next_bo} \ {NoBuf}
    /\ bo \in Buffers => next_bo \in Buffers /\ bo # next_bo
    /\ \/ flip = NoBuf /\ onscreen = IF next_bo = NoBuf THEN Tty ELSE next_bo
       \/ flip = next_bo /\ onscreen = bo

\* During a swap the window's last buffer is the one shown, and locked.
DuringSwap ==
  pc \in {"swap", "lock", "modeset", "flip"} =>
    /\ flip = NoBuf
    /\ onscreen = IF bo = NoBuf THEN Tty ELSE bo
    /\ pc \in {"swap", "lock"} => bo = next_bo /\ locked = {bo} \ {NoBuf}
    /\ pc = "modeset" => bo = NoBuf /\ locked = {next_bo}
    /\ pc = "flip" => bo \in Buffers /\ bo # next_bo /\ locked = {bo, next_bo}

\* What is shown is not being drawn, and a flip waits for what is.
ShownIsDrawn ==
  /\ onscreen \notin running
  /\ flip # NoBuf => fenced

SoundInv ==
  sound => GoneIsForgotten /\ BetweenSwaps /\ DuringSwap /\ ShownIsDrawn

-------------------------------------------------------------------------------
(* Type correctness *)

\* What the SMT solver needs to know of the values of Boolean variables.
LEMMA BooleanValues == \A z : z = TRUE \/ z = FALSE => z \in BOOLEAN
BY Zenon

LEMMA TypeInit == Init => TypeInv
BY DEF Init, WorldInit, TypeInv, TypeOK, WorldTypeOK, SwapHasBuffer

LEMMA TypeStep == TypeInv /\ [Next]_vars => TypeInv'
<1> SUFFICES ASSUME TypeInv, [Next]_vars PROVE TypeInv'
  OBVIOUS
<1> USE BooleanValues
    DEF TypeInv, TypeOK, WorldTypeOK, SwapHasBuffer,
        SwapReturns, Goto, worldVars, surfaceVars, gpuVars,
        displayVars, flipVars, windowVars, modeVars, progVars
<1>1. CASE AppRenders
  BY <1>1 DEF AppRenders, Render, Free
<1>2. CASE DirtySurfaces
  BY <1>2 DEF DirtySurfaces
<1>3. CASE ReleaseVT
  BY <1>3 DEF ReleaseVT
<1>4. CASE AcquireVT
  BY <1>4 DEF AcquireVT
<1>5. CASE SkipSwap
  BY <1>5 DEF SkipSwap
<1>6. CASE BeginSwap
  BY <1>6 DEF BeginSwap
<1>7. CASE PollFails
  BY <1>7 DEF PollFails
<1>8. CASE WaitPageflip
  BY <1>8 DEF WaitPageflip, FlipAwaited, ReleasedBySwap
<1>9. CASE SwapBuffers
  BY <1>9 DEF SwapBuffers, EglSwap, EglSwapFails, CannotSwap, Free
<1>10. CASE LockFrontBuffer
  BY <1>10 DEF LockFrontBuffer, LockFailed
<1>11. CASE SetCrtc
  BY <1>11 DEF SetCrtc, Show, Drawn
<1>12. CASE PageFlip
  BY <1>12 DEF PageFlip, StartFlip, FailureAwaited
<1>13. CASE WaitNow
  BY <1>13 DEF WaitNow, FlipAwaited
<1>14. CASE TeardownCrtc
  BY <1>14 DEF TeardownCrtc, ConsoleRestored, Show
<1>15. CASE TeardownFree
  BY <1>15 DEF TeardownFree, FreeSurface, EventKept, ClearedBo
<1>16. CASE CreateSurfaces
  BY <1>16 DEF CreateSurfaces
<1>17. CASE \E b \in Buffers : Gpu(b)
  BY <1>17 DEF Gpu, GpuDone
<1>18. CASE Display
  BY <1>18 DEF Display, Vblank, Drawn, EventSent
<1>19. CASE UNCHANGED vars
  BY <1>19 DEF vars
<1> QED
  BY <1>1, <1>2, <1>3, <1>4, <1>5, <1>6, <1>7, <1>8, <1>9, <1>10, <1>11,
     <1>12, <1>13, <1>14, <1>15, <1>16, <1>17, <1>18, <1>19
     DEF Next, App, Backend

\* Every variable keeps its type; in particular no framebuffer is looked up for a
\* buffer that locking did not return.
THEOREM TypeCorrect == Spec => []TypeOK
<1>1. TypeInv => TypeOK
  BY DEF TypeInv
<1> QED
  BY <1>1, TypeInit, TypeStep, PTL DEF Spec

-------------------------------------------------------------------------------
(* The wait for flips *)

LEMMA AwaitInit == Init => AwaitInv
BY DEF Init, WorldInit, AwaitInv, AwaitedComes, WaitedFirst

LEMMA AwaitStep == TypeInv /\ AwaitInv /\ [Next]_vars => AwaitInv'
<1> SUFFICES ASSUME TypeInv, AwaitInv, [Next]_vars PROVE AwaitInv'
  OBVIOUS
<1> USE GbmKmsAssumption
    DEF TypeInv, TypeOK, WorldTypeOK, SwapHasBuffer, AwaitInv, AwaitedComes,
        WaitedFirst, SwapReturns, Goto, worldVars, surfaceVars, gpuVars,
        displayVars, flipVars, windowVars, modeVars, progVars
<1>1. CASE AppRenders
  BY <1>1 DEF AppRenders, Render, Free
<1>2. CASE DirtySurfaces
  BY <1>2 DEF DirtySurfaces
<1>3. CASE ReleaseVT
  BY <1>3 DEF ReleaseVT
<1>4. CASE AcquireVT
  BY <1>4 DEF AcquireVT
<1>5. CASE SkipSwap
  BY <1>5 DEF SkipSwap
<1>6. CASE BeginSwap
  BY <1>6 DEF BeginSwap
<1>7. CASE PollFails
  BY <1>7 DEF PollFails
<1>8. CASE WaitPageflip
  BY <1>8 DEF WaitPageflip, FlipAwaited, ReleasedBySwap
<1>9. CASE SwapBuffers
  BY <1>9 DEF SwapBuffers, EglSwap, EglSwapFails, CannotSwap, Free
<1>10. CASE LockFrontBuffer
  BY <1>10 DEF LockFrontBuffer, LockFailed
<1>11. CASE SetCrtc
  BY <1>11 DEF SetCrtc, Show, Drawn
<1>12. CASE PageFlip
  BY <1>12 DEF PageFlip, StartFlip, FailureAwaited
<1>13. CASE WaitNow
  BY <1>13 DEF WaitNow, FlipAwaited
<1>14. CASE TeardownCrtc
  BY <1>14 DEF TeardownCrtc, ConsoleRestored, Show
<1>15. CASE TeardownFree
  BY <1>15 DEF TeardownFree, FreeSurface, EventKept, ClearedBo
<1>16. CASE CreateSurfaces
  BY <1>16 DEF CreateSurfaces
<1>17. CASE \E b \in Buffers : Gpu(b)
  BY <1>17 DEF Gpu, GpuDone
<1>18. CASE Display
  BY <1>18 DEF Display, Vblank, Drawn, EventSent
<1>19. CASE UNCHANGED vars
  BY <1>19 DEF vars
<1> QED
  BY <1>1, <1>2, <1>3, <1>4, <1>5, <1>6, <1>7, <1>8, <1>9, <1>10, <1>11,
     <1>12, <1>13, <1>14, <1>15, <1>16, <1>17, <1>18, <1>19
     DEF Next, App, Backend

\* Whatever fails, however often the surfaces are rebuilt and the VT is left with
\* a flip in progress, drmModePageFlip is not called ahead of a flip.
THEOREM FlipsAreNotBusy == Spec => []NoBusyFlip
<1>1. AwaitInv => NoBusyFlip
  BY DEF AwaitInv, AwaitedComes, WaitedFirst, NoBusyFlip
<1> QED
  BY <1>1, TypeInit, TypeStep, AwaitInit, AwaitStep, PTL DEF Spec

\* KMSDRM_WaitPageflip waits only for a flip that is in progress or whose event
\* is there to be read, also after the surface of that flip was destroyed.
THEOREM NoWaitIsInVain == Spec => []AwaitedComes
<1>1. AwaitInv => AwaitedComes
  BY DEF AwaitInv
<1> QED
  BY <1>1, TypeInit, TypeStep, AwaitInit, AwaitStep, PTL DEF Spec

-------------------------------------------------------------------------------
(* The locks *)

LEMMA LockInit == Init => LockInv
BY GbmKmsAssumption DEF Init, WorldInit, LockInv, LockedIsKnown, EglOwns

LEMMA LockStep == TypeInv /\ LockInv /\ [Next]_vars => LockInv'
<1> SUFFICES ASSUME TypeInv, LockInv, [Next]_vars PROVE LockInv'
  OBVIOUS
<1> USE GbmKmsAssumption
    DEF TypeInv, TypeOK, WorldTypeOK, SwapHasBuffer, LockInv, LockedIsKnown,
        EglOwns, MayFail, SwapReturns, Goto, worldVars, surfaceVars, gpuVars,
        displayVars, flipVars, windowVars, modeVars, progVars
<1>1. CASE AppRenders
  BY <1>1 DEF AppRenders, Render, Free
<1>2. CASE DirtySurfaces
  BY <1>2 DEF DirtySurfaces
<1>3. CASE ReleaseVT
  BY <1>3 DEF ReleaseVT
<1>4. CASE AcquireVT
  BY <1>4 DEF AcquireVT
<1>5. CASE SkipSwap
  BY <1>5 DEF SkipSwap
<1>6. CASE BeginSwap
  BY <1>6 DEF BeginSwap
<1>7. CASE PollFails
  BY <1>7 DEF PollFails
<1>8. CASE WaitPageflip
  BY <1>8 DEF WaitPageflip, FlipAwaited, ReleasedBySwap
<1>9. CASE SwapBuffers
  BY <1>9 DEF SwapBuffers, EglSwap, EglSwapFails, CannotSwap, Free
<1>10. CASE LockFrontBuffer
  BY <1>10 DEF LockFrontBuffer, LockFailed
<1>11. CASE SetCrtc
  BY <1>11 DEF SetCrtc, Show, Drawn
<1>12. CASE PageFlip
  BY <1>12 DEF PageFlip, StartFlip, FailureAwaited
<1>13. CASE WaitNow
  BY <1>13 DEF WaitNow, FlipAwaited
<1>14. CASE TeardownCrtc
  BY <1>14 DEF TeardownCrtc, ConsoleRestored, Show
<1>15. CASE TeardownFree
  BY <1>15 DEF TeardownFree, FreeSurface, EventKept, ClearedBo
<1>16. CASE CreateSurfaces
  BY <1>16 DEF CreateSurfaces
<1>17. CASE \E b \in Buffers : Gpu(b)
  BY <1>17 DEF Gpu, GpuDone
<1>18. CASE Display
  BY <1>18 DEF Display, Vblank, Drawn, EventSent
<1>19. CASE UNCHANGED vars
  BY <1>19 DEF vars
<1> QED
  BY <1>1, <1>2, <1>3, <1>4, <1>5, <1>6, <1>7, <1>8, <1>9, <1>10, <1>11,
     <1>12, <1>13, <1>14, <1>15, <1>16, <1>17, <1>18, <1>19
     DEF Next, App, Backend

LEMMA EnoughIsFree ==
  EnoughBuffers /\ TypeInv /\ LockInv => BufferForNextFrame
<1> SUFFICES ASSUME EnoughBuffers, TypeInv, LockInv, pc = "swap", back = NoBuf
             PROVE  Free # {}
  BY DEF BufferForNextFrame
<1>1. locked \subseteq {bo}
  BY DEF LockInv, LockedIsKnown
<1>2. \E b \in Buffers : b # bo /\ b # front
  <2>1. CASE "lock" \in Faults
    <3>1. PICK a, b, c \in Buffers : a # b /\ c # a /\ c # b
      BY <2>1 DEF EnoughBuffers
    <3> QED
      BY <3>1
  <2>2. CASE "lock" \notin Faults
    <3>1. front = NoBuf
      BY <2>2 DEF LockInv, EglOwns
    <3> QED
      BY <3>1, GbmKmsAssumption DEF EnoughBuffers
  <2> QED
    BY <2>1, <2>2
<1> QED
  BY <1>1, <1>2, GbmKmsAssumption DEF Free

\* A swap never finds EGL without a buffer, whatever calls failed before it,
\* since the one it replaced was released at its beginning.
THEOREM NextFrameHasBuffer == EnoughBuffers => (Spec => []BufferForNextFrame)
<1> SUFFICES ASSUME EnoughBuffers PROVE Spec => []BufferForNextFrame
  OBVIOUS
<1>1. TypeInv /\ LockInv => BufferForNextFrame
  BY EnoughIsFree
<1> QED
  BY <1>1, TypeInit, TypeStep, LockInit, LockStep, PTL DEF Spec

-------------------------------------------------------------------------------
(* The refinement *)

WorldInv == NoGate /\ AwayIsIdle /\ SoundInv

ProtocolInv == TypeInv /\ AwaitInv /\ LockInv /\ WorldInv

LEMMA WorldInvInit == Init => WorldInv
BY GbmKmsAssumption
   DEF Init, WorldInit, WorldInv, NoGate, AwayIsIdle, SoundInv, GoneIsForgotten,
       BetweenSwaps, DuringSwap, ShownIsDrawn

LEMMA GateStep == NoGate /\ AwayIsIdle /\ [Next]_vars => (NoGate /\ AwayIsIdle)'
<1> SUFFICES ASSUME NoGate, AwayIsIdle, [Next]_vars
             PROVE  (NoGate /\ AwayIsIdle)'
  OBVIOUS
<1> USE GbmKmsAssumption
    DEF NoGate, AwayIsIdle, SwapReturns, Goto, worldVars, surfaceVars, gpuVars,
        displayVars, flipVars, windowVars, modeVars, progVars
<1>1. CASE AppRenders
  BY <1>1 DEF AppRenders, Render, Free
<1>2. CASE DirtySurfaces
  BY <1>2 DEF DirtySurfaces
<1>3. CASE ReleaseVT
  BY <1>3 DEF ReleaseVT
<1>4. CASE AcquireVT
  BY <1>4 DEF AcquireVT
<1>5. CASE SkipSwap
  BY <1>5 DEF SkipSwap
<1>6. CASE BeginSwap
  BY <1>6 DEF BeginSwap
<1>7. CASE PollFails
  BY <1>7 DEF PollFails
<1>8. CASE WaitPageflip
  BY <1>8 DEF WaitPageflip, FlipAwaited, ReleasedBySwap
<1>9. CASE SwapBuffers
  BY <1>9 DEF SwapBuffers, EglSwap, EglSwapFails, CannotSwap, Free
<1>10. CASE LockFrontBuffer
  BY <1>10 DEF LockFrontBuffer, LockFailed
<1>11. CASE SetCrtc
  BY <1>11 DEF SetCrtc, Show, Drawn
<1>12. CASE PageFlip
  BY <1>12 DEF PageFlip, StartFlip, FailureAwaited
<1>13. CASE WaitNow
  BY <1>13 DEF WaitNow, FlipAwaited
<1>14. CASE TeardownCrtc
  BY <1>14 DEF TeardownCrtc, ConsoleRestored, Show
<1>15. CASE TeardownFree
  BY <1>15 DEF TeardownFree, FreeSurface, EventKept, ClearedBo
<1>16. CASE CreateSurfaces
  BY <1>16 DEF CreateSurfaces
<1>17. CASE \E b \in Buffers : Gpu(b)
  BY <1>17 DEF Gpu, GpuDone
<1>18. CASE Display
  BY <1>18 DEF Display, Vblank, Drawn, EventSent
<1>19. CASE UNCHANGED vars
  BY <1>19 DEF vars
<1> QED
  BY <1>1, <1>2, <1>3, <1>4, <1>5, <1>6, <1>7, <1>8, <1>9, <1>10, <1>11,
     <1>12, <1>13, <1>14, <1>15, <1>16, <1>17, <1>18, <1>19
     DEF Next, App, Backend

\* Soundness is of the whole behaviour.
LEMMA SoundStays == [Next]_vars => sound' = sound
<1> SUFFICES ASSUME [Next]_vars PROVE sound' = sound
  OBVIOUS
<1> USE DEF SwapReturns, Goto, worldVars, surfaceVars, gpuVars,
        displayVars, flipVars, windowVars, modeVars, progVars
<1>1. CASE AppRenders
  BY <1>1 DEF AppRenders, Render, Free
<1>2. CASE DirtySurfaces
  BY <1>2 DEF DirtySurfaces
<1>3. CASE ReleaseVT
  BY <1>3 DEF ReleaseVT
<1>4. CASE AcquireVT
  BY <1>4 DEF AcquireVT
<1>5. CASE SkipSwap
  BY <1>5 DEF SkipSwap
<1>6. CASE BeginSwap
  BY <1>6 DEF BeginSwap
<1>7. CASE PollFails
  BY <1>7 DEF PollFails
<1>8. CASE WaitPageflip
  BY <1>8 DEF WaitPageflip, FlipAwaited, ReleasedBySwap
<1>9. CASE SwapBuffers
  BY <1>9 DEF SwapBuffers, EglSwap, EglSwapFails, CannotSwap, Free
<1>10. CASE LockFrontBuffer
  BY <1>10 DEF LockFrontBuffer, LockFailed
<1>11. CASE SetCrtc
  BY <1>11 DEF SetCrtc, Show, Drawn
<1>12. CASE PageFlip
  BY <1>12 DEF PageFlip, StartFlip, FailureAwaited
<1>13. CASE WaitNow
  BY <1>13 DEF WaitNow, FlipAwaited
<1>14. CASE TeardownCrtc
  BY <1>14 DEF TeardownCrtc, ConsoleRestored, Show
<1>15. CASE TeardownFree
  BY <1>15 DEF TeardownFree, FreeSurface, EventKept, ClearedBo
<1>16. CASE CreateSurfaces
  BY <1>16 DEF CreateSurfaces
<1>17. CASE \E b \in Buffers : Gpu(b)
  BY <1>17 DEF Gpu, GpuDone
<1>18. CASE Display
  BY <1>18 DEF Display, Vblank, Drawn, EventSent
<1>19. CASE UNCHANGED vars
  BY <1>19 DEF vars
<1> QED
  BY <1>1, <1>2, <1>3, <1>4, <1>5, <1>6, <1>7, <1>8, <1>9, <1>10, <1>11,
     <1>12, <1>13, <1>14, <1>15, <1>16, <1>17, <1>18, <1>19
     DEF Next, App, Backend

LEMMA SoundStep ==
  ImplicitSync /\ EnoughBuffers /\ ProtocolInv /\ [Next]_vars => SoundInv'
<1> SUFFICES ASSUME ImplicitSync, EnoughBuffers, ProtocolInv, [Next]_vars,
                    sound'
             PROVE  (GoneIsForgotten /\ BetweenSwaps /\ DuringSwap
                      /\ ShownIsDrawn)'
  BY DEF SoundInv
<1>0. sound /\ BufferForNextFrame
  BY SoundStays, EnoughIsFree DEF ProtocolInv
<1> USE <1>0, GbmKmsAssumption
    DEF ProtocolInv, TypeInv, TypeOK, WorldTypeOK, SwapHasBuffer, AwaitInv,
        AwaitedComes, WaitedFirst, LockInv, EglOwns, WorldInv, NoGate,
        AwayIsIdle, SoundInv, GoneIsForgotten, BetweenSwaps, DuringSwap,
        ShownIsDrawn, BufferForNextFrame, MayFail,
        SwapReturns, Goto, worldVars, surfaceVars, gpuVars,
        displayVars, flipVars, windowVars, modeVars, progVars
<1>1. CASE AppRenders
  BY <1>1 DEF AppRenders, Render, Free
<1>2. CASE DirtySurfaces
  BY <1>2 DEF DirtySurfaces
<1>3. CASE ReleaseVT
  BY <1>3 DEF ReleaseVT
<1>4. CASE AcquireVT
  BY <1>4 DEF AcquireVT
<1>5. CASE SkipSwap
  BY <1>5 DEF SkipSwap
<1>6. CASE BeginSwap
  BY <1>6 DEF BeginSwap
<1>7. CASE PollFails
  BY <1>7 DEF PollFails
<1>8. CASE WaitPageflip
  BY <1>8 DEF WaitPageflip, FlipAwaited, ReleasedBySwap
<1>9. CASE SwapBuffers
  BY <1>9 DEF SwapBuffers, EglSwap, EglSwapFails, CannotSwap, Free
<1>10. CASE LockFrontBuffer
  <2>1. /\ pc = "lock" /\ next_bo' = front /\ locked' = locked \cup {front}
        /\ pc' = IF bo = NoBuf THEN "modeset" ELSE "flip"
        /\ UNCHANGED <<gs, gpuVars, displayVars, master, bo>>
    BY <1>10 DEF LockFrontBuffer
  <2>2. front \in Buffers /\ front \notin locked
    BY <2>1
  <2>3. CASE bo = NoBuf
    BY <2>1, <2>2, <2>3
  <2>4. CASE bo \in Buffers
    BY <2>1, <2>2, <2>4
  <2> QED
    BY <2>3, <2>4
<1>11. CASE SetCrtc
  BY <1>11 DEF SetCrtc, Show, Drawn
<1>12. CASE PageFlip
  BY <1>12 DEF PageFlip, StartFlip, FailureAwaited
<1>13. CASE WaitNow
  BY <1>13 DEF WaitNow, FlipAwaited
<1>14. CASE TeardownCrtc
  BY <1>14 DEF TeardownCrtc, ConsoleRestored, Show
<1>15. CASE TeardownFree
  BY <1>15 DEF TeardownFree, FreeSurface, EventKept, ClearedBo
<1>16. CASE CreateSurfaces
  BY <1>16 DEF CreateSurfaces
<1>17. CASE \E b \in Buffers : Gpu(b)
  BY <1>17 DEF Gpu, GpuDone
<1>18. CASE Display
  BY <1>18 DEF Display, Vblank, Drawn, EventSent
<1>19. CASE UNCHANGED vars
  BY <1>19 DEF vars
<1> QED
  BY <1>1, <1>2, <1>3, <1>4, <1>5, <1>6, <1>7, <1>8, <1>9, <1>10, <1>11,
     <1>12, <1>13, <1>14, <1>15, <1>16, <1>17, <1>18, <1>19
     DEF Next, App, Backend

LEMMA ProtocolInvInit == Init => ProtocolInv
BY TypeInit, AwaitInit, LockInit, WorldInvInit DEF ProtocolInv

LEMMA ProtocolInvStep ==
  ImplicitSync /\ EnoughBuffers /\ ProtocolInv /\ [Next]_vars => ProtocolInv'
BY TypeStep, AwaitStep, LockStep, GateStep, SoundStep DEF ProtocolInv, WorldInv

LEMMA InitMapped == Init => Protocol!Init
BY GbmKmsAssumption DEF Init, WorldInit, Protocol!Init

LEMMA StepMapped ==
  ImplicitSync /\ EnoughBuffers /\ ProtocolInv /\ [Next]_vars
    => [Protocol!Next]_Protocol!vars
<1> SUFFICES ASSUME ImplicitSync, EnoughBuffers, ProtocolInv, [Next]_vars
             PROVE  [Protocol!Next]_Protocol!vars
  OBVIOUS
<1>1. CASE ~sound
  BY <1>1, SoundStays DEF Protocol!vars
<1>2. CASE sound
  <2>1. sound' /\ BufferForNextFrame
    BY <1>2, SoundStays, EnoughIsFree DEF ProtocolInv
  <2> USE <1>2, <2>1, GbmKmsAssumption
      DEF ProtocolInv, TypeInv, TypeOK, WorldTypeOK, SwapHasBuffer, AwaitInv,
          AwaitedComes, WaitedFirst, LockInv, EglOwns, WorldInv, NoGate,
          AwayIsIdle, SoundInv, GoneIsForgotten, BetweenSwaps, DuringSwap,
          ShownIsDrawn, MayFail, worldVars, surfaceVars, gpuVars, displayVars,
          Protocol!vars
  \* Everything but the display, the GPU and what is freed with the surface.
  <2>2. CASE UNCHANGED <<displayVars, running>>
    BY <2>2
  <2>3. CASE AppRenders
    <3>1. PICK b \in Buffers : Render(b)
      BY <2>3 DEF AppRenders
    <3>2. running' = running \cup {b} /\ UNCHANGED displayVars
      BY <3>1 DEF Render
    <3>3. {b} \in SUBSET (Buffers \ {IF onscreen \in Buffers THEN onscreen
                                     ELSE NoBuf, flip})
      BY <2>3, <3>1 DEF AppRenders, Render, Free
    <3>4. Protocol!StartWriting
      BY <3>2, <3>3 DEF Protocol!StartWriting
    <3> QED
      BY <3>4 DEF Protocol!Next
  <2>4. CASE SetCrtc
    <3>1. pc = "modeset" /\ Show(next_bo, ImplicitSync) /\ UNCHANGED gpuVars
      BY <2>4 DEF SetCrtc
    <3>2. Protocol!Modeset
      BY <3>1 DEF Show, Drawn, Protocol!Modeset
    <3> QED
      BY <3>2 DEF Protocol!Next
  <2>5. CASE PageFlip
    <3>1. pc = "flip" /\ StartFlip(next_bo, ImplicitSync) /\ UNCHANGED gpuVars
      BY <2>5 DEF PageFlip
    <3>2. Protocol!Queue
      BY <3>1 DEF StartFlip, Protocol!Queue
    <3> QED
      BY <3>2 DEF Protocol!Next
  <2>6. CASE TeardownCrtc
    <3>1. Show(Tty, FALSE) /\ UNCHANGED gpuVars
      BY <2>6 DEF TeardownCrtc, ConsoleRestored
    <3>2. Protocol!Blank
      BY <3>1 DEF Show, Protocol!Blank
    <3> QED
      BY <3>2 DEF Protocol!Next
  <2>7. CASE TeardownFree
    BY <2>7 DEF TeardownFree, FreeSurface, Protocol!Discard, Protocol!Next
  <2>8. CASE \E b \in Buffers : Gpu(b)
    BY <2>8 DEF Gpu, GpuDone, Protocol!FinishWriting, Protocol!Next
  <2>9. CASE Display
    <3>1. /\ flip \in Buffers
          /\ Drawn(flip)
          /\ onscreen' = flip
          /\ flip' = NoBuf
          /\ running' = running \cup {}
      BY <2>9 DEF Display, Vblank
    <3>2. Protocol!Flip
      BY <3>1 DEF Drawn, Protocol!Flip
    <3> QED
      BY <3>2 DEF Protocol!Next
  <2>10. CASE DirtySurfaces \/ ReleaseVT \/ AcquireVT \/ SkipSwap \/ BeginSwap
    BY <2>2, <2>10 DEF DirtySurfaces, ReleaseVT, AcquireVT, SkipSwap, BeginSwap
  <2>11. CASE PollFails \/ WaitPageflip \/ WaitNow \/ CreateSurfaces
    BY <2>2, <2>11 DEF PollFails, WaitPageflip, WaitNow, CreateSurfaces
  <2>12. CASE SwapBuffers \/ LockFrontBuffer
    BY <2>2, <2>12 DEF SwapBuffers, EglSwap, EglSwapFails, LockFrontBuffer
  <2>13. CASE UNCHANGED vars
    BY <2>2, <2>13 DEF vars
  <2> QED
    BY <2>3, <2>4, <2>5, <2>6, <2>7, <2>8, <2>9, <2>10, <2>11, <2>12, <2>13
    DEF Next, App, Backend
<1> QED
  BY <1>1, <1>2

\* On a kernel that waits for a buffer's rendering, the legacy path keeps the
\* promise of ScanoutProtocol in every behaviour in which the calls that put a
\* frame on the screen or take it off succeed.
THEOREM KmsLegacyKeepsProtocol ==
  ImplicitSync /\ EnoughBuffers => (Spec => KeepsProtocol)
<1> SUFFICES ASSUME ImplicitSync, EnoughBuffers PROVE Spec => KeepsProtocol
  OBVIOUS
<1>1. ProtocolInv /\ [Next]_vars => ProtocolInv'
  BY ProtocolInvStep
<1>2. ProtocolInv /\ [Next]_vars => [Protocol!Next]_Protocol!vars
  BY StepMapped
<1> QED
  BY <1>1, <1>2, ProtocolInvInit, InitMapped, PTL
  DEF Spec, KeepsProtocol, Protocol!Spec

\* In such a behaviour the GPU never writes the buffer on the screen, which one
\* failed page flip is enough to break.
THEOREM SoundSwapsProtectScreen ==
  ImplicitSync /\ EnoughBuffers => (Spec => [](sound => BuffersProtected))
<1> SUFFICES ASSUME ImplicitSync, EnoughBuffers
             PROVE  Spec => [](sound => BuffersProtected)
  OBVIOUS
<1>1. ProtocolInv /\ [Next]_vars => ProtocolInv'
  BY ProtocolInvStep
<1>2. ProtocolInv => (sound => BuffersProtected)
  BY DEF ProtocolInv, WorldInv, SoundInv, ShownIsDrawn, BuffersProtected
<1> QED
  BY <1>1, <1>2, ProtocolInvInit, PTL DEF Spec

================================================================================
