---------------------------- MODULE KmsAtomicProofs ----------------------------
(***************************************************************************)
(* Proofs about KmsAtomic, for every number of buffers, both swap paths    *)
(* and every set of faults and events.                                     *)
(*                                                                         *)
(* None of the properties is inductive.  That the GPU stays off the screen *)
(* rests on who holds each buffer's lock, which is handed along the steps  *)
(* of a swap, and on the gate that stands in for the lock between the      *)
(* release of a buffer and the flip that removes it from the screen; the   *)
(* parts of the invariant are named for that.                              *)
(***************************************************************************)
EXTENDS KmsAtomic, TLAPS

\* The places in a swap where next_bo is the buffer being presented.
Presenting == {"modeset", "request", "wait", "commit", "finish"}

\* EGL's own buffers are not locked, and the window's previous one is.
Ownership ==
  /\ front \in Buffers => front \notin locked /\ front # back
  /\ back \in Buffers => back \notin locked
  /\ bo \in Buffers => bo \in locked
  /\ pc = "lock" => front \in Buffers

\* A buffer being presented is locked and is not the one it replaces.
NextIsLocked ==
  pc \in Presenting =>
    \/ next_bo \in locked /\ next_bo # bo
    \/ pc = "commit" /\ atomic_req = NoReq

\* A request that will be committed is for that buffer, and there is none
\* outside of a swap or a teardown.
RequestIsNext ==
  /\ pc \notin {"wait", "commit", "td_commit"} => atomic_req = NoReq
  /\ pc \in {"wait", "commit"} => atomic_req = NoReq \/ atomic_req.fb = next_bo

\* A commit that succeeded has next_bo on its way to the screen, or on it.
CommittedIsNext ==
  pc = "finish" => \/ flip = next_bo
                   \/ flip = NoBuf /\ onscreen = next_bo

\* The gate is closed only during a flip, and only it holds rendering back.
GateNeedsFlip ==
  /\ gate => flip # NoBuf
  /\ held # {} => gate

\* The flip is to a locked buffer, whose rendering does not wait behind it, and
\* only the fenced path starts one that outlives its commit.
FlipIsLocked ==
  /\ flip # NoBuf => flip \in locked
  /\ flip \notin held
  /\ swap_window = "double" => flip = NoBuf

\* What is on the screen is locked, or the gate keeps rendering off it.
ScreenIsHeld ==
  /\ onscreen \in Buffers => onscreen \in locked \/ gate
  /\ onscreen \notin running

\* A flip waits for its buffer's rendering.
FlipIsFenced == flip # NoBuf => fenced

\* While the VT is away, and while the surfaces are rebuilt, there is no buffer.
AwayIsEmpty ==
  /\ ~master => pc = "idle" /\ ~gs /\ bo = NoBuf
  /\ pc = "create" => bo = NoBuf

\* SuccessIsPresented, with the order of the two: once a flip is over, its
\* buffer is the one on the screen.
PresentedInOrder ==
  pc = "idle" /\ swap_ok /\ bo # NoBuf =>
    \/ flip = bo
    \/ flip = NoBuf /\ onscreen = bo

\* Without a timeout of the poll: outside of the step that makes the fences,
\* a flip in progress has a descriptor to wait on, and no commit is tried in one.
FlipIsAwaitable ==
  /\ flip # NoBuf /\ pc # "finish" => kms_out_fence_wait_fd
  /\ pc \in {"commit", "td_crtc", "td_free", "create"} \/ ~master => flip = NoBuf
  /\ swap_window = "double" => flip = NoBuf

\* Unless both the commit and the modeset of a teardown can fail, they move the
\* plane away from the surface before it is freed.
PlaneMovedAway ==
  /\ pc = "td_free" => onscreen = Tty /\ flip = NoBuf
  /\ pc = "td_crtc" /\ "commit" \notin Faults => onscreen = Tty /\ flip = NoBuf

\* LockedAccounted, along the steps of a swap and of a teardown; a commit that
\* a rebuild has left without a request fails with nothing locked.
AccountInv ==
  /\ locked \subseteq {bo, next_bo}
  /\ pc \in {"idle", "lock"} => locked = {bo} \ {NoBuf}
  /\ pc = "create" => locked = {}
  /\ pc = "wait" => atomic_req # NoReq
  /\ pc = "commit" /\ atomic_req = NoReq => locked = {} /\ bo = NoBuf

\* Without rebuilds, a request that waits for its commit is not empty.
NothingRebuilt ==
  /\ ~egl_surface_dirty /\ cont # "rebuild"
  /\ pc \in {"wait", "commit"} => atomic_req # NoReq
  /\ pc # "lock" => front = NoBuf

\* Where the fences of a swap are: the in-fence's descriptor from eglSwapBuffers
\* to the commit that takes it, the out-fence's from there to the end.
FencesHanded ==
  /\ ~gpu_fence
  /\ kms_in_fence_fd => pc \in {"lock", "modeset", "request", "wait", "commit"}
  /\ kms_out_fence_fd => pc = "finish" /\ swap_window = "fenced"
  /\ atomic_req.in_fence => pc \in {"wait", "commit"} /\ swap_window = "fenced"

FenceInv == NothingRebuilt /\ FencesHanded
LockInv == Ownership /\ NextIsLocked /\ RequestIsNext /\ CommittedIsNext
SuccessInv == AwayIsEmpty /\ PresentedInOrder
ScreenInv == GateNeedsFlip /\ FlipIsLocked /\ ScreenIsHeld /\ FlipIsFenced

-------------------------------------------------------------------------------
(* Type correctness *)

\* What the SMT solver needs to know of the values of Boolean variables.
LEMMA BooleanValues == \A z : z = TRUE \/ z = FALSE => z \in BOOLEAN
BY Zenon

LEMMA TypeInit == Init => TypeOK
<1> SUFFICES ASSUME Init PROVE TypeOK
  OBVIOUS
<1>1. WorldTypeOK
  BY DEF Init, WorldInit, WorldTypeOK
<1>2. atomic_req \in [fb : Buffers \cup {NoBuf, Tty}, in_fence : BOOLEAN]
  BY DEF Init, NoReq
<1> QED
  BY <1>1, <1>2 DEF Init, TypeOK, Labels

LEMMA TypeStep == TypeOK /\ [Next]_vars => TypeOK'
<1> SUFFICES ASSUME TypeOK, [Next]_vars PROVE TypeOK'
  OBVIOUS
<1> USE BooleanValues DEF TypeOK, WorldTypeOK, NoReq, Labels, SwapReturns, Goto, worldVars,
        surfaceVars, gpuVars, displayVars, windowVars, fenceVars
<1>1. CASE AppRenders
  BY <1>1 DEF AppRenders, Render, Free
<1>2. CASE DirtySurfaces
  BY <1>2 DEF DirtySurfaces
<1>3. CASE ReleaseVT
  BY <1>3 DEF ReleaseVT
<1>4. CASE AcquireVT
  BY <1>4 DEF AcquireVT
<1>5. CASE SwapBuffers
  BY <1>5 DEF SwapBuffers, EglSwap, EglSwapFails, FenceAlive, Free
<1>6. CASE LockFrontBuffer
  BY <1>6 DEF LockFrontBuffer, LockFailed
<1>7. CASE SetCrtc
  BY <1>7 DEF SetCrtc, Show
<1>8. CASE BuildRequest
  BY <1>8 DEF BuildRequest, HasInFence
<1>9. CASE WaitPending
  BY <1>9 DEF WaitPending
<1>10. CASE AtomicCommit
  BY <1>10 DEF AtomicCommit, Show, StartFlip, CommitFailed, CommitMayFail, Blocking
<1>11. CASE FinishSwap
  BY <1>11 DEF FinishSwap, ReleasedBySwap, GpuWaitsForFlip
<1>12. CASE TeardownCommit
  BY <1>12 DEF TeardownCommit, Show
<1>13. CASE TeardownCrtc
  BY <1>13 DEF TeardownCrtc, Show
<1>14. CASE TeardownFree
  BY <1>14 DEF TeardownFree, FreeSurface
<1>15. CASE CreateSurfaces
  BY <1>15 DEF CreateSurfaces
<1>16. CASE \E b \in Buffers : Gpu(b)
  BY <1>16 DEF Gpu, GpuDone, progVars
<1>17. CASE Display
  BY <1>17 DEF Display, Vblank, progVars
<1>18. CASE UNCHANGED vars
  BY <1>18 DEF vars
<1> QED
  BY <1>1, <1>2, <1>3, <1>4, <1>5, <1>6, <1>7, <1>8, <1>9,
     <1>10, <1>11, <1>12, <1>13, <1>14, <1>15, <1>16, <1>17, <1>18
  DEF Next, App, Backend

\* TypeOK holds in every reachable state.
THEOREM TypeCorrect == Spec => []TypeOK
BY TypeInit, TypeStep, PTL DEF Spec

-------------------------------------------------------------------------------
(* The buffers of a swap *)

LEMMA LockStep == TypeOK /\ LockInv /\ [Next]_vars => LockInv'
<1> SUFFICES ASSUME TypeOK, LockInv, [Next]_vars PROVE LockInv'
  OBVIOUS
<1> USE GbmKmsAssumption, TypeStep DEF LockInv, Ownership, NextIsLocked, RequestIsNext,
        CommittedIsNext, TypeOK, WorldTypeOK, SwapReturns, Goto, worldVars,
        surfaceVars, gpuVars, displayVars, windowVars, fenceVars, Presenting, NoReq
<1>1. CASE AppRenders
  BY <1>1 DEF AppRenders, Render, Free
<1>2. CASE DirtySurfaces
  BY <1>2 DEF DirtySurfaces
<1>3. CASE ReleaseVT
  BY <1>3 DEF ReleaseVT
<1>4. CASE AcquireVT
  BY <1>4 DEF AcquireVT
<1>5. CASE SwapBuffers
  BY <1>5 DEF SwapBuffers, EglSwap, EglSwapFails, FenceAlive, Free
<1>6. CASE LockFrontBuffer
  <2>1. /\ pc = "lock"
        /\ front \in Buffers
        /\ front # bo /\ front # back
        /\ atomic_req = NoReq
        /\ UNCHANGED <<back, bo, atomic_req>>
    BY <1>6 DEF LockFrontBuffer
  <2>2. pc' \in {"modeset", "request", "idle"}
    BY <1>6 DEF LockFrontBuffer, LockFailed
  <2>3. \/ /\ next_bo' = front
           /\ locked' = locked \cup {front}
           /\ front' = NoBuf
        \/ pc' = "idle" /\ UNCHANGED <<front, locked>>
    BY <1>6 DEF LockFrontBuffer, LockFailed
  <2> HIDE DEF SwapReturns, Goto, TypeOK
  <2>4. Ownership'
    BY <2>1, <2>2, <2>3
  <2>5. NextIsLocked'
    BY <2>1, <2>2, <2>3
  <2>6. RequestIsNext' /\ CommittedIsNext'
    BY <2>1, <2>2
  <2> QED
    BY <2>4, <2>5, <2>6
<1>7. CASE SetCrtc
  BY <1>7 DEF SetCrtc, Show
<1>8. CASE BuildRequest
  BY <1>8 DEF BuildRequest, HasInFence
<1>9. CASE WaitPending
  BY <1>9 DEF WaitPending
<1>10. CASE AtomicCommit
  BY <1>10 DEF AtomicCommit, Show, StartFlip, CommitFailed, CommitMayFail, Blocking
<1>11. CASE FinishSwap
  BY <1>11 DEF FinishSwap, ReleasedBySwap, GpuWaitsForFlip
<1>12. CASE TeardownCommit
  BY <1>12 DEF TeardownCommit, Show
<1>13. CASE TeardownCrtc
  BY <1>13 DEF TeardownCrtc, Show
<1>14. CASE TeardownFree
  BY <1>14 DEF TeardownFree, FreeSurface
<1>15. CASE CreateSurfaces
  BY <1>15 DEF CreateSurfaces
<1>16. CASE \E b \in Buffers : Gpu(b)
  BY <1>16 DEF Gpu, GpuDone, progVars
<1>17. CASE Display
  BY <1>17 DEF Display, Vblank, progVars
<1>18. CASE UNCHANGED vars
  BY <1>18 DEF vars
<1> QED
  BY <1>1, <1>2, <1>3, <1>4, <1>5, <1>6, <1>7, <1>8, <1>9,
     <1>10, <1>11, <1>12, <1>13, <1>14, <1>15, <1>16, <1>17, <1>18
  DEF Next, App, Backend

LEMMA LockInit == Init => LockInv
BY GbmKmsAssumption DEF Init, WorldInit, LockInv, Ownership, NextIsLocked, RequestIsNext,
   CommittedIsNext, Presenting

\* Who holds which buffer, and what a commit under way is for, whatever fails.
THEOREM BuffersOwned == Spec => [](TypeOK /\ LockInv)
BY TypeInit, TypeStep, LockInit, LockStep, PTL DEF Spec

-------------------------------------------------------------------------------
(* A swap that succeeded is presented *)

LEMMA SuccessInit == Init => SuccessInv
BY DEF Init, WorldInit, SuccessInv, AwayIsEmpty, PresentedInOrder

LEMMA SuccessStep == TypeOK /\ LockInv /\ SuccessInv /\ [Next]_vars => SuccessInv'
<1> SUFFICES ASSUME TypeOK, LockInv, SuccessInv, [Next]_vars PROVE SuccessInv'
  OBVIOUS
<1> USE GbmKmsAssumption DEF SuccessInv, AwayIsEmpty, PresentedInOrder,
        LockInv, CommittedIsNext, Ownership, NextIsLocked, Presenting, TypeOK, WorldTypeOK,
        SwapReturns, Goto, worldVars, surfaceVars, gpuVars, displayVars, windowVars, fenceVars
<1>1. CASE AppRenders
  BY <1>1 DEF AppRenders, Render, Free
<1>2. CASE DirtySurfaces
  BY <1>2 DEF DirtySurfaces
<1>3. CASE ReleaseVT
  BY <1>3 DEF ReleaseVT
<1>4. CASE AcquireVT
  BY <1>4 DEF AcquireVT
<1>5. CASE SwapBuffers
  BY <1>5 DEF SwapBuffers, EglSwap, EglSwapFails, FenceAlive, Free
<1>6. CASE LockFrontBuffer
  BY <1>6 DEF LockFrontBuffer, LockFailed
<1>7. CASE SetCrtc
  BY <1>7 DEF SetCrtc, Show, Drawn
<1>8. CASE BuildRequest
  BY <1>8 DEF BuildRequest, HasInFence
<1>9. CASE WaitPending
  BY <1>9 DEF WaitPending
<1>10. CASE AtomicCommit
  BY <1>10 DEF AtomicCommit, Show, StartFlip, CommitFailed, CommitMayFail, Blocking, Drawn
<1>11. CASE FinishSwap
  BY <1>11 DEF FinishSwap, ReleasedBySwap, GpuWaitsForFlip
<1>12. CASE TeardownCommit
  BY <1>12 DEF TeardownCommit, Show
<1>13. CASE TeardownCrtc
  BY <1>13 DEF TeardownCrtc, Show
<1>14. CASE TeardownFree
  BY <1>14 DEF TeardownFree, FreeSurface
<1>15. CASE CreateSurfaces
  BY <1>15 DEF CreateSurfaces
<1>16. CASE \E b \in Buffers : Gpu(b)
  BY <1>16 DEF Gpu, GpuDone, progVars
<1>17. CASE Display
  BY <1>17 DEF Display, Vblank, Drawn, progVars
<1>18. CASE UNCHANGED vars
  BY <1>18 DEF vars
<1> QED
  BY <1>1, <1>2, <1>3, <1>4, <1>5, <1>6, <1>7, <1>8, <1>9,
     <1>10, <1>11, <1>12, <1>13, <1>14, <1>15, <1>16, <1>17, <1>18
  DEF Next, App, Backend

\* A swap that reported success has its frame on the screen or queued for it
\* until the surfaces are torn down, whichever of the external calls fail.
THEOREM SuccessfulSwapIsPresented == Spec => []SuccessIsPresented
<1>1. TypeOK /\ SuccessInv => SuccessIsPresented
  BY DEF SuccessInv, PresentedInOrder, SuccessIsPresented
<1> QED
  BY <1>1, BuffersOwned, SuccessInit, SuccessStep, PTL DEF Spec

-------------------------------------------------------------------------------
(* The buffer access protection *)

LEMMA ScreenInit == Init => ScreenInv
BY GbmKmsAssumption DEF Init, WorldInit, ScreenInv, GateNeedsFlip, FlipIsLocked, ScreenIsHeld,
   FlipIsFenced

LEMMA ScreenStep ==
  ImplicitSync /\ TypeOK /\ LockInv /\ ScreenInv /\ [Next]_vars => ScreenInv'
<1> SUFFICES ASSUME ImplicitSync, TypeOK, LockInv, ScreenInv, [Next]_vars PROVE ScreenInv'
  OBVIOUS
<1> USE GbmKmsAssumption, KmsAtomicAssumption
    DEF ScreenInv, GateNeedsFlip, FlipIsLocked,
        ScreenIsHeld, FlipIsFenced,
        LockInv, CommittedIsNext, RequestIsNext, Ownership, NextIsLocked, Presenting,
        TypeOK, WorldTypeOK,
        SwapReturns, Goto, worldVars, surfaceVars, gpuVars, displayVars, windowVars, fenceVars
<1>1. CASE AppRenders
  BY <1>1 DEF AppRenders, Render, Free
<1>2. CASE DirtySurfaces
  BY <1>2 DEF DirtySurfaces
<1>3. CASE ReleaseVT
  BY <1>3 DEF ReleaseVT
<1>4. CASE AcquireVT
  BY <1>4 DEF AcquireVT
<1>5. CASE SwapBuffers
  BY <1>5 DEF SwapBuffers, EglSwap, EglSwapFails, FenceAlive, Free
<1>6. CASE LockFrontBuffer
  BY <1>6 DEF LockFrontBuffer, LockFailed
<1>7. CASE SetCrtc
  BY <1>7 DEF SetCrtc, Show, Drawn
<1>8. CASE BuildRequest
  BY <1>8 DEF BuildRequest, HasInFence
<1>9. CASE WaitPending
  BY <1>9 DEF WaitPending
<1>10. CASE AtomicCommit
  BY <1>10 DEF AtomicCommit, Show, StartFlip, CommitFailed, CommitMayFail, Blocking, Drawn
<1>11. CASE FinishSwap
  BY <1>11 DEF FinishSwap, ReleasedBySwap, GpuWaitsForFlip
<1>12. CASE TeardownCommit
  BY <1>12 DEF TeardownCommit, Show
<1>13. CASE TeardownCrtc
  BY <1>13 DEF TeardownCrtc, Show
<1>14. CASE TeardownFree
  BY <1>14 DEF TeardownFree, FreeSurface
<1>15. CASE CreateSurfaces
  BY <1>15 DEF CreateSurfaces
<1>16. CASE \E b \in Buffers : Gpu(b)
  BY <1>16 DEF Gpu, GpuDone, progVars
<1>17. CASE Display
  BY <1>17 DEF Display, Vblank, Drawn, progVars
<1>18. CASE UNCHANGED vars
  BY <1>18 DEF vars
<1> QED
  BY <1>1, <1>2, <1>3, <1>4, <1>5, <1>6, <1>7, <1>8, <1>9,
     <1>10, <1>11, <1>12, <1>13, <1>14, <1>15, <1>16, <1>17, <1>18
  DEF Next, App, Backend

\* On a kernel that waits for a buffer's rendering when it is given no fence,
\* the GPU never writes what is on the screen and no flip waits for rendering
\* that waits for the flip, whichever of the external calls fail.
THEOREM ScanoutProtected == ImplicitSync => (Spec => []BuffersProtected)
<1> SUFFICES ASSUME ImplicitSync PROVE Spec => []BuffersProtected
  OBVIOUS
<1>1. ScreenInv => BuffersProtected
  BY DEF ScreenInv, ScreenIsHeld, FlipIsLocked, BuffersProtected
<1>2. TypeOK /\ LockInv /\ ScreenInv /\ [Next]_vars => ScreenInv'
  BY ScreenStep
<1> QED
  BY <1>1, <1>2, BuffersOwned, ScreenInit, PTL DEF Spec

-------------------------------------------------------------------------------
(* No commit during a flip *)

LEMMA AwaitInit == Init => FlipIsAwaitable
BY DEF Init, WorldInit, FlipIsAwaitable

LEMMA AwaitStep ==
  /\ "timeout" \notin Faults
  /\ TypeOK /\ SuccessInv /\ FlipIsAwaitable
  /\ [Next]_vars
  => FlipIsAwaitable'
<1> SUFFICES ASSUME "timeout" \notin Faults,
                    TypeOK, SuccessInv, FlipIsAwaitable, [Next]_vars
             PROVE  FlipIsAwaitable'
  OBVIOUS
<1> USE GbmKmsAssumption, KmsAtomicAssumption
    DEF FlipIsAwaitable, SuccessInv, AwayIsEmpty, TypeOK, WorldTypeOK,
        SwapReturns, Goto, worldVars, surfaceVars, gpuVars, displayVars, windowVars, fenceVars
<1>1. CASE AppRenders
  BY <1>1 DEF AppRenders, Render
<1>2. CASE DirtySurfaces
  BY <1>2 DEF DirtySurfaces
<1>3. CASE ReleaseVT
  BY <1>3 DEF ReleaseVT
<1>4. CASE AcquireVT
  BY <1>4 DEF AcquireVT
<1>5. CASE SwapBuffers
  BY <1>5 DEF SwapBuffers, EglSwap, EglSwapFails
<1>6. CASE LockFrontBuffer
  BY <1>6 DEF LockFrontBuffer, LockFailed
<1>7. CASE SetCrtc
  BY <1>7 DEF SetCrtc, Show
<1>8. CASE BuildRequest
  BY <1>8 DEF BuildRequest, HasInFence
<1>9. CASE WaitPending
  BY <1>9 DEF WaitPending, PendingFlipWaited
<1>10. CASE AtomicCommit
  BY <1>10 DEF AtomicCommit, Show, StartFlip, CommitFailed, Blocking
<1>11. CASE FinishSwap
  BY <1>11 DEF FinishSwap
<1>12. CASE TeardownCommit
  BY <1>12 DEF TeardownCommit, PendingFlipWaited, Show
<1>13. CASE TeardownCrtc
  BY <1>13 DEF TeardownCrtc, Show
<1>14. CASE TeardownFree
  BY <1>14 DEF TeardownFree, FreeSurface
<1>15. CASE CreateSurfaces
  BY <1>15 DEF CreateSurfaces
<1>16. CASE \E b \in Buffers : Gpu(b)
  BY <1>16 DEF Gpu, GpuDone, progVars
<1>17. CASE Display
  BY <1>17 DEF Display, Vblank, progVars
<1>18. CASE UNCHANGED vars
  BY <1>18 DEF vars
<1> QED
  BY <1>1, <1>2, <1>3, <1>4, <1>5, <1>6, <1>7, <1>8, <1>9,
     <1>10, <1>11, <1>12, <1>13, <1>14, <1>15, <1>16, <1>17, <1>18
  DEF Next, App, Backend

\* While the poll of a flip's fence does not give up, no commit is made with a
\* flip in progress, whatever else fails.
THEOREM CommitsWhenFlipIsOver == "timeout" \notin Faults => (Spec => []NoBusyCommit)
<1> SUFFICES ASSUME "timeout" \notin Faults PROVE Spec => []NoBusyCommit
  OBVIOUS
<1>1. FlipIsAwaitable => NoBusyCommit
  BY DEF FlipIsAwaitable, NoBusyCommit
<1>2. TypeOK /\ SuccessInv /\ FlipIsAwaitable /\ [Next]_vars => FlipIsAwaitable'
  BY AwaitStep
<1> QED
  BY <1>1, <1>2, BuffersOwned, SuccessInit, SuccessStep, AwaitInit, PTL DEF Spec

-------------------------------------------------------------------------------
(* No buffer is lost *)

NoneLost == {"fb", "setcrtc", "commit", "timeout"} \cap Faults = {}

LEMMA AccountInit == Init => AccountInv
BY GbmKmsAssumption DEF Init, WorldInit, AccountInv

LEMMA AccountStep ==
  /\ NoneLost
  /\ TypeOK /\ LockInv /\ SuccessInv /\ FlipIsAwaitable /\ AccountInv
  /\ [Next]_vars
  => AccountInv'
<1> SUFFICES ASSUME NoneLost, TypeOK, LockInv, SuccessInv, FlipIsAwaitable, AccountInv,
                    [Next]_vars
             PROVE  AccountInv'
  OBVIOUS
<1> USE GbmKmsAssumption
    DEF NoneLost, AccountInv, FlipIsAwaitable, SuccessInv, AwayIsEmpty, LockInv, Ownership,
        NextIsLocked, RequestIsNext, Presenting, TypeOK, WorldTypeOK,
        SwapReturns, Goto, worldVars, surfaceVars, gpuVars, displayVars, windowVars, fenceVars
<1>1. CASE AppRenders
  BY <1>1 DEF AppRenders, Render
<1>2. CASE DirtySurfaces
  BY <1>2 DEF DirtySurfaces
<1>3. CASE ReleaseVT
  BY <1>3 DEF ReleaseVT
<1>4. CASE AcquireVT
  BY <1>4 DEF AcquireVT
<1>5. CASE SwapBuffers
  BY <1>5 DEF SwapBuffers, EglSwap, EglSwapFails
<1>6. CASE LockFrontBuffer
  BY <1>6 DEF LockFrontBuffer, LockFailed
<1>7. CASE SetCrtc
  BY <1>7 DEF SetCrtc, Show
<1>8. CASE BuildRequest
  BY <1>8 DEF BuildRequest, HasInFence, NoReq
<1>9. CASE WaitPending
  BY <1>9 DEF WaitPending
<1>10. CASE AtomicCommit
  BY <1>10 DEF AtomicCommit, Show, StartFlip, CommitFailed, CommitMayFail, Blocking
<1>11. CASE FinishSwap
  BY <1>11 DEF FinishSwap, ReleasedBySwap
<1>12. CASE TeardownCommit
  BY <1>12 DEF TeardownCommit, Show
<1>13. CASE TeardownCrtc
  BY <1>13 DEF TeardownCrtc, Show
<1>14. CASE TeardownFree
  BY <1>14 DEF TeardownFree, FreeSurface
<1>15. CASE CreateSurfaces
  BY <1>15 DEF CreateSurfaces
<1>16. CASE \E b \in Buffers : Gpu(b)
  BY <1>16 DEF Gpu, GpuDone, progVars
<1>17. CASE Display
  BY <1>17 DEF Display, Vblank, progVars
<1>18. CASE UNCHANGED vars
  BY <1>18 DEF vars
<1> QED
  BY <1>1, <1>2, <1>3, <1>4, <1>5, <1>6, <1>7, <1>8, <1>9,
     <1>10, <1>11, <1>12, <1>13, <1>14, <1>15, <1>16, <1>17, <1>18
  DEF Next, App, Backend

\* As long as no commit fails and no locked buffer fails to be shown, each
\* locked buffer is one the window will release.
THEOREM LockedIsKnown == NoneLost => (Spec => []LockedAccounted)
<1> SUFFICES ASSUME NoneLost PROVE Spec => []LockedAccounted
  OBVIOUS
<1>1. AccountInv => LockedAccounted
  BY DEF AccountInv, LockedAccounted
<1>2. TypeOK /\ SuccessInv /\ FlipIsAwaitable /\ [Next]_vars => FlipIsAwaitable'
  BY AwaitStep DEF NoneLost
<1>3. TypeOK /\ LockInv /\ SuccessInv /\ FlipIsAwaitable /\ AccountInv /\ [Next]_vars
      => AccountInv'
  BY AccountStep
<1> QED
  BY <1>1, <1>2, <1>3, BuffersOwned, SuccessInit, SuccessStep, AwaitInit, AccountInit,
     PTL DEF Spec

-------------------------------------------------------------------------------
(* The next frame's buffer, and the fences left behind *)

\* Beside the window's buffer and the one EGL has marked there is a third.
EnoughBuffers == \E a, b, c \in Buffers : a # b /\ a # c /\ b # c

\* Where LockedIsKnown holds, a surface of three buffers always has one for the
\* next frame: the commit that fails is what atomic_busy_leak needs.
THEOREM NextFrameHasBuffer ==
  NoneLost /\ EnoughBuffers => (Spec => []BufferForNextFrame)
<1> SUFFICES ASSUME NoneLost, EnoughBuffers PROVE Spec => []BufferForNextFrame
  OBVIOUS
<1>1. AccountInv => BufferForNextFrame
  <2> SUFFICES ASSUME AccountInv, pc = "idle", back = NoBuf
               PROVE  Free # {}
    BY DEF BufferForNextFrame
  <2>1. locked \subseteq {bo}
    BY DEF AccountInv
  <2>2. PICK b \in Buffers : b # bo /\ b # front
    BY DEF EnoughBuffers
  <2> QED BY <2>1, <2>2, GbmKmsAssumption DEF Free
<1>2. TypeOK /\ SuccessInv /\ FlipIsAwaitable /\ [Next]_vars => FlipIsAwaitable'
  BY AwaitStep DEF NoneLost
<1>3. TypeOK /\ LockInv /\ SuccessInv /\ FlipIsAwaitable /\ AccountInv /\ [Next]_vars
      => AccountInv'
  BY AccountStep
<1> QED
  BY <1>1, <1>2, <1>3, BuffersOwned, SuccessInit, SuccessStep, AwaitInit, AccountInit,
     PTL DEF Spec

\* No step of a swap fails before its commit, and no rebuild meets one.
NoneStray ==
  /\ NoneLost
  /\ {"swap", "lock"} \cap Faults = {}
  /\ "dirty" \notin Events
  /\ \E a, b \in Buffers : a # b

LEMMA FenceInit == Init => FenceInv
BY GbmKmsAssumption DEF Init, WorldInit, FenceInv, FencesHanded, NothingRebuilt, NoReq

\* Each fence is made, handed on and closed by the steps of one swap.
LEMMA FenceStep ==
  /\ NoneStray
  /\ TypeOK /\ LockInv /\ FlipIsAwaitable /\ AccountInv /\ FenceInv
  /\ [Next]_vars
  => FenceInv'
<1> SUFFICES ASSUME NoneStray, TypeOK, LockInv, FlipIsAwaitable, AccountInv, FenceInv,
                    [Next]_vars
             PROVE  FenceInv'
  OBVIOUS
<1> USE GbmKmsAssumption
    DEF FenceInv, FencesHanded, NothingRebuilt, TypeOK, WorldTypeOK, SwapReturns, Goto,
        worldVars, surfaceVars, gpuVars, displayVars, windowVars, fenceVars
<1>1. CASE AppRenders
  BY <1>1 DEF AppRenders, Render
<1>2. CASE DirtySurfaces
  BY <1>2 DEF DirtySurfaces, NoneStray
<1>3. CASE ReleaseVT
  BY <1>3 DEF ReleaseVT, NoReq
<1>4. CASE AcquireVT
  BY <1>4 DEF AcquireVT
<1>5. CASE SwapBuffers
  <2>1. CASE EglSwap
    <3>1. ~gpu_fence' /\ pc' = "lock" /\ ~kms_out_fence_fd'
      BY <1>5, <2>1 DEF SwapBuffers, EglSwap, EglSwapFails, FenceAlive
    <3>2. UNCHANGED <<atomic_req, egl_surface_dirty, cont, swap_window>>
      BY <1>5 DEF SwapBuffers
    <3> QED BY <1>5, <3>1, <3>2 DEF SwapBuffers
  <2>2. CASE ~EglSwap
    <3>1. ~gs
      <4>1. pc = "idle" /\ locked = {bo} \ {NoBuf} /\ front = NoBuf
        BY <1>5 DEF SwapBuffers, AccountInv
      <4>2. CannotSwap
        BY <1>5, <2>2 DEF SwapBuffers, EglSwapFails, NoneStray
      <4>3. back = NoBuf => Free # {}
        BY <4>1 DEF Free, NoneStray
      <4> QED BY <4>2, <4>3 DEF CannotSwap
    <3> QED BY <1>5, <2>2, <3>1 DEF SwapBuffers, EglSwapFails
  <2> QED BY <2>1, <2>2
<1>6. CASE LockFrontBuffer
  BY <1>6 DEF LockFrontBuffer, LockFailed, NoneStray, NoneLost
<1>7. CASE SetCrtc
  BY <1>7 DEF SetCrtc, Show, NoneStray, NoneLost
<1>8. CASE BuildRequest
  <2>1. next_bo # NoBuf
    BY <1>8 DEF BuildRequest, LockInv, NextIsLocked, Presenting
  <2>2. /\ atomic_req' = [fb |-> next_bo, in_fence |-> HasInFence] /\ pc' = "wait"
        /\ UNCHANGED <<egl_surface_dirty, cont, front, fenceVars, swap_window>>
    BY <1>8 DEF BuildRequest
  <2>3. atomic_req'.fb = next_bo /\ atomic_req'.in_fence = (swap_window = "fenced")
    BY <2>2 DEF HasInFence
  <2>4. atomic_req' # NoReq
    BY <2>1, <2>3 DEF NoReq
  <2> QED BY <1>8, <2>2, <2>3, <2>4 DEF BuildRequest
<1>9. CASE WaitPending
  BY <1>9 DEF WaitPending
<1>10. CASE AtomicCommit
  <2>1. atomic_req # NoReq /\ flip = NoBuf
    BY <1>10 DEF AtomicCommit, FlipIsAwaitable
  <2>2. ~CommitMayFail
    BY <2>1 DEF CommitMayFail, NoneStray, NoneLost
  <2> QED BY <1>10, <2>2 DEF AtomicCommit, Show, StartFlip, NoReq
<1>11. CASE FinishSwap
  BY <1>11 DEF FinishSwap
<1>12. CASE TeardownCommit
  <2>1. ~atomic_req.in_fence /\ ~kms_in_fence_fd /\ ~kms_out_fence_fd
    BY <1>12 DEF TeardownCommit
  <2>2. /\ atomic_req' = NoReq /\ pc' = "td_crtc" /\ kms_fence' = FALSE
        /\ UNCHANGED <<egl_surface_dirty, cont, front, gpu_fence, swap_window>>
    BY <1>12 DEF TeardownCommit
  <2>3. ~kms_in_fence_fd' /\ ~kms_out_fence_fd'
    <3>1. CASE /\ kms_in_fence_fd' = FALSE
               /\ kms_out_fence_fd' = (kms_out_fence_fd \/ atomic_req.in_fence)
      BY <2>1, <3>1, Zenon
    <3>2. CASE UNCHANGED <<kms_in_fence_fd, kms_out_fence_fd>>
      BY <2>1, <3>2
    <3> QED BY <1>12, <3>1, <3>2, Zenon DEF TeardownCommit
  <2> QED BY <1>12, <2>2, <2>3 DEF TeardownCommit, NoReq
<1>13. CASE TeardownCrtc
  BY <1>13 DEF TeardownCrtc, Show
<1>14. CASE TeardownFree
  <2>1. /\ pc' \in {"idle", "create"} /\ front' = NoBuf
        /\ UNCHANGED <<egl_surface_dirty, atomic_req, fenceVars, cont, swap_window>>
    BY <1>14 DEF TeardownFree, FreeSurface
  <2> QED BY <1>14, <2>1 DEF TeardownFree
<1>15. CASE CreateSurfaces
  <2>1. /\ pc' = "idle"
        /\ UNCHANGED <<front, atomic_req, fenceVars, cont, swap_window>>
    BY <1>15 DEF CreateSurfaces
  <2>2. egl_surface_dirty' = FALSE \/ egl_surface_dirty' = egl_surface_dirty
    BY <1>15, Zenon DEF CreateSurfaces
  <2> QED BY <1>15, <2>1, <2>2 DEF CreateSurfaces
<1>16. CASE \E b \in Buffers : Gpu(b)
  BY <1>16 DEF Gpu, GpuDone, progVars
<1>17. CASE Display
  BY <1>17 DEF Display, Vblank, progVars
<1>18. CASE UNCHANGED vars
  BY <1>18 DEF vars
<1> QED
  BY <1>1, <1>2, <1>3, <1>4, <1>5, <1>6, <1>7, <1>8, <1>9,
     <1>10, <1>11, <1>12, <1>13, <1>14, <1>15, <1>16, <1>17, <1>18
  DEF Next, App, Backend

\* As long as no call before or in a commit fails and no rebuild comes in a swap,
\* a swap leaves no fence and no descriptor behind for the next to overwrite.
THEOREM FencesAreClosed == NoneStray => (Spec => []NoStrayFence)
<1> SUFFICES ASSUME NoneStray PROVE Spec => []NoStrayFence
  OBVIOUS
<1>1. FenceInv => NoStrayFence
  BY DEF FenceInv, FencesHanded, NoStrayFence
<1>2. TypeOK /\ SuccessInv /\ FlipIsAwaitable /\ [Next]_vars => FlipIsAwaitable'
  BY AwaitStep DEF NoneStray, NoneLost
<1>3. TypeOK /\ LockInv /\ SuccessInv /\ FlipIsAwaitable /\ AccountInv /\ [Next]_vars
      => AccountInv'
  BY AccountStep DEF NoneStray
<1>4. TypeOK /\ LockInv /\ FlipIsAwaitable /\ AccountInv /\ FenceInv /\ [Next]_vars
      => FenceInv'
  BY FenceStep
<1> QED
  BY <1>1, <1>2, <1>3, <1>4, BuffersOwned, SuccessInit, SuccessStep, AwaitInit,
     AccountInit, FenceInit, PTL DEF Spec

-------------------------------------------------------------------------------
(* The teardown *)

LEMMA AwayStep ==
  /\ ~({"commit", "setcrtc"} \subseteq Faults)
  /\ TypeOK /\ SuccessInv /\ PlaneMovedAway
  /\ [Next]_vars
  => PlaneMovedAway'
<1> SUFFICES ASSUME ~({"commit", "setcrtc"} \subseteq Faults),
                    TypeOK, SuccessInv, PlaneMovedAway, [Next]_vars
             PROVE  PlaneMovedAway'
  OBVIOUS
<1> USE GbmKmsAssumption DEF PlaneMovedAway, SuccessInv, AwayIsEmpty, TypeOK, WorldTypeOK,
        SwapReturns, Goto, worldVars, surfaceVars, gpuVars, displayVars, windowVars, fenceVars
<1>1. CASE AppRenders
  BY <1>1 DEF AppRenders, Render
<1>2. CASE DirtySurfaces
  BY <1>2 DEF DirtySurfaces
<1>3. CASE ReleaseVT
  BY <1>3 DEF ReleaseVT
<1>4. CASE AcquireVT
  BY <1>4 DEF AcquireVT
<1>5. CASE SwapBuffers
  BY <1>5 DEF SwapBuffers, EglSwap, EglSwapFails
<1>6. CASE LockFrontBuffer
  BY <1>6 DEF LockFrontBuffer, LockFailed
<1>7. CASE SetCrtc
  BY <1>7 DEF SetCrtc, Show
<1>8. CASE BuildRequest
  BY <1>8 DEF BuildRequest, HasInFence
<1>9. CASE WaitPending
  BY <1>9 DEF WaitPending, PendingFlipWaited
<1>10. CASE AtomicCommit
  BY <1>10 DEF AtomicCommit, Show, StartFlip, CommitFailed, Blocking
<1>11. CASE FinishSwap
  BY <1>11 DEF FinishSwap
<1>12. CASE TeardownCommit
  BY <1>12 DEF TeardownCommit, PendingFlipWaited, Show
<1>13. CASE TeardownCrtc
  BY <1>13 DEF TeardownCrtc, Show
<1>14. CASE TeardownFree
  BY <1>14 DEF TeardownFree, FreeSurface
<1>15. CASE CreateSurfaces
  BY <1>15 DEF CreateSurfaces
<1>16. CASE \E b \in Buffers : Gpu(b)
  BY <1>16 DEF Gpu, GpuDone, progVars
<1>17. CASE Display
  BY <1>17 DEF Display, Vblank, progVars
<1>18. CASE UNCHANGED vars
  BY <1>18 DEF vars
<1> QED
  BY <1>1, <1>2, <1>3, <1>4, <1>5, <1>6, <1>7, <1>8, <1>9,
     <1>10, <1>11, <1>12, <1>13, <1>14, <1>15, <1>16, <1>17, <1>18
  DEF Next, App, Backend

\* Unless both the commit and the modeset of a teardown can fail, a surface is
\* never destroyed while a plane reads it.
THEOREM SurfaceFreedOffScreen ==
  ~({"commit", "setcrtc"} \subseteq Faults) => (Spec => []FreedOffScreen)
<1> SUFFICES ASSUME ~({"commit", "setcrtc"} \subseteq Faults) PROVE Spec => []FreedOffScreen
  OBVIOUS
<1>1. PlaneMovedAway => FreedOffScreen
  BY DEF PlaneMovedAway, FreedOffScreen
<1>2. TypeOK /\ SuccessInv /\ PlaneMovedAway /\ [Next]_vars => PlaneMovedAway'
  BY AwayStep
<1>3. Init => PlaneMovedAway
  BY DEF Init, PlaneMovedAway
<1> QED
  BY <1>1, <1>2, <1>3, BuffersOwned, SuccessInit, SuccessStep, PTL DEF Spec
-------------------------------------------------------------------------------
(* What a flip waits for *)

\* A page flip is given its frame's in-fence, which it finds in the request.
FlipIsGiven ==
  /\ flip # NoBuf => fenced
  /\ pc \in {"wait", "commit"} /\ atomic_req # NoReq /\ swap_window = "fenced"
       => atomic_req.in_fence

LEMMA GivenInit == Init => FlipIsGiven
BY DEF Init, WorldInit, FlipIsGiven

\* Only the fenced path flips, with the request that it has built.
LEMMA GivenStep ==
  TypeOK /\ LockInv /\ FlipIsGiven /\ [Next]_vars => FlipIsGiven'
<1> SUFFICES ASSUME TypeOK, LockInv, FlipIsGiven, [Next]_vars PROVE FlipIsGiven'
  OBVIOUS
<1> USE GbmKmsAssumption, KmsAtomicAssumption
    DEF FlipIsGiven, TypeOK, WorldTypeOK, SwapReturns, Goto,
        worldVars, surfaceVars, gpuVars, displayVars, windowVars, fenceVars
<1>1. CASE AppRenders
  BY <1>1 DEF AppRenders, Render
<1>2. CASE DirtySurfaces
  BY <1>2 DEF DirtySurfaces
<1>3. CASE ReleaseVT
  BY <1>3 DEF ReleaseVT
<1>4. CASE AcquireVT
  BY <1>4 DEF AcquireVT
<1>5. CASE SwapBuffers
  BY <1>5 DEF SwapBuffers, EglSwap, EglSwapFails
<1>6. CASE LockFrontBuffer
  BY <1>6 DEF LockFrontBuffer, LockFailed
<1>7. CASE SetCrtc
  BY <1>7 DEF SetCrtc, Show
<1>8. CASE BuildRequest
  BY <1>8 DEF BuildRequest, HasInFence
<1>9. CASE WaitPending
  BY <1>9 DEF WaitPending
<1>10. CASE AtomicCommit
  <2>1. pc' \in {"finish", "idle"}
    BY <1>10 DEF AtomicCommit, CommitFailed
  <2>2. flip' # NoBuf => fenced'
    <3>1. CASE UNCHANGED displayVars
      BY <3>1
    <3>2. CASE Blocking /\ atomic_req # NoReq /\ Show(atomic_req.fb, ImplicitSync)
      BY <3>2 DEF Show
    <3>3. CASE /\ ~Blocking /\ atomic_req # NoReq
               /\ StartFlip(atomic_req.fb, atomic_req.in_fence \/ ImplicitSync)
      <4>1. pc = "commit" /\ swap_window = "fenced"
        BY <1>10, <3>3 DEF AtomicCommit, Blocking
      <4>2. atomic_req.in_fence
        BY <3>3, <4>1
      <4>3. fenced' = (atomic_req.in_fence \/ ImplicitSync)
        BY <3>3 DEF StartFlip
      <4> QED BY <4>2, <4>3, Zenon
    <3> QED BY <1>10, <3>1, <3>2, <3>3, Zenon DEF AtomicCommit
  <2> QED BY <2>1, <2>2
<1>11. CASE FinishSwap
  BY <1>11 DEF FinishSwap
<1>12. CASE TeardownCommit
  BY <1>12 DEF TeardownCommit, Show
<1>13. CASE TeardownCrtc
  BY <1>13 DEF TeardownCrtc, Show
<1>14. CASE TeardownFree
  BY <1>14 DEF TeardownFree, FreeSurface
<1>15. CASE CreateSurfaces
  <2>1. atomic_req = NoReq
    BY <1>15 DEF CreateSurfaces, LockInv, RequestIsNext
  <2> QED BY <1>15, <2>1 DEF CreateSurfaces
<1>16. CASE \E b \in Buffers : Gpu(b)
  BY <1>16 DEF Gpu, GpuDone, progVars
<1>17. CASE Display
  BY <1>17 DEF Display, Vblank, progVars
<1>18. CASE UNCHANGED vars
  BY <1>18 DEF vars
<1> QED
  BY <1>1, <1>2, <1>3, <1>4, <1>5, <1>6, <1>7, <1>8, <1>9,
     <1>10, <1>11, <1>12, <1>13, <1>14, <1>15, <1>16, <1>17, <1>18
  DEF Next, App, Backend

\* Only the display and the destruction of a surface take a flip away.
LEMMA WhoEndsFlips ==
  ASSUME [Next]_vars, flip # NoBuf, flip' = NoBuf
  PROVE  Display \/ TeardownFree
<1> USE GbmKmsAssumption
    DEF SwapReturns, Goto, worldVars, surfaceVars, gpuVars, displayVars
<1>1. ~AppRenders /\ ~DirtySurfaces /\ ~ReleaseVT /\ ~AcquireVT
  BY DEF AppRenders, Render, DirtySurfaces, ReleaseVT, AcquireVT
<1>2. ~SwapBuffers /\ ~LockFrontBuffer /\ ~SetCrtc /\ ~BuildRequest /\ ~WaitPending
  BY DEF SwapBuffers, EglSwap, EglSwapFails, LockFrontBuffer, SetCrtc, Show,
         BuildRequest, WaitPending
<1>3. ~AtomicCommit
  BY DEF AtomicCommit, Show, StartFlip
<1>4. ~FinishSwap /\ ~TeardownCommit /\ ~TeardownCrtc /\ ~CreateSurfaces
  BY DEF FinishSwap, TeardownCommit, TeardownCrtc, Show, CreateSurfaces
<1>5. ~(\E b \in Buffers : Gpu(b)) /\ ~UNCHANGED vars
  BY DEF Gpu, GpuDone, progVars, vars
<1> QED BY <1>1, <1>2, <1>3, <1>4, <1>5 DEF Next, App, Backend

\* With a frame's in-fence a page flip never shows the frame unfinished, on any
\* kernel and any driver; a flip that its surface is destroyed under would be
\* none that ended, so the teardown must be able to move the plane away.
THEOREM FlipsShowFinishedFrames ==
  ~({"commit", "setcrtc"} \subseteq Faults) => (Spec => FlipShowsFinishedFrame)
<1> SUFFICES ASSUME ~({"commit", "setcrtc"} \subseteq Faults)
             PROVE  Spec => FlipShowsFinishedFrame
  OBVIOUS
<1>1. FlipIsGiven /\ PlaneMovedAway /\ [Next]_vars
      => [flip # NoBuf /\ flip' = NoBuf => Drawn(flip)]_displayVars
  <2> SUFFICES ASSUME FlipIsGiven, PlaneMovedAway, [Next]_vars,
                      flip # NoBuf, flip' = NoBuf
               PROVE  Drawn(flip)
    OBVIOUS
  <2>1. CASE Display
    BY <2>1 DEF Display, Vblank, FlipIsGiven
  <2>2. CASE TeardownFree
    BY <2>2 DEF TeardownFree, PlaneMovedAway
  <2> QED BY <2>1, <2>2, WhoEndsFlips
<1>2. TypeOK /\ SuccessInv /\ PlaneMovedAway /\ [Next]_vars => PlaneMovedAway'
  BY AwayStep
<1>3. Init => PlaneMovedAway
  BY DEF Init, PlaneMovedAway
<1>4. TypeOK /\ LockInv /\ FlipIsGiven /\ [Next]_vars => FlipIsGiven'
  BY GivenStep
<1> QED
  BY <1>1, <1>2, <1>3, <1>4, BuffersOwned, SuccessInit, SuccessStep, GivenInit, PTL
  DEF Spec, FlipShowsFinishedFrame
================================================================================
