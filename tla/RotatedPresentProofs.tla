-------------------------- MODULE RotatedPresentProofs --------------------------
(***************************************************************************)
(* Proofs about RotatedPresent, for every number of buffers, all three     *)
(* swap paths, with and without fences, and every set of faults and events.     *)
(*                                                                         *)
(* That a pass never reads what the application draws is not inductive: it *)
(* rests on every buffer with an unfinished pass being locked, that on the *)
(* waits before a lock is given up, and those on a buffer without a fence  *)
(* having been finished before it became the pending one.                  *)
(***************************************************************************)
EXTENDS RotatedPresent, TLAPS

\* EGL's own buffers are not locked, and a swap that succeeded has one to lock.
EglOwns ==
  /\ front \in Buffers => front \notin locked /\ front # back
  /\ back \in Buffers => back \notin locked
  /\ pc = "lock" => front \in Buffers

\* The buffer a present has locked has no pass yet, and is not the pending one.
PassOnNew ==
  pc = "pass" => bo \in Buffers /\ bo # pending_bo /\ PassDone(bo)

\* A frame between its pass and the end of its present; there is none elsewhere.
FrameInPresent ==
  /\ pc \notin {"inner", "flip", "end"} => frame_bo = NoBuf
  /\ pc \in {"inner", "flip"} => frame_bo \in Buffers
  /\ frame_bo \in Buffers => frame_bo # pending_bo

\* A buffer is locked for as long as a pass has to read it.
PassesLocked == queued \cup reading \subseteq locked

\* Where there is no fence to wait on, the pass has been finished already.
FencedOrDone ==
  /\ pending_bo \in Buffers /\ ~pending_fence => PassDone(pending_bo)
  /\ pc \in {"flip", "end"} /\ frame_bo \in Buffers /\ ~frame_fence => PassDone(frame_bo)

\* A pass is held back only by a flip in progress.  What that flip waits for is
\* a pass that was submitted, and not one held back: there is no circle of a flip
\* waiting for its frame's pass and a pass waiting for its flip.
NoCircularWait ==
  /\ held # {} \/ awaited # {} => flip
  /\ awaited \subseteq queued \cup reading
  /\ awaited \cap held = {}

BufferInv == /\ AppLockedAccounted /\ EglOwns /\ PassOnNew /\ FrameInPresent
             /\ PassesLocked /\ FencedOrDone

-------------------------------------------------------------------------------
(* Type correctness *)

\* What the SMT solver needs to know of the values of Boolean variables.
LEMMA BooleanValues == \A z : z = TRUE \/ z = FALSE => z \in BOOLEAN
BY Zenon

LEMMA TypeInit == Init => TypeOK
BY DEF Init, TypeOK

LEMMA TypeStep == TypeOK /\ [Next]_vars => TypeOK'
<1> SUFFICES ASSUME TypeOK, [Next]_vars PROVE TypeOK'
  OBVIOUS
<1> USE BooleanValues DEF TypeOK, SwapReturns, Goto, Fails, poolVars, rotVars,
        localVars, gpuVars, winVars, progVars
<1>1. CASE AppRenders
  BY <1>1 DEF AppRenders, Free
<1>2. CASE DirtySurfaces
  BY <1>2 DEF DirtySurfaces
<1>3. CASE ReleaseVT
  BY <1>3 DEF ReleaseVT
<1>4. CASE AcquireVT
  BY <1>4 DEF AcquireVT
<1>5. CASE SwapNotRotated
  BY <1>5 DEF SwapNotRotated
<1>6. CASE SwapRebuilds
  BY <1>6 DEF SwapRebuilds
<1>7. CASE SwapBuffers
  BY <1>7 DEF SwapBuffers, Free
<1>8. CASE LockFrontBuffer
  BY <1>8 DEF LockFrontBuffer, LockFailed
<1>9. CASE RotatePass
  BY <1>9 DEF RotatePass, HandedBackOnError, BehindFlip
<1>10. CASE SwapWindow \/ Present
  BY <1>10 DEF SwapWindow, Present, FlipQueued, NoFlip
<1>11. CASE EndPresent
  BY <1>11 DEF EndPresent
<1>12. CASE DestroySurfaces
  BY <1>12 DEF DestroySurfaces
<1>13. CASE CreateSurfaces
  BY <1>13 DEF CreateSurfaces, Created
<1>14. CASE \E b \in Buffers : AppFrameDone(b)
  BY <1>14 DEF AppFrameDone
<1>15. CASE \E b \in Buffers : PassStarts(b)
  BY <1>15 DEF PassStarts
<1>16. CASE \E b \in Buffers : PassEnds(b)
  BY <1>16 DEF PassEnds
<1>17. CASE FlipDone
  BY <1>17 DEF FlipDone
<1>18. CASE UNCHANGED vars
  BY <1>18 DEF vars
<1> QED
  BY <1>1, <1>2, <1>3, <1>4, <1>5, <1>6, <1>7, <1>8, <1>9, <1>10, <1>11,
     <1>12, <1>13, <1>14, <1>15, <1>16, <1>17, <1>18 DEF Next, Backend, Gpu

\* Every variable keeps its type, and only a pass that has been queued is held
\* back behind a flip.
THEOREM TypeCorrect == Spec => []TypeOK
BY TypeInit, TypeStep, PTL DEF Spec

-------------------------------------------------------------------------------
(* The application's buffers *)

LEMMA BufferInit == Init => BufferInv
BY RotatedPresentAssumption
   DEF Init, BufferInv, AppLockedAccounted, EglOwns, PassOnNew, FrameInPresent,
       PassesLocked, FencedOrDone, PassDone

LEMMA BufferStep == TypeOK /\ BufferInv /\ [Next]_vars => BufferInv'
<1> SUFFICES ASSUME TypeOK, BufferInv, [Next]_vars PROVE BufferInv'
  OBVIOUS
<1> USE RotatedPresentAssumption
    DEF TypeOK, BufferInv, AppLockedAccounted, EglOwns, PassOnNew,
        FrameInPresent, PassesLocked, FencedOrDone, PassDone, SwapReturns, Goto,
        Fails, poolVars, rotVars, localVars, gpuVars, winVars, progVars
<1>1. CASE AppRenders
  BY <1>1 DEF AppRenders, Free
<1>2. CASE DirtySurfaces
  BY <1>2 DEF DirtySurfaces
<1>3. CASE ReleaseVT
  BY <1>3 DEF ReleaseVT
<1>4. CASE AcquireVT
  BY <1>4 DEF AcquireVT
<1>5. CASE SwapNotRotated
  BY <1>5 DEF SwapNotRotated
<1>6. CASE SwapRebuilds
  BY <1>6 DEF SwapRebuilds
<1>7. CASE SwapBuffers
  BY <1>7 DEF SwapBuffers, Free
<1>8. CASE LockFrontBuffer
  BY <1>8 DEF LockFrontBuffer, LockFailed
<1>9. CASE RotatePass
  BY <1>9 DEF RotatePass, HandedBackOnError, BehindFlip
<1>10. CASE SwapWindow \/ Present
  BY <1>10 DEF SwapWindow, Present, FlipQueued, NoFlip
<1>11. CASE EndPresent
  BY <1>11 DEF EndPresent, PendingPassDone
<1>12. CASE DestroySurfaces
  BY <1>12 DEF DestroySurfaces
<1>13. CASE CreateSurfaces
  BY <1>13 DEF CreateSurfaces, Created
<1>14. CASE \E b \in Buffers : AppFrameDone(b)
  BY <1>14 DEF AppFrameDone
<1>15. CASE \E b \in Buffers : PassStarts(b)
  BY <1>15 DEF PassStarts, FrameDrawn
<1>16. CASE \E b \in Buffers : PassEnds(b)
  BY <1>16 DEF PassEnds
<1>17. CASE FlipDone
  BY <1>17 DEF FlipDone
<1>18. CASE UNCHANGED vars
  BY <1>18 DEF vars
<1> QED
  BY <1>1, <1>2, <1>3, <1>4, <1>5, <1>6, <1>7, <1>8, <1>9, <1>10, <1>11,
     <1>12, <1>13, <1>14, <1>15, <1>16, <1>17, <1>18 DEF Next, Backend, Gpu

\* Of the properties themselves, what a step preserves.
LEMMA ReadsStep ==
  TypeOK /\ BufferInv /\ NoTornFrame /\ [Next]_vars
    => (reading \cap drawing = {})'
<1> SUFFICES ASSUME TypeOK, BufferInv, NoTornFrame, [Next]_vars
             PROVE  (reading \cap drawing = {})'
  OBVIOUS
<1> USE DEF TypeOK, BufferInv, PassesLocked, NoTornFrame, poolVars, rotVars,
        localVars, gpuVars, winVars, progVars
<1>1. CASE AppRenders
  BY <1>1 DEF AppRenders, Free
<1>2. CASE DirtySurfaces
  BY <1>2 DEF DirtySurfaces
<1>3. CASE ReleaseVT
  BY <1>3 DEF ReleaseVT
<1>4. CASE AcquireVT
  BY <1>4 DEF AcquireVT
<1>5. CASE SwapNotRotated
  BY <1>5 DEF SwapNotRotated
<1>6. CASE SwapRebuilds
  BY <1>6 DEF SwapRebuilds
<1>7. CASE SwapBuffers
  BY <1>7 DEF SwapBuffers, Free
<1>8. CASE LockFrontBuffer
  BY <1>8 DEF LockFrontBuffer, LockFailed
<1>9. CASE RotatePass
  BY <1>9 DEF RotatePass, HandedBackOnError, BehindFlip
<1>10. CASE SwapWindow \/ Present
  BY <1>10 DEF SwapWindow, Present, FlipQueued, NoFlip
<1>11. CASE EndPresent
  BY <1>11 DEF EndPresent, PendingPassDone
<1>12. CASE DestroySurfaces
  BY <1>12 DEF DestroySurfaces
<1>13. CASE CreateSurfaces
  BY <1>13 DEF CreateSurfaces, Created
<1>14. CASE \E b \in Buffers : AppFrameDone(b)
  BY <1>14 DEF AppFrameDone
<1>15. CASE \E b \in Buffers : PassStarts(b)
  BY <1>15 DEF PassStarts, FrameDrawn
<1>16. CASE \E b \in Buffers : PassEnds(b)
  BY <1>16 DEF PassEnds
<1>17. CASE FlipDone
  BY <1>17 DEF FlipDone
<1>18. CASE UNCHANGED vars
  BY <1>18 DEF vars
<1> QED
  BY <1>1, <1>2, <1>3, <1>4, <1>5, <1>6, <1>7, <1>8, <1>9, <1>10, <1>11,
     <1>12, <1>13, <1>14, <1>15, <1>16, <1>17, <1>18 DEF Next, Backend, Gpu

\* The parts of the inductive invariant that are about the application's buffers.
LEMMA BufferInvariant == Spec => [](TypeOK /\ BufferInv)
BY TypeInit, TypeStep, BufferInit, BufferStep, PTL DEF Spec

\* A rotate pass never reads a buffer the application's commands are writing,
\* and a buffer the application gets to render into has no pass left that is to
\* read it, whatever fails on the way and with or without fences: EndPresent
\* gives a lock up only behind the pass that needed it.
THEOREM PassesReadWholeFrames == Spec => []NoTornFrame
<1>1. Init => NoTornFrame
  BY DEF Init, NoTornFrame
<1>2. TypeOK /\ BufferInv /\ NoTornFrame /\ [Next]_vars => NoTornFrame'
  <2> SUFFICES ASSUME TypeOK, BufferInv, NoTornFrame, [Next]_vars
               PROVE  NoTornFrame'
    OBVIOUS
  <2>1. TypeOK' /\ BufferInv'
    BY TypeStep, BufferStep
  <2>2. (back \notin queued \cup reading)'
    BY <2>1, RotatedPresentAssumption
       DEF TypeOK, BufferInv, EglOwns, PassesLocked
  <2>3. (reading \cap drawing = {})'
    BY ReadsStep
  <2> QED
    BY <2>2, <2>3 DEF NoTornFrame
<1> QED
  BY <1>1, <1>2, BufferInvariant, PTL DEF Spec

\* At every step of a present, and whatever fails on the way, the application's
\* buffers that are locked are exactly those the window knows and will hand back.
\* Of the application's context it says nothing: EndPresent may leave another one
\* current.
THEOREM LockedAreHandedBack == Spec => []AppLockedAccounted
<1>1. BufferInv => AppLockedAccounted
  BY DEF BufferInv
<1> QED
  BY <1>1, BufferInvariant, PTL

-------------------------------------------------------------------------------
(* The two waits *)

LEMMA FlipInit == Init => NoCircularWait
BY DEF Init, NoCircularWait

LEMMA FlipStep == TypeOK /\ BufferInv /\ NoCircularWait /\ [Next]_vars
                    => NoCircularWait'
<1> SUFFICES ASSUME TypeOK, BufferInv, NoCircularWait, [Next]_vars
             PROVE  NoCircularWait'
  OBVIOUS
<1> USE RotatedPresentAssumption
    DEF TypeOK, BufferInv, PassOnNew, FrameInPresent, NoCircularWait, PassDone,
        SwapReturns, Goto, Fails, poolVars, rotVars, localVars, gpuVars,
        winVars, progVars
<1>1. CASE AppRenders
  BY <1>1 DEF AppRenders, Free
<1>2. CASE DirtySurfaces
  BY <1>2 DEF DirtySurfaces
<1>3. CASE ReleaseVT
  BY <1>3 DEF ReleaseVT
<1>4. CASE AcquireVT
  BY <1>4 DEF AcquireVT
<1>5. CASE SwapNotRotated
  BY <1>5 DEF SwapNotRotated
<1>6. CASE SwapRebuilds
  BY <1>6 DEF SwapRebuilds
<1>7. CASE SwapBuffers
  BY <1>7 DEF SwapBuffers, Free
<1>8. CASE LockFrontBuffer
  BY <1>8 DEF LockFrontBuffer, LockFailed
<1>9. CASE RotatePass
  BY <1>9 DEF RotatePass, HandedBackOnError, BehindFlip
<1>10. CASE SwapWindow \/ Present
  BY <1>10 DEF SwapWindow, Present, FlipQueued, NoFlip
<1>11. CASE EndPresent
  BY <1>11 DEF EndPresent, PendingPassDone
<1>12. CASE DestroySurfaces
  BY <1>12 DEF DestroySurfaces
<1>13. CASE CreateSurfaces
  BY <1>13 DEF CreateSurfaces, Created
<1>14. CASE \E b \in Buffers : AppFrameDone(b)
  BY <1>14 DEF AppFrameDone
<1>15. CASE \E b \in Buffers : PassStarts(b)
  BY <1>15 DEF PassStarts, FrameDrawn
<1>16. CASE \E b \in Buffers : PassEnds(b)
  BY <1>16 DEF PassEnds
<1>17. CASE FlipDone
  BY <1>17 DEF FlipDone
<1>18. CASE UNCHANGED vars
  BY <1>18 DEF vars
<1> QED
  BY <1>1, <1>2, <1>3, <1>4, <1>5, <1>6, <1>7, <1>8, <1>9, <1>10, <1>11,
     <1>12, <1>13, <1>14, <1>15, <1>16, <1>17, <1>18 DEF Next, Backend, Gpu

\* No pass is held back behind a flip that waits for that pass, and none behind a
\* flip that is over, also when presents fail while the flip before them is in
\* progress: EndPresent's wait for such a pass, and a present's for such a flip,
\* can always end.
THEOREM WaitsAreNotCircular == Spec => []NoCircularWait
BY FlipInit, FlipStep, BufferInvariant, PTL DEF Spec

================================================================================
