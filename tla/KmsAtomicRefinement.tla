-------------------------- MODULE KmsAtomicRefinement --------------------------
(***************************************************************************)
(* The proof that both atomic swap paths implement ScanoutProtocol, for    *)
(* every number of buffers: each step of the program, the GPU and the      *)
(* display is a step of the protocol or leaves its variables alone.  The   *)
(* invariants of KmsAtomicProofs say why the GPU's new rendering stays off *)
(* what is shown and queued, and why a surface is freed only when neither. *)
(***************************************************************************)
EXTENDS KmsAtomicProofs

ProtocolInv == TypeOK /\ LockInv /\ SuccessInv /\ ScreenInv /\ PlaneMovedAway

\* The state mapping, as in KmsAtomic.
shownBuffer == IF onscreen \in Buffers THEN onscreen ELSE NoBuf

LEMMA InitMapped == Init => Protocol!Init
BY GbmKmsAssumption DEF Init, WorldInit, Protocol!Init

LEMMA StepMapped ==
  ImplicitSync /\ ProtocolInv /\ [Next]_vars => [Protocol!Next]_Protocol!vars
<1> SUFFICES ASSUME ImplicitSync, ProtocolInv, [Next]_vars
             PROVE  [Protocol!Next]_Protocol!vars
  OBVIOUS
<1> USE GbmKmsAssumption
    DEF ProtocolInv, TypeOK, WorldTypeOK, LockInv, Ownership, NextIsLocked, RequestIsNext,
        Presenting, ScreenInv, GateNeedsFlip, FlipIsLocked, ScreenIsHeld, FlipIsFenced,
        PlaneMovedAway, worldVars, surfaceVars, gpuVars, displayVars, Protocol!vars
\* A modeset or a blocking commit of the buffer being presented.
<1>1. ASSUME pc \in Presenting, next_bo \in locked, Show(next_bo, ImplicitSync),
             UNCHANGED gpuVars
      PROVE  Protocol!Modeset
  BY <1>1 DEF Show, Drawn, Protocol!Modeset
\* The plane, or the CRTC, goes back to the console.
<1>2. ASSUME Show(Tty, FALSE), UNCHANGED gpuVars PROVE Protocol!Blank
  BY <1>2 DEF Show, Protocol!Blank
<1>3. CASE AppRenders
  <2>1. PICK b \in Buffers : Render(b)
    BY <1>3 DEF AppRenders
  <2>2. CASE gate
    BY <2>1, <2>2 DEF Render
  <2>3. CASE ~gate
    <3>1. running' = running \cup {b} /\ UNCHANGED displayVars
      BY <2>1, <2>3 DEF Render
    <3>2. {b} \in SUBSET (Buffers \ {shownBuffer, flip})
      BY <2>1, <2>3 DEF Render, Free, shownBuffer
    <3>3. Protocol!StartWriting
      BY <3>1, <3>2 DEF shownBuffer, Protocol!StartWriting
    <3> QED
      BY <3>3 DEF Protocol!Next
  <2> QED
    BY <2>2, <2>3
<1>4. CASE DirtySurfaces \/ ReleaseVT \/ AcquireVT
  BY <1>4 DEF DirtySurfaces, ReleaseVT, AcquireVT
<1>5. CASE SwapBuffers \/ LockFrontBuffer
  BY <1>5 DEF SwapBuffers, EglSwap, EglSwapFails, LockFrontBuffer
<1>6. CASE SetCrtc
  <2>1. CASE Show(next_bo, ImplicitSync)
    BY <1>1, <1>6, <2>1 DEF SetCrtc, Protocol!Next
  <2>2. CASE UNCHANGED displayVars
    BY <1>6, <2>2 DEF SetCrtc
  <2> QED
    BY <1>6, <2>1, <2>2 DEF SetCrtc
<1>7. CASE BuildRequest \/ WaitPending \/ FinishSwap
  BY <1>7 DEF BuildRequest, WaitPending, FinishSwap
<1>8. CASE AtomicCommit
  <2>1. pc = "commit" /\ UNCHANGED gpuVars
    BY <1>8 DEF AtomicCommit
  <2>2. ASSUME atomic_req # NoReq PROVE next_bo \in locked /\ atomic_req.fb = next_bo
    BY <2>1, <2>2
  <2>3. \/ atomic_req # NoReq /\ Show(next_bo, ImplicitSync)
        \/ atomic_req # NoReq /\ StartFlip(next_bo, TRUE)
        \/ UNCHANGED displayVars
    BY <1>8, <2>2 DEF AtomicCommit
  <2>4. CASE atomic_req # NoReq /\ Show(next_bo, ImplicitSync)
    BY <1>1, <2>1, <2>2, <2>4 DEF Protocol!Next
  <2>5. CASE atomic_req # NoReq /\ StartFlip(next_bo, TRUE)
    BY <2>1, <2>2, <2>5 DEF StartFlip, Protocol!Queue, Protocol!Next
  <2>6. CASE UNCHANGED displayVars
    BY <2>1, <2>6
  <2> QED
    BY <2>3, <2>4, <2>5, <2>6
<1>9. CASE TeardownCommit
  <2>1. UNCHANGED gpuVars
    BY <1>9 DEF TeardownCommit
  <2>2. Show(Tty, FALSE) \/ UNCHANGED displayVars
    BY <1>9 DEF TeardownCommit
  <2> QED
    BY <1>2, <2>1, <2>2 DEF Protocol!Next
<1>10. CASE TeardownCrtc
  <2>1. UNCHANGED gpuVars
    BY <1>10 DEF TeardownCrtc
  <2>2. Show(Tty, FALSE) \/ UNCHANGED displayVars
    BY <1>10 DEF TeardownCrtc
  <2> QED
    BY <1>2, <2>1, <2>2 DEF Protocol!Next
<1>11. CASE TeardownFree
  BY <1>11 DEF TeardownFree, FreeSurface, Protocol!Discard, Protocol!Next
<1>12. CASE CreateSurfaces
  BY <1>12 DEF CreateSurfaces
<1>13. CASE \E b \in Buffers : Gpu(b)
  BY <1>13 DEF Gpu, GpuDone, Protocol!FinishWriting, Protocol!Next
<1>14. CASE Display
  <2>1. /\ flip \in Buffers
        /\ Drawn(flip)
        /\ onscreen' = flip
        /\ flip' = NoBuf
        /\ running' = running \cup held
    BY <1>14 DEF Display, Vblank
  <2>2. held \in SUBSET (Buffers \ {flip})
    OBVIOUS
  <2>3. Protocol!Flip
    BY <2>1, <2>2 DEF Drawn, Protocol!Flip
  <2> QED
    BY <2>3 DEF Protocol!Next
<1>15. CASE UNCHANGED vars
  BY <1>15 DEF vars
<1> QED
  BY <1>3, <1>4, <1>5, <1>6, <1>7, <1>8, <1>9, <1>10, <1>11, <1>12, <1>13, <1>14, <1>15
  DEF Next, App, Backend

\* On a kernel that waits for a buffer's rendering when it is given no fence,
\* and unless both the commit and the modeset of a teardown can fail, the swap
\* paths keep the promise of ScanoutProtocol.
THEOREM KmsAtomicKeepsProtocol ==
  ImplicitSync /\ ~({"commit", "setcrtc"} \subseteq Faults) => (Spec => KeepsProtocol)
<1> SUFFICES ASSUME ImplicitSync, ~({"commit", "setcrtc"} \subseteq Faults)
             PROVE  Spec => KeepsProtocol
  OBVIOUS
<1>1. Init => ProtocolInv
  BY TypeInit, LockInit, SuccessInit, ScreenInit DEF ProtocolInv, Init, PlaneMovedAway
<1>2. ProtocolInv /\ [Next]_vars => ProtocolInv'
  BY TypeStep, LockStep, SuccessStep, ScreenStep, AwayStep DEF ProtocolInv
<1>3. ProtocolInv /\ [Next]_vars => [Protocol!Next]_Protocol!vars
  BY StepMapped
<1> QED
  BY <1>1, <1>2, <1>3, InitMapped, PTL DEF Spec, KeepsProtocol, Protocol!Spec
================================================================================
