---------------------------- MODULE KmsSessionProofs ---------------------------
(***************************************************************************)
(* Proofs about KmsSession, for every finite set of windows.               *)
(*                                                                         *)
(* The pending word, the signal in hand and the console's state determine  *)
(* one another at each point of kbd_vt_update (ConsoleAgrees), provided    *)
(* that no one asks to leave the VT while it runs (Prompt).  What is left  *)
(* of the surfaces at the acknowledgement follows from that, and from who  *)
(* can have surfaces at all (SurfacesListed).                              *)
(***************************************************************************)
EXTENDS KmsSession, FiniteSetTheorems, TLAPS

Creating == {"load", "surfaces", "failed"}

\* A window in creation; surfaces are made for GL windows.
CurrentIsKnown ==
  /\ pc \in Creating => current \in Windows
  /\ pc \in {"load", "surfaces"} => kind[current] = "gl"
  /\ pc \notin Creating \cup {"crashed"} => current = NoWindow

\* There is no device before GBM is initialised.
DeviceIsInit == gbm_dev => gbm_init

\* A window with surfaces is in the list, or about to be, or to be destroyed.
SurfacesListed == surfaces \subseteq listed \cup {current}

\* Between the release and its acknowledgement nothing is left.
ReleasedAll == pc = "ack" /\ signal = "release" => surfaces = {} /\ ~master

\* The word the console last wrote, and what it stands for.
ConsoleAgrees ==
  /\ pc \in {"release", "acquire"} => signal = pc
  /\ pc \in {"release", "acquire", "ack"} =>
       /\ vt_signal_pending = signal
       /\ \/ signal = "release" /\ vt = "leaving"
          \/ signal = "acquire" /\ vt = "ours"
  /\ pc = "clear" =>
       /\ signal # "none"
       /\ \/ signal = "release" /\ vt_signal_pending = "release" /\ vt = "away"
          \/ vt_signal_pending = "acquire" /\ vt = "ours"
  /\ pc \notin Updating =>
       \/ vt_signal_pending = "release" /\ vt = "leaving"
       \/ vt_signal_pending = "acquire" /\ vt = "ours"
       \/ vt_signal_pending = "none" /\ signal = "release" /\ vt = "away"
       \/ vt_signal_pending = "none" /\ signal # "release" /\ vt = "ours"

-------------------------------------------------------------------------------
(* Types *)

TypeInv == TypeOK /\ CurrentIsKnown /\ DeviceIsInit

LEMMA TypeInit == Init => TypeInv
BY KmsSessionAssumption
   DEF Init, TypeInv, TypeOK, CurrentIsKnown, DeviceIsInit, Creating, Updating

USE DEF windowVars, deviceVars, vtVars, progVars

LEMMA MasterIsBoolean ==
  ASSUME TypeInv, SetMaster PROVE master' \in BOOLEAN
<1>1. CASE master' = TRUE
      BY <1>1
<1>2. CASE master' = (master \/ vt # "away")
      BY <1>2
<1> QED
    BY <1>1, <1>2 DEF SetMaster

LEMMA TypeStep == TypeInv /\ [Next]_vars => TypeInv'
<1> SUFFICES ASSUME TypeInv, [Next]_vars PROVE TypeInv'
    OBVIOUS
<1> USE KmsSessionAssumption
    DEF TypeInv, TypeOK, CurrentIsKnown, DeviceIsInit, Creating, Updating
<1>1. ASSUME NEW w \in Windows, CreateWithoutGbm(w) PROVE TypeInv'
  <2>1. PICK k \in {"vulkan", "plain"} :
          \/ Enlist(w, k) /\ UNCHANGED <<pc, current>>
          \/ /\ kind' = [kind EXCEPT ![w] = k]
             /\ current' = w /\ pc' = "failed"
             /\ UNCHANGED <<listed, vulkan_mode>>
        BY <1>1 DEF CreateWithoutGbm
  <2>2. /\ w \notin listed /\ w \notin surfaces /\ pc = "idle"
        /\ current = NoWindow
        /\ UNCHANGED <<surfaces, deviceVars, master, vtVars>>
        BY <1>1 DEF CreateWithoutGbm, TypeInv, TypeOK, CurrentIsKnown, Creating
  <2>3. CASE Enlist(w, k) /\ UNCHANGED <<pc, current>>
        BY <2>2, <2>3 DEF Enlist
  <2>4. CASE /\ kind' = [kind EXCEPT ![w] = k]
             /\ current' = w /\ pc' = "failed"
             /\ UNCHANGED <<listed, vulkan_mode>>
        BY <2>2, <2>4
  <2> QED
      BY <2>1, <2>3, <2>4
<1>2. ASSUME NEW w \in Windows, CreateGlWindow(w) PROVE TypeInv'
  <2>1. /\ kind' \in [Windows -> {"none", "gl", "plain", "vulkan"}]
        /\ kind'[w] = "gl"
        /\ \A v \in Windows : v # w => kind'[v] = kind[v]
        BY <1>2 DEF CreateGlWindow
  <2>2. /\ w \notin listed /\ w \notin surfaces
        /\ current' = w /\ listed' = listed /\ surfaces' = surfaces
        /\ UNCHANGED <<vulkan_mode, vtVars>>
        BY <1>2 DEF CreateGlWindow
  <2>3. CASE gbm_init /\ pc' = "load" /\ UNCHANGED <<deviceVars, master>>
        BY <2>1, <2>2, <2>3
  <2>4. CASE ~gbm_init /\ GbmInit
    <3>1. master' \in BOOLEAN
          BY <2>4, MasterIsBoolean DEF GbmInit
    <3>2. /\ UNCHANGED <<is_atomic, egl_data>>
          /\ \/ gbm_init' = TRUE /\ gbm_dev' = TRUE /\ display_plane' = TRUE
                /\ pc' = "load"
             \/ /\ UNCHANGED <<gbm_init, gbm_dev, display_plane>>
                /\ pc' = "failed"
             \/ /\ gbm_init' = TRUE /\ gbm_dev' \in BOOLEAN
                /\ display_plane' = display_plane /\ pc' = "failed"
          BY <2>4, Zenon DEF GbmInit
    <3>3. /\ pc' \in {"load", "failed"}
          /\ gbm_init' \in BOOLEAN /\ gbm_dev' \in BOOLEAN
          /\ display_plane' \in BOOLEAN
          /\ gbm_dev' => gbm_init'
          /\ UNCHANGED <<is_atomic, egl_data>>
      <4>1. CASE gbm_init' = TRUE /\ gbm_dev' = TRUE /\ display_plane' = TRUE
                 /\ pc' = "load"
            BY <3>2, <4>1
      <4>2. CASE /\ UNCHANGED <<gbm_init, gbm_dev, display_plane>>
                 /\ pc' = "failed"
            BY <3>2, <4>2
      <4>3. CASE /\ gbm_init' = TRUE /\ gbm_dev' \in BOOLEAN
                 /\ display_plane' = display_plane /\ pc' = "failed"
            BY <3>2, <4>3
      <4> QED
          BY <3>2, <4>1, <4>2, <4>3, Zenon
    <3> QED
        BY <3>1, <3>3, <2>1, <2>2
  <2> QED
      BY <2>3, <2>4, <1>2 DEF CreateGlWindow
<1>3. CASE LoadEgl
      BY <1>3 DEF LoadEgl
<1>4. CASE CreateSurfaces
  <2>1. CASE Crash
        BY <2>1, <1>4 DEF CreateSurfaces, Crash
  <2>2. CASE pc' = "failed"
        BY <2>2, <1>4 DEF CreateSurfaces, Crash
  <2>3. CASE Enlist(current, "gl") /\ pc' = "idle"
    <3>1. kind' = kind
          BY <2>3, <1>4 DEF CreateSurfaces, Enlist
    <3> QED
        BY <3>1, <2>3, <1>4 DEF CreateSurfaces, Enlist, Crash
  <2> QED
      BY <2>1, <2>2, <2>3, <1>4 DEF CreateSurfaces
<1>5. ASSUME NEW w \in Windows, DestroyWindow(w) PROVE TypeInv'
  <2>1. CASE Crash
        BY <2>1, <1>5 DEF DestroyWindow, Crash
  <2>2. CASE ~TeardownCrashes(w)
    <3>1. /\ kind' \in [Windows -> {"none", "gl", "plain", "vulkan"}]
          /\ \A v \in Windows : v # w => kind'[v] = kind[v]
          BY <2>2, <1>5 DEF DestroyWindow, TeardownCrashes, Crash
    <3>2. /\ listed' = listed \ {w} /\ surfaces' = surfaces \ {w}
          /\ current' = NoWindow /\ pc' = "idle" /\ UNCHANGED vtVars
          /\ Teardown(w)
          BY <2>2, <1>5 DEF DestroyWindow, TeardownCrashes, SurfacesWithout
    <3>3. /\ is_atomic' \in BOOLEAN /\ gbm_init' \in BOOLEAN
          /\ gbm_dev' \in BOOLEAN /\ display_plane' \in BOOLEAN
          /\ egl_data' \in BOOLEAN /\ vulkan_mode' \in BOOLEAN
          /\ master' \in BOOLEAN /\ (gbm_dev' => gbm_init')
          BY <3>2 DEF Teardown, GbmDeinit
    <3> QED
        BY <3>1, <3>2, <3>3
  <2> QED
      BY <2>1, <2>2, <1>5 DEF DestroyWindow
<1>6. CASE ReadSignal
      BY <1>6 DEF ReadSignal
<1>7. CASE ReleaseVT
  <2>1. CASE Crash
        BY <2>1, <1>7 DEF ReleaseVT, Crash
  <2>2. CASE /\ master' \in {FALSE, master /\ "drop" \in Faults}
             /\ surfaces' = surfaces \ Released /\ pc' = "ack"
             /\ UNCHANGED <<current, kind, listed, deviceVars, vulkan_mode>>
    <3>1. master' = FALSE \/ master' = (master /\ "drop" \in Faults)
          BY <2>2
    <3>2. master' \in BOOLEAN
          BY <3>1
    <3> QED
        BY <3>2, <2>2, <1>7 DEF ReleaseVT
  <2> QED
      BY <2>1, <2>2, <1>7 DEF ReleaseVT
<1>8. CASE AcquireVT
      BY <1>8, MasterIsBoolean DEF AcquireVT, Rebuilt, NotVulkan, Crash
<1>9. CASE Acknowledge
      BY <1>9 DEF Acknowledge
<1>10. CASE ClearSignal
      BY <1>10 DEF ClearSignal, Swapped
<1>11. CASE AskToLeave
      BY <1>11 DEF AskToLeave, Handler
<1>12. CASE ComeBack
      BY <1>12 DEF ComeBack, Handler
<1>13. CASE UNCHANGED vars
      BY <1>13 DEF vars
<1> QED
    BY <1>1, <1>2, <1>3, <1>4, <1>5, <1>6, <1>7, <1>8, <1>9, <1>10, <1>11,
       <1>12, <1>13 DEF Next

\* The state of the session is type correct: only windows that exist are
\* listed, and no Vulkan window has surfaces.
THEOREM TypeCorrect == Spec => []TypeOK
<1>1. Spec => []TypeInv
      BY TypeInit, TypeStep, PTL DEF Spec
<1> QED
    BY <1>1, PTL DEF TypeInv

-------------------------------------------------------------------------------
(* The signals *)

LEMMA AgreesInit == Init => ConsoleAgrees
BY DEF Init, ConsoleAgrees, Updating

LEMMA AgreesStep == Prompt /\ ConsoleAgrees /\ [Next]_vars => ConsoleAgrees'
<1> SUFFICES ASSUME Prompt, ConsoleAgrees, [Next]_vars PROVE ConsoleAgrees'
    OBVIOUS
<1> USE DEF ConsoleAgrees, Updating
<1>1. ASSUME NEW w \in Windows, CreateWithoutGbm(w) PROVE ConsoleAgrees'
      BY <1>1 DEF CreateWithoutGbm
<1>2. ASSUME NEW w \in Windows, CreateGlWindow(w) PROVE ConsoleAgrees'
  <2>1. pc = "idle" /\ pc' \in {"load", "failed"}
        BY <1>2 DEF CreateGlWindow, GbmInit
  <2> QED
      BY <1>2, <2>1 DEF CreateGlWindow
<1>3. CASE LoadEgl
      BY <1>3 DEF LoadEgl
<1>4. CASE CreateSurfaces
      BY <1>4 DEF CreateSurfaces, Crash
<1>5. ASSUME NEW w \in Windows, DestroyWindow(w) PROVE ConsoleAgrees'
  <2>1. pc \in {"idle", "failed"} /\ pc' \in {"idle", "crashed"}
        BY <1>5 DEF DestroyWindow, Crash
  <2> QED
      BY <1>5, <2>1 DEF DestroyWindow
<1>6. CASE ReadSignal
      BY <1>6 DEF ReadSignal
<1>7. CASE ReleaseVT
      BY <1>7 DEF ReleaseVT, Crash
<1>8. CASE AcquireVT
      BY <1>8 DEF AcquireVT, Crash
<1>9. CASE Acknowledge
      BY <1>9 DEF Acknowledge, Permitted
<1>10. CASE ClearSignal
      BY <1>10 DEF ClearSignal, Swapped
<1>11. CASE AskToLeave
      BY <1>11 DEF AskToLeave, Handler
<1>12. CASE ComeBack
      BY <1>12 DEF ComeBack, Handler
<1>13. CASE UNCHANGED vars
      BY <1>13 DEF vars
<1> QED
    BY <1>1, <1>2, <1>3, <1>4, <1>5, <1>6, <1>7, <1>8, <1>9, <1>10, <1>11,
       <1>12, <1>13 DEF Next

LEMMA AlwaysAgrees == Prompt => (Spec => []ConsoleAgrees)
<1> SUFFICES ASSUME Prompt PROVE Spec => []ConsoleAgrees
    OBVIOUS
<1>1. ConsoleAgrees /\ [Next]_vars => ConsoleAgrees'
      BY AgreesStep
<1> QED
    BY <1>1, AgreesInit, PTL DEF Spec

\* No request of the console to leave its VT is forgotten, however its signals
\* fall into kbd_vt_update, provided that none comes while one is handled.
THEOREM ReleaseIsRemembered == Prompt => (Spec => []ReleaseNotForgotten)
<1>1. ConsoleAgrees => ReleaseNotForgotten
      BY DEF ConsoleAgrees, ReleaseNotForgotten, Updating
<1> QED
    BY <1>1, AlwaysAgrees, PTL

\* Nor is a return to it: the compare-and-swap never clears a word that came in
\* the meantime.
THEOREM ReturnIsRemembered == Prompt => (Spec => []ReturnNotForgotten)
<1>1. ConsoleAgrees => ReturnNotForgotten
      BY DEF ConsoleAgrees, ReturnNotForgotten, Updating
<1> QED
    BY <1>1, AlwaysAgrees, PTL

-------------------------------------------------------------------------------
(* What is left on the VT *)

ReleaseInv == SurfacesListed /\ ReleasedAll

LEMMA ReleaseInit == Init => ReleaseInv
BY DEF Init, ReleaseInv, SurfacesListed, ReleasedAll

LEMMA ReleaseStep ==
  ASSUME "drop" \notin Faults, TypeInv, ConsoleAgrees, ReleaseInv, [Next]_vars
  PROVE  ReleaseInv'
<1> USE KmsSessionAssumption DEF ReleaseInv, SurfacesListed, ReleasedAll
<1>1. ASSUME NEW w \in Windows, CreateWithoutGbm(w) PROVE ReleaseInv'
  <2>1. PICK k \in {"vulkan", "plain"} :
          \/ Enlist(w, k) /\ UNCHANGED <<pc, current>>
          \/ /\ kind' = [kind EXCEPT ![w] = k]
             /\ current' = w /\ pc' = "failed"
             /\ UNCHANGED <<listed, vulkan_mode>>
        BY <1>1 DEF CreateWithoutGbm
  <2>2. /\ w \notin listed /\ w \notin surfaces /\ pc = "idle"
        /\ current = NoWindow
        /\ UNCHANGED <<surfaces, deviceVars, master, vtVars>>
        BY <1>1 DEF CreateWithoutGbm, TypeInv, TypeOK, CurrentIsKnown, Creating
  <2>3. CASE Enlist(w, k) /\ UNCHANGED <<pc, current>>
        BY <2>2, <2>3 DEF Enlist, TypeInv, TypeOK, CurrentIsKnown, Creating
  <2>4. CASE /\ kind' = [kind EXCEPT ![w] = k]
             /\ current' = w /\ pc' = "failed"
             /\ UNCHANGED <<listed, vulkan_mode>>
        BY <2>2, <2>4 DEF TypeInv, TypeOK, CurrentIsKnown, Creating
  <2> QED
      BY <2>1, <2>3, <2>4
<1>2. ASSUME NEW w \in Windows, CreateGlWindow(w) PROVE ReleaseInv'
  <2>1. pc = "idle" /\ current = NoWindow
        BY <1>2 DEF CreateGlWindow, TypeInv, CurrentIsKnown, Creating
  <2>2. surfaces \subseteq listed
        BY <2>1 DEF TypeInv, TypeOK
  <2>3. pc' \in {"load", "failed"}
        BY <1>2 DEF CreateGlWindow, GbmInit
  <2> QED
      BY <1>2, <2>2, <2>3 DEF CreateGlWindow
<1>3. CASE LoadEgl
      BY <1>3 DEF LoadEgl
<1>4. CASE CreateSurfaces
      BY <1>4 DEF CreateSurfaces, Enlist, Crash
<1>5. ASSUME NEW w \in Windows, DestroyWindow(w) PROVE ReleaseInv'
  <2>1. surfaces \subseteq listed \cup {w}
        BY <1>5 DEF DestroyWindow, TypeInv, TypeOK, CurrentIsKnown, Creating
  <2>2. pc' \in {"idle", "crashed"}
        BY <1>5 DEF DestroyWindow, Crash
  <2> QED
      BY <1>5, <2>1, <2>2 DEF DestroyWindow, SurfacesWithout, Crash
<1>6. CASE ReadSignal
      BY <1>6 DEF ReadSignal, TypeInv, TypeOK
<1>7. CASE ReleaseVT
  <2>1. CASE Crash
        BY <2>1, <1>7 DEF ReleaseVT, Crash
  <2>2. CASE pc' = "ack"
    <3>1. surfaces \subseteq NotVulkan
          BY <1>7 DEF ReleaseVT, NotVulkan, TypeInv, TypeOK, CurrentIsKnown,
                      Creating
    <3>2. surfaces' = {}
          BY <3>1, <2>2, <1>7 DEF ReleaseVT, Released, Crash
    <3>3. ~master'
          BY <2>2, <1>7 DEF ReleaseVT, Crash
    <3> QED
        BY <3>2, <3>3
  <2> QED
      BY <2>1, <2>2, <1>7 DEF ReleaseVT
<1>8. CASE AcquireVT
  <2>1. signal = "acquire" /\ signal' = signal
        BY <1>8 DEF AcquireVT, ConsoleAgrees
  <2>2. CASE Crash
        BY <2>1, <2>2, <1>8 DEF AcquireVT, Crash
  <2>3. CASE surfaces' \in Rebuilt /\ listed' = listed
        BY <2>1, <2>3 DEF Rebuilt, NotVulkan
  <2> QED
      BY <2>2, <2>3, <1>8 DEF AcquireVT
<1>9. CASE Acknowledge
      BY <1>9 DEF Acknowledge
<1>10. CASE ClearSignal
      BY <1>10 DEF ClearSignal
<1>11. CASE AskToLeave
      BY <1>11 DEF AskToLeave
<1>12. CASE ComeBack
      BY <1>12 DEF ComeBack
<1>13. CASE UNCHANGED vars
      BY <1>13 DEF vars
<1> QED
    BY <1>1, <1>2, <1>3, <1>4, <1>5, <1>6, <1>7, <1>8, <1>9, <1>10, <1>11,
       <1>12, <1>13 DEF Next

\* Only the acknowledgement lets another VT in, and it finds all released.
LEMMA LeavesNothing ==
  ASSUME ConsoleAgrees, ReleaseInv, [Next]_vars,
         vt = "leaving", vt' = "away"
  PROVE  surfaces = {} /\ ~master
<1>1. CASE Acknowledge
      BY <1>1 DEF Acknowledge, ConsoleAgrees, ReleaseInv, ReleasedAll
<1>2. CASE ~Acknowledge
  <2>1. UNCHANGED vt \/ AskToLeave \/ ComeBack
        BY <1>2 DEF Next, vars, CreateWithoutGbm, CreateGlWindow, LoadEgl,
           CreateSurfaces, DestroyWindow, ReadSignal, ReleaseVT, AcquireVT,
           ClearSignal
  <2> QED
      BY <2>1 DEF AskToLeave, ComeBack
<1> QED
    BY <1>1, <1>2

\* When KMSDRM_ReleaseVT's drmDropMaster works, another VT is never let in
\* before all surfaces are gone and DRM master is given up.
THEOREM VtLeftClean ==
  Prompt /\ "drop" \notin Faults => (Spec => LeavesNothingOnVt)
<1> SUFFICES ASSUME Prompt, "drop" \notin Faults
             PROVE  Spec => LeavesNothingOnVt
    OBVIOUS
<1>1. TypeInv /\ ConsoleAgrees /\ ReleaseInv /\ [Next]_vars => ReleaseInv'
      BY ReleaseStep
<1>2. ConsoleAgrees /\ ReleaseInv /\ [Next]_vars
        => [vt = "leaving" /\ vt' = "away" => surfaces = {} /\ ~master]_vt
      BY LeavesNothing
<1>3. Spec => []ConsoleAgrees
      BY AlwaysAgrees
<1> QED
    BY <1>1, <1>2, <1>3, TypeInit, TypeStep, ReleaseInit, PTL
       DEF Spec, LeavesNothingOnVt
-------------------------------------------------------------------------------
(* The device *)

LEMMA ListedInit == Init => SurfacesListed
BY DEF Init, SurfacesListed

LEMMA ListedStep ==
  ASSUME TypeInv, SurfacesListed, [Next]_vars PROVE SurfacesListed'
<1> USE KmsSessionAssumption DEF SurfacesListed
<1>1. ASSUME NEW w \in Windows, CreateWithoutGbm(w) PROVE SurfacesListed'
  <2>1. PICK k \in {"vulkan", "plain"} :
          \/ Enlist(w, k) /\ UNCHANGED <<pc, current>>
          \/ /\ kind' = [kind EXCEPT ![w] = k]
             /\ current' = w /\ pc' = "failed"
             /\ UNCHANGED <<listed, vulkan_mode>>
        BY <1>1 DEF CreateWithoutGbm
  <2>2. /\ w \notin listed /\ w \notin surfaces /\ pc = "idle"
        /\ current = NoWindow
        /\ UNCHANGED <<surfaces, deviceVars, master, vtVars>>
        BY <1>1 DEF CreateWithoutGbm, TypeInv, TypeOK, CurrentIsKnown, Creating
  <2>3. CASE Enlist(w, k) /\ UNCHANGED <<pc, current>>
        BY <2>2, <2>3 DEF Enlist, TypeInv, TypeOK, CurrentIsKnown, Creating
  <2>4. CASE /\ kind' = [kind EXCEPT ![w] = k]
             /\ current' = w /\ pc' = "failed"
             /\ UNCHANGED <<listed, vulkan_mode>>
        BY <2>2, <2>4 DEF TypeInv, TypeOK, CurrentIsKnown, Creating
  <2> QED
      BY <2>1, <2>3, <2>4
<1>2. ASSUME NEW w \in Windows, CreateGlWindow(w) PROVE SurfacesListed'
  <2>1. current = NoWindow
        BY <1>2 DEF CreateGlWindow, TypeInv, CurrentIsKnown, Creating
  <2> QED
      BY <1>2, <2>1 DEF CreateGlWindow, TypeInv, TypeOK
<1>3. CASE CreateSurfaces
      BY <1>3 DEF CreateSurfaces, Enlist, Crash
<1>4. ASSUME NEW w \in Windows, DestroyWindow(w) PROVE SurfacesListed'
  <2>1. surfaces \subseteq listed \cup {w}
        BY <1>4 DEF DestroyWindow, TypeInv, TypeOK, CurrentIsKnown, Creating
  <2> QED
      BY <1>4, <2>1 DEF DestroyWindow, SurfacesWithout, Crash
<1>5. CASE ReleaseVT
      BY <1>5 DEF ReleaseVT, Crash
<1>6. CASE AcquireVT
      BY <1>6 DEF AcquireVT, Rebuilt, NotVulkan, Crash
<1>7. CASE UNCHANGED <<surfaces, listed, current>>
      BY <1>7
<1> QED
    BY <1>1, <1>2, <1>3, <1>4, <1>5, <1>6, <1>7
       DEF Next, vars, LoadEgl, ReadSignal, Acknowledge, ClearSignal,
           AskToLeave, ComeBack

\* num_windows <= 1 means that a listed window is the only one.
LEMMA LastIsAlone ==
  ASSUME TypeOK, LastWindow, NEW w \in listed PROVE listed = {w}
<1>1. IsFiniteSet(listed)
      BY KmsSessionAssumption, FS_Subset DEF TypeOK
<1>2. /\ IsFiniteSet(listed \ {w})
      /\ Cardinality(listed \ {w}) = Cardinality(listed) - 1
      BY <1>1, FS_RemoveElement
<1>3. Cardinality(listed) \in Nat /\ Cardinality(listed \ {w}) \in Nat
      BY <1>1, <1>2, FS_CardinalityType
<1>4. Cardinality(listed \ {w}) = 0
      BY <1>2, <1>3 DEF LastWindow
<1>5. listed \ {w} = {}
      BY <1>2, <1>4, FS_EmptySet
<1> QED
    BY <1>5

\* What DeviceGoesLast says of a step.
DeviceKept == \/ surfaces' = {}
              \/ (gbm_dev => gbm_dev') /\ (egl_data => egl_data')

LEMMA KeptStep ==
  ASSUME TypeInv, SurfacesListed, Next, pc = "idle" PROVE DeviceKept
<1>1. ASSUME NEW w \in Windows, CreateGlWindow(w) PROVE DeviceKept
  <2>1. CASE UNCHANGED deviceVars
        BY <2>1 DEF DeviceKept
  <2>2. CASE ~gbm_init /\ GbmInit
        BY <2>2 DEF GbmInit, DeviceKept, TypeInv, DeviceIsInit
  <2> QED
      BY <1>1, <2>1, <2>2 DEF CreateGlWindow
<1>2. ASSUME NEW w \in Windows, DestroyWindow(w) PROVE DeviceKept
  <2>1. w \in listed /\ surfaces \subseteq listed
        BY <1>2, KmsSessionAssumption
           DEF DestroyWindow, TypeInv, TypeOK, CurrentIsKnown, Creating,
               SurfacesListed
  <2>2. CASE LastWindow /\ ~Crash
    <3>1. surfaces \subseteq {w}
          BY <2>1, <2>2, LastIsAlone DEF TypeInv
    <3>2. surfaces' = surfaces \ {w}
          BY <1>2, <2>2 DEF DestroyWindow, SurfacesWithout
    <3> QED
        BY <3>1, <3>2 DEF DeviceKept
  <2>3. CASE ~LastWindow \/ Crash
    <3>1. UNCHANGED <<gbm_dev, egl_data>>
          BY <1>2, <2>3 DEF DestroyWindow, Teardown, Crash
    <3> QED
        BY <3>1 DEF DeviceKept
  <2> QED
      BY <2>2, <2>3
<1>3. ASSUME NEW w \in Windows, CreateWithoutGbm(w) PROVE DeviceKept
      BY <1>3 DEF CreateWithoutGbm, DeviceKept
<1>4. CASE ReadSignal \/ AskToLeave \/ ComeBack
      BY <1>4 DEF ReadSignal, AskToLeave, ComeBack, DeviceKept
<1> QED
    BY <1>1, <1>2, <1>3, <1>4
       DEF Next, LoadEgl, CreateSurfaces, ReleaseVT, AcquireVT, Acknowledge,
           ClearSignal

\* Destroying windows that were created, in any order, never takes the device
\* or the library from under another's surfaces, whatever has failed before.
THEOREM DeviceOutlivesOthers == Spec => DeviceGoesLast
<1>1. TypeInv /\ SurfacesListed /\ [Next]_vars
        => [pc = "idle" => DeviceKept]_vars
      BY KeptStep
<1>2. TypeInv /\ SurfacesListed /\ [Next]_vars => SurfacesListed'
      BY ListedStep
<1>3. Spec => [][pc = "idle" => DeviceKept]_vars
      BY <1>1, <1>2, TypeInit, TypeStep, ListedInit, PTL DEF Spec
<1> QED
    BY <1>3 DEF DeviceGoesLast, DeviceKept
===============================================================================
