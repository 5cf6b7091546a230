------------------------------- MODULE KmsSession -----------------------------
(***************************************************************************)
(* The windows of the KMSDRM backend and what they share: the GBM device   *)
(* and the display plane (KMSDRM_GBMInit, KMSDRM_GBMDeinit), the EGL       *)
(* library and vulkan_mode, over windows created and destroyed in any      *)
(* order, on one display; and the VT switches that take the surfaces of    *)
(* all of them away and bring them back.                                   *)
(*                                                                         *)
(* A VT switch reaches the program as a signal, at any moment; the handler *)
(* leaves a word, which kbd_vt_update acts upon when events are pumped.    *)
(* What a swap does with a window's surfaces is the subject of KmsAtomic.  *)
(***************************************************************************)
EXTENDS Naturals, FiniteSets

CONSTANTS
  Windows,
  NoWindow,
  Kinds,      \* what the application creates: "gl", "vulkan"
  Faults,     \* what may fail, below
  Prompt      \* no one asks to leave the VT while a switch is being handled

\* KMSDRM_GBMInit; loading EGL; KMSDRM_CreateSurfaces when a window is created
\* and when its VT comes back; growing the window list; drmDropMaster.
AllFaults == {"gbm", "egl", "surfaces", "rebuild", "list", "drop"}

ASSUME KmsSessionAssumption ==
  /\ IsFiniteSet(Windows)
  /\ NoWindow \notin Windows
  /\ Kinds \subseteq {"gl", "vulkan"}
  /\ Faults \subseteq AllFaults
  /\ Prompt \in BOOLEAN

VARIABLES
  pc,             \* where the program's thread is
  current,        \* the window in creation
  kind,           \* each window's kind; "plain" is one without Vulkan or GL
  listed,         \* the windows in viddata->windows
  surfaces,       \* the windows whose GBM and EGL surfaces exist
  is_atomic,      \* viddata->is_atomic: what the driver and the hint allow
  gbm_init,       \* viddata->gbm_init
  gbm_dev,        \* viddata->gbm_dev is not NULL
  display_plane,  \* dispdata->display_plane is not NULL
  egl_data,       \* the EGL library is loaded on gbm_dev
  vulkan_mode,    \* viddata->vulkan_mode
  master,         \* SDL is DRM master
  vt_signal_pending,  \* what the signal handlers last wrote
  signal,         \* the local of kbd_vt_update
  vt              \* the console: "ours", "leaving" (asked of us) or "away"

deviceVars == <<is_atomic, gbm_init, gbm_dev, display_plane, egl_data>>
windowVars == <<current, kind, listed, surfaces>>
vtVars     == <<vt_signal_pending, signal, vt>>
vars == <<pc, windowVars, deviceVars, vulkan_mode, master, vtVars>>

Updating == {"release", "acquire", "ack", "clear"}

TypeOK ==
  /\ pc \in {"idle", "load", "surfaces", "failed", "crashed"} \cup Updating
  /\ current \in Windows \cup {NoWindow}
  /\ kind \in [Windows -> {"none", "gl", "plain", "vulkan"}]
  /\ listed \subseteq {w \in Windows : kind[w] # "none"}
  /\ surfaces \subseteq {w \in Windows : kind[w] \in {"gl", "plain"}}
  /\ is_atomic \in BOOLEAN
  /\ gbm_init \in BOOLEAN
  /\ gbm_dev \in BOOLEAN
  /\ display_plane \in BOOLEAN
  /\ egl_data \in BOOLEAN
  /\ vulkan_mode \in BOOLEAN
  /\ master \in BOOLEAN
  /\ vt_signal_pending \in {"none", "release", "acquire"}
  /\ signal \in {"none", "release", "acquire"}
  /\ vt \in {"ours", "leaving", "away"}

Init ==
  /\ pc = "idle"
  /\ current = NoWindow
  /\ kind = [w \in Windows |-> "none"]
  /\ listed = {}
  /\ surfaces = {}
  /\ is_atomic \in BOOLEAN
  /\ gbm_init = FALSE
  /\ gbm_dev = FALSE
  /\ display_plane = FALSE
  /\ egl_data = FALSE
  /\ vulkan_mode = FALSE
  /\ master = FALSE
  /\ vt_signal_pending = "none"
  /\ signal = "none"
  /\ vt = "ours"

\* The loops over viddata->windows pass the Vulkan windows by.
NotVulkan == {w \in listed : kind[w] # "vulkan"}

\* DestroySurfaces moves the display plane, add_plane_property reads through it.
NoPlaneToMove == is_atomic /\ ~display_plane

Crash == /\ pc' = "crashed"
         /\ UNCHANGED <<windowVars, deviceVars, vulkan_mode, master>>

-------------------------------------------------------------------------------
(* KMSDRM_CreateWindow *)

Enlist(w, k) ==
  /\ kind' = [kind EXCEPT ![w] = k]
  /\ listed' = listed \cup {w}
  /\ vulkan_mode' = (k = "vulkan")

\* Neither a Vulkan window nor, in Vulkan mode, any other one touches GBM; but
\* the list may have to grow for it.
CreateWithoutGbm(w) ==
  /\ pc = "idle"
  /\ kind[w] = "none"
  /\ \E k \in {"vulkan", "plain"} :
       /\ k = "vulkan" => "vulkan" \in Kinds
       /\ k = "plain" => "gl" \in Kinds /\ vulkan_mode
       /\ \/ Enlist(w, k) /\ UNCHANGED <<pc, current>>
          \/ /\ "list" \in Faults
             /\ kind' = [kind EXCEPT ![w] = k]
             /\ current' = w
             /\ pc' = "failed"
             /\ UNCHANGED <<listed, vulkan_mode>>
  /\ UNCHANGED <<surfaces, deviceVars, master, vtVars>>

\* While another VT is shown, its session may hold DRM master.
SetMaster == master' \in {TRUE, master \/ vt # "away"}

\* gbm_init is set whether or not that worked, unless the DRM device could
\* not be opened again.
GbmInit ==
  /\ UNCHANGED <<is_atomic, egl_data>>
  /\ \/ /\ SetMaster
        /\ gbm_init' = TRUE
        /\ gbm_dev' = TRUE
        /\ display_plane' = TRUE
        /\ pc' = "load"
     \/ /\ "gbm" \in Faults
        /\ \/ UNCHANGED <<gbm_init, gbm_dev, master>>
           \/ SetMaster /\ gbm_init' = TRUE /\ gbm_dev' \in BOOLEAN
        /\ UNCHANGED display_plane
        /\ pc' = "failed"

\* A GL window; the first one opens the GBM device and sets up the plane.
CreateGlWindow(w) ==
  /\ pc = "idle"
  /\ kind[w] = "none"
  /\ "gl" \in Kinds
  /\ ~vulkan_mode
  /\ current' = w
  /\ kind' = [kind EXCEPT ![w] = "gl"]
  /\ \/ gbm_init /\ pc' = "load" /\ UNCHANGED <<deviceVars, master>>
     \/ ~gbm_init /\ GbmInit
  /\ UNCHANGED <<listed, surfaces, vulkan_mode, vtVars>>

LoadEgl ==
  /\ pc = "load"
  /\ \/ egl_data' = TRUE /\ pc' = "surfaces"
     \/ ~egl_data /\ "egl" \in Faults /\ pc' = "failed" /\ UNCHANGED egl_data
  /\ UNCHANGED <<windowVars, is_atomic, gbm_init, gbm_dev, display_plane,
                 vulkan_mode, master, vtVars>>

\* The cursor's bo, the surfaces, and the list that may have to grow.
CreateSurfaces ==
  /\ pc = "surfaces"
  /\ UNCHANGED <<deviceVars, master, vtVars>>
  /\ \/ ~gbm_dev /\ Crash
     \/ /\ gbm_dev
        /\ surfaces' = surfaces \cup {current}
        /\ Enlist(current, "gl")
        /\ current' = NoWindow
        /\ pc' = "idle"
     \/ /\ gbm_dev
        /\ \/ "surfaces" \in Faults /\ UNCHANGED surfaces
           \/ "list" \in Faults /\ surfaces' = surfaces \cup {current}
        /\ pc' = "failed"
        /\ UNCHANGED <<current, kind, listed, vulkan_mode>>

-------------------------------------------------------------------------------
(* KMSDRM_DestroyWindow *)

CountsAhead == Cardinality(listed) <= 2  \* mutant
LastWindow == Cardinality(listed) <= 1

LeftBehind(w) == surfaces           \* mutant
SurfacesWithout(w) == surfaces \ {w}

GbmDeinit ==
  /\ UNCHANGED is_atomic
  /\ gbm_init' = FALSE
  /\ gbm_dev' = FALSE
  /\ display_plane' = FALSE
  /\ egl_data' = FALSE
  /\ master' = FALSE

\* A window without Vulkan, while GBM is initialised, has what there is of its
\* surfaces destroyed; any other one ends Vulkan mode.
Teardown(w) ==
  IF kind[w] # "vulkan" /\ gbm_init
    THEN /\ IF LastWindow THEN GbmDeinit ELSE UNCHANGED <<deviceVars, master>>
         /\ UNCHANGED vulkan_mode
    ELSE vulkan_mode' = FALSE /\ UNCHANGED <<deviceVars, master>>

TeardownCrashes(w) == kind[w] # "vulkan" /\ gbm_init /\ NoPlaneToMove

\* By the application, or by SDL_CreateWindow when KMSDRM_CreateWindow failed:
\* that window is not in the list.
DestroyWindow(w) ==
  /\ \/ pc = "idle" /\ w \in listed
     \/ pc = "failed" /\ w = current
  /\ UNCHANGED vtVars
  /\ \/ TeardownCrashes(w) /\ Crash
     \/ /\ ~TeardownCrashes(w)
        /\ Teardown(w)
        /\ surfaces' = SurfacesWithout(w)
        /\ listed' = listed \ {w}
        /\ kind' = [kind EXCEPT ![w] = "none"]
        /\ current' = NoWindow
        /\ pc' = "idle"

-------------------------------------------------------------------------------
(* kbd_vt_update, KMSDRM_ReleaseVT and KMSDRM_AcquireVT *)

ReadSignal ==
  /\ pc = "idle"
  /\ vt_signal_pending # "none"
  /\ signal' = vt_signal_pending
  /\ pc' = vt_signal_pending
  /\ UNCHANGED <<windowVars, deviceVars, vulkan_mode, master,
                 vt_signal_pending, vt>>

AllButOne == {w \in NotVulkan : w # CHOOSE v \in NotVulkan : TRUE}  \* mutant
Released == NotVulkan

ReleaseVT ==
  /\ pc = "release"
  /\ UNCHANGED vtVars
  /\ \/ NotVulkan # {} /\ NoPlaneToMove /\ Crash
     \/ /\ NotVulkan # {} => ~NoPlaneToMove
        /\ surfaces' = surfaces \ Released
        /\ master' \in {FALSE, master /\ "drop" \in Faults}
        /\ pc' = "ack"
        /\ UNCHANGED <<current, kind, listed, deviceVars, vulkan_mode>>

\* KMSDRM_CreateSurfaces needs the device, and destroys surfaces that exist.
AcquireCrashes ==
  \/ NotVulkan # {} /\ ~gbm_dev
  \/ NotVulkan \cap surfaces # {} /\ NoPlaneToMove

\* What it could not make again stays away.
Rebuilt ==
  IF ~egl_data THEN {{}}
  ELSE IF "rebuild" \in Faults THEN SUBSET NotVulkan ELSE {NotVulkan}

AcquireVT ==
  /\ pc = "acquire"
  /\ UNCHANGED vtVars
  /\ \/ AcquireCrashes /\ Crash
     \/ /\ ~AcquireCrashes
        /\ SetMaster
        /\ surfaces' \in Rebuilt
        /\ pc' = "ack"
        /\ UNCHANGED <<current, kind, listed, deviceVars, vulkan_mode>>

\* VT_RELDISP.  The console takes any answer but a refusal for the permission
\* it waits for, VT_ACKACQ as well.
OnlyForAcquire == vt = "leaving" /\ signal = "acquire"  \* mutant
Permitted == vt = "leaving"

Acknowledge ==
  /\ pc = "ack"
  /\ vt' = IF Permitted THEN "away" ELSE vt
  /\ pc' = "clear"
  /\ UNCHANGED <<windowVars, deviceVars, vulkan_mode, master,
                 vt_signal_pending, signal>>

\* The compare-and-swap keeps a signal that has come in the meantime.
Stored == "none"  \* mutant
Swapped == IF vt_signal_pending = signal THEN "none" ELSE vt_signal_pending

ClearSignal ==
  /\ pc = "clear"
  /\ vt_signal_pending' = Swapped
  /\ pc' = "idle"
  /\ UNCHANGED <<windowVars, deviceVars, vulkan_mode, master, signal, vt>>

-------------------------------------------------------------------------------
(* The console, and the signal handlers it runs *)

progVars == <<pc, windowVars, deviceVars, vulkan_mode, master, signal>>

\* mutant
KeepsFirst(s) == IF vt_signal_pending = "none" THEN s ELSE vt_signal_pending
Handler(s) == s

AskToLeave ==
  /\ vt = "ours"
  /\ Prompt => pc \notin Updating
  /\ vt' = "leaving"
  /\ vt_signal_pending' = Handler("release")
  /\ UNCHANGED progVars

ComeBack ==
  /\ vt = "away"
  /\ vt' = "ours"
  /\ vt_signal_pending' = Handler("acquire")
  /\ UNCHANGED progVars

Next == \/ \E w \in Windows : \/ CreateWithoutGbm(w) \/ CreateGlWindow(w)
                              \/ DestroyWindow(w)
        \/ LoadEgl \/ CreateSurfaces
        \/ ReadSignal \/ ReleaseVT \/ AcquireVT \/ Acknowledge \/ ClearSignal
        \/ AskToLeave \/ ComeBack

Spec == Init /\ [][Next]_vars

Backend == \/ LoadEgl \/ CreateSurfaces
           \/ pc = "failed" /\ DestroyWindow(current)
           \/ ReleaseVT \/ AcquireVT \/ Acknowledge \/ ClearSignal

\* A call in progress goes on, and the application, whatever else it does,
\* pumps events again and again, which SDL requires of it.
FairSpec == Spec /\ WF_vars(Backend) /\ SF_vars(ReadSignal)

-------------------------------------------------------------------------------
(* Safety *)

\* The comments of KMSDRM_DestroyWindow: "Unload library and deinit GBM, but
\* only if this is the last window".  The device and the library live as long
\* as any surface made on them.
SurfacesHaveDevice == surfaces # {} => gbm_dev /\ egl_data

\* The end of KMSDRM_CreateWindow leaves the cleaning up of whatever it made to
\* KMSDRM_DestroyWindow, which does it without reading through a NULL pointer.  It does not, once GBM
\* initialisation has failed.
NeverCrashes == pc # "crashed"

\* Windows that were created are destroyed in any order: the device and the
\* library that go with one are never those of another's surfaces.
DeviceGoesLast ==
  [][pc = "idle" => \/ surfaces' = {}
                    \/ (gbm_dev => gbm_dev') /\ (egl_data => egl_data')]_vars

\* A switch the console waits for is in the pending word, or being handled,
\* however the signals and the program's steps fall.
ReleaseNotForgotten ==
  vt = "leaving" => \/ vt_signal_pending = "release"
                    \/ pc \in {"release", "ack"} /\ signal = "release"

\* And so is the return to our VT: with no signal left to handle, the last one
\* that was handled is the console's last word.
ReturnNotForgotten ==
  pc = "idle" /\ vt_signal_pending = "none" =>
    (signal = "release" <=> vt = "away")

\* Another VT is let in only when no window has a surface left for the CRTC
\* and DRM master is given up.
LeavesNothingOnVt ==
  [][vt = "leaving" /\ vt' = "away" => surfaces = {} /\ ~master]_vt

-------------------------------------------------------------------------------
(* Liveness *)

\* A console that asks for the VT gets it, unless the program crashes first.
SwitchIsAnswered == vt = "leaving" ~> vt # "leaving" \/ pc = "crashed"
===============================================================================
