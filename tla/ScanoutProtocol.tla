--------------------------- MODULE ScanoutProtocol ---------------------------
(***************************************************************************)
(* What a swap path promises of the buffers it hands between the GPU and   *)
(* the display, whatever calls it makes: one buffer is shown, at most one  *)
(* is queued to be shown next, the GPU writes neither the one that is      *)
(* shown nor, once a write of it may begin, the one that is queued, and a  *)
(* queued buffer is shown only when it is completely drawn.                *)
(***************************************************************************)
CONSTANTS Buffers, None

VARIABLES
  shown,    \* the buffer on the screen, or None (the console, or nothing)
  queued,   \* the buffer a flip was requested for, or None
  writing   \* the buffers the GPU may be writing

vars == <<shown, queued, writing>>

Init == shown = None /\ queued = None /\ writing = {}

\* The GPU starts writing buffers that are neither shown nor queued.
StartWriting ==
  /\ \E B \in SUBSET (Buffers \ {shown, queued}) : writing' = writing \cup B
  /\ UNCHANGED <<shown, queued>>

FinishWriting ==
  /\ \E b \in writing : writing' = writing \ {b}
  /\ UNCHANGED <<shown, queued>>

\* A flip is requested; the buffer's last writes may still be going on.
Queue ==
  /\ queued = None
  /\ queued' \in Buffers
  /\ UNCHANGED <<shown, writing>>

\* The flip completes.  The buffer it replaces may be written from here on.
Flip ==
  /\ queued # None
  /\ queued \notin writing
  /\ shown' = queued
  /\ queued' = None
  /\ \E B \in SUBSET (Buffers \ {queued}) : writing' = writing \cup B

\* A modeset shows a drawn buffer at once.
Modeset ==
  /\ queued = None
  /\ shown' \in Buffers \ writing
  /\ UNCHANGED <<queued, writing>>

\* The screen goes back to the console.
Blank ==
  /\ queued = None
  /\ shown' = None
  /\ UNCHANGED <<queued, writing>>

\* The surface is freed: nothing of it is shown, queued or written.
Discard ==
  /\ shown = None
  /\ queued = None
  /\ writing' = {}
  /\ UNCHANGED <<shown, queued>>

Next == \/ StartWriting \/ FinishWriting \/ Queue \/ Flip
        \/ Modeset \/ Blank \/ Discard

Spec == Init /\ [][Next]_vars
==============================================================================
