SPECIFICATION Spec
CONSTANTS
  Buffers = {b1, b2, b3}
  NoBuf = NoBuf
  Tty = Tty
  Paths = {"fenced"}
  Events = {"vt"}
  Faults = {}
  ImplicitSync = FALSE
  EglWaits = FALSE
SYMMETRY BufferSymmetry
INVARIANTS NoBusyCommit NoStrayFence
PROPERTIES FlipShowsFinishedFrame
