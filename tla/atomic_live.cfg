SPECIFICATION FairSpec
CONSTANTS
  Buffers = {b1, b2, b3}
  NoBuf = NoBuf
  Tty = Tty
  Paths = {"fenced", "double"}
  Events = {"dirty", "vt"}
  Faults = {"setcrtc"}
  ImplicitSync = TRUE
  EglWaits = TRUE
INVARIANTS FreedOffScreen
PROPERTIES CallReturns KeepsProtocol
