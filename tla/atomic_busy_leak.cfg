SPECIFICATION Spec
CONSTANTS
  Buffers = {b1, b2, b3}
  NoBuf = NoBuf
  Tty = Tty
  Paths = {"fenced"}
  Events = {}
  Faults = {"timeout"}
  ImplicitSync = TRUE
  EglWaits = FALSE
INVARIANTS BufferForNextFrame
