SPECIFICATION Spec
CONSTANTS
  Buffers = {b1, b2, b3}
  NoBuf = NoBuf
  Tty = Tty
  Events = {}
  Faults = {"pageflip"}
  ImplicitSync = TRUE
  EglWaits = FALSE
INVARIANTS BuffersProtected
