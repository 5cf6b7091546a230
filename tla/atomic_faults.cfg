SPECIFICATION Spec
CONSTANTS
  Buffers = {b1, b2, b3, b4}
  NoBuf = NoBuf
  Tty = Tty
  Paths = {"fenced", "double"}
  Events = {"dirty", "vt"}
  Faults = {"swap", "lock", "fb", "commit", "setcrtc", "create", "timeout"}
  ImplicitSync = TRUE
  EglWaits = FALSE
SYMMETRY BufferSymmetry
INVARIANTS TypeOK BuffersProtected SuccessIsPresented
