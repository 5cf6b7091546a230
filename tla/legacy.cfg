SPECIFICATION FairSpec
CONSTANTS
  Buffers = {b1, b2, b3}
  NoBuf = NoBuf
  Tty = Tty
  Events = {"dirty", "vt"}
  Faults = {"swap", "lock", "fb", "setcrtc", "pageflip", "create", "poll"}
  ImplicitSync = TRUE
  EglWaits = FALSE
INVARIANTS TypeOK NoBusyFlip BufferForNextFrame
PROPERTIES KeepsProtocol CallReturns
