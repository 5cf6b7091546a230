SPECIFICATION FairSpec
CONSTANTS
  Buffers = {b1, b2, b3}
  NoBuf = NoBuf
  Faults = {"swap", "sync", "lock", "makecurrent", "image", "present", "create"}
  Events = {"dirty", "vt"}
INVARIANTS TypeOK NoTornFrame AppLockedAccounted
PROPERTIES CallReturns
