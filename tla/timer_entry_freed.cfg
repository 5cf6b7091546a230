SPECIFICATION Spec
CONSTANTS
  Threads = {a, b}
  TimerThread = TimerThread
  Slots = {s1, s2}
  NoSlot = NoSlot
  MaxId = 2
  Faults = {}
  Orderly = TRUE
INVARIANT EntryInMemory
CHECK_DEADLOCK FALSE
