SPECIFICATION FairSpec
CONSTANTS
  Windows = {w1, w2, w3}
  NoWindow = NoWindow
  Kinds = {"gl", "vulkan"}
  Faults = {"gbm", "egl", "surfaces", "rebuild", "list"}
  Prompt = TRUE
INVARIANTS TypeOK ReleaseNotForgotten ReturnNotForgotten
PROPERTIES DeviceGoesLast LeavesNothingOnVt SwitchIsAnswered
CHECK_DEADLOCK FALSE
