SPECIFICATION Spec
CONSTANTS
  Windows = {w1, w2, w3}
  NoWindow = NoWindow
  Kinds = {"gl"}
  Faults = {"surfaces"}
  Prompt = TRUE
SYMMETRY WindowSymmetry
INVARIANTS SurfacesHaveDevice
