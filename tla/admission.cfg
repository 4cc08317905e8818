SPECIFICATION Spec
CONSTANTS
  b2 = b2
  Posts = {p1, p2, p3}
  Cancels = {}
  Workers = {w1}
  Keys = {k1, NoKey}
  NoKey = NoKey
  Bodies = {b1, b2}
  FormOf <- Mixed
  Doors = {"objectives", "dispatch"}
  LlmKey = TRUE
  Registered = TRUE
  QueueMax = 1
  MaxCrashes = 1
  None = None
SYMMETRY Symmetry
INVARIANTS ReplaysAgree SaturatedNeverRuns
CHECK_DEADLOCK FALSE
