SPECIFICATION FairSpec
CONSTANTS
  b2 = b2
  Posts = {p1}
  Cancels = {}
  Workers = {w1}
  Keys = {k1}
  NoKey = NoKey
  Bodies = {b2}
  FormOf <- Mixed
  Doors = {"objectives"}
  LlmKey = TRUE
  Registered = FALSE
  QueueMax = 2
  MaxCrashes = 0
  None = None
PROPERTY AnnouncedSettles
CHECK_DEADLOCK FALSE
