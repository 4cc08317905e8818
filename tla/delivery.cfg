SPECIFICATION Spec
CONSTANTS
  b2 = b2
  Posts = {p1, p2}
  Cancels = {c1}
  Workers = {w1, w2}
  Keys = {k1, k2}
  NoKey = NoKey
  Bodies = {b1}
  FormOf <- Conclusions
  Doors = {"objectives"}
  LlmKey = TRUE
  Registered = FALSE
  QueueMax = 2
  MaxCrashes = 2
  None = None
SYMMETRY Symmetry
INVARIANTS OneAttempt OutcomeOnRecord AdmissionRefusalOnce CancelRowTruthful NothingStranded
PROPERTY RefinesLifecycle
CHECK_DEADLOCK FALSE
