SPECIFICATION Spec
CONSTANTS
  Jobs = {j1, j2}
  Samples = {s1, s2}
  Keys = {k1}
  Workers = {w1, w2}
  Runs = {r1, r2}
  Units = 1
  Handlers = {h1, h2}
  None = None
SYMMETRY Symmetry
INVARIANTS OneOfAKey AnsweredIsKept
PROPERTY ProgressKept
CHECK_DEADLOCK FALSE
