SPECIFICATION Spec
CONSTANTS
  Planes = {m1}
  Contribs = {c1, c2}
  Refs = {r1, r2}
  Cap = 1
  Threshold = TRUE
  Library = {"use", "evict"}
  Handlers = {h1, h2}
  None = None
SYMMETRY Symmetry
INVARIANTS LedgerRebuilds PublishedByCeremony
PROPERTY FrozenUnlessMinted
CHECK_DEADLOCK FALSE
