SPECIFICATION Spec
CONSTANTS
  Sessions = {s1}
  Mandatory = {reach}
  Optional = {note}
  Lists = {none, list}
  EmptyList = none
  Handlers = {h1, h2}
  None = None
INVARIANT FrozenIsGoverned
PROPERTY SettledFrozenStays
SYMMETRY Symmetry
CHECK_DEADLOCK FALSE
