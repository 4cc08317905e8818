SPECIFICATION Spec
CONSTANTS
  Sessions = {s1}
  Mandatory = {reach}
  Optional = {note}
  Lists = {none, list}
  EmptyList = none
  Handlers = {h1, h2}
  None = None
PROPERTY FrozenForGood
CHECK_DEADLOCK FALSE
