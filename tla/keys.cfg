SPECIFICATION Spec
CONSTANTS
  Grants = {g1}
  Seeded = {g1}
  Invites = {i1}
  Handlers = {h1, h2}
  None = None
INVARIANTS GrantsOnRecord OnboardedOnce
PROPERTY RevocationPropagates
CHECK_DEADLOCK FALSE
