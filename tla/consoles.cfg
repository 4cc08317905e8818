\* The govern, retention, use-data and connect consoles, the artifact store, Service 1 over its estate and an instance's
\* intake, one at a time.
SPECIFICATION MCSpec
CONSTANTS
  Registries = {g1}
  Uploads = {u1, u2}
  Ids = {i1, i2}
  Values = {v1, v2}
  NoId = NoId
  MaxRows = 2
  Clerks = {k1, k2}
  LastVersion = 3
  Held = {"delivered_artifact"}
  Days <- MCDays
  Dated = {d1}
  Null = Null
  MaxDay = 4
  MaxVersion = 3
  None = None
  Sessions = {s1}
  Requests = {q1, q2}
  Bodies <- MCBodies
  Ceilings <- MCCeilings
  Malformed = Malformed
  Seed = 2
  SourceIds = {c1, c2}
  Hands = {h1, h2}
  MaxSources = 3
  a1 = a1
  Keys = {a1}
  Puts = {p1, p2, p3}
  Plain = {p3}
  KeyOf <- OneKey
  Torn = Torn
  NoFile = NoFile
  LicenseOf <- MCLicenseOf
  DefaultClass <- MCDefaultClass
  Numbered = {"number"}
  Runs = {r1, r2}
  RunBodies <- MCRunBodies
  Asks <- MCAsks
  Drafts <- MCDrafts
  Estate <- MCEstate
  MaxCalls = 1
  NoPlan = NoPlan
  Intakes = {o1, o2}
  Backfills = {b1, b2}
  Earlier = Earlier
INVARIANTS
  EveryVersionExtendsOne
  DeletedIsStillDue
  RunsNowIsClean
  HoldingsAreHonest
  GovernedIsStored
  LeftoverIsMarked
  RunsOnRecord
  WarmAnswersHold
  OnboardingOnRecord
CHECK_DEADLOCK FALSE
