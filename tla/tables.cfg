\* The promise registry, the shield, the units, and five small machines: the streaming reidentifier,
\* the prove console, the tier lock, the census and the briefs.
SPECIFICATION TablesSpec
CONSTANTS
  Blank = Blank
  ExpectedFindings = {"Q2-1", "Q3-1"}
  ClientFacing <- MCClientFacing
  Testable = {"test_x"}
  RegistryDocs <- MCRegistryDocs
  Shieldings <- MCShieldings
  MaxPending = 7
  MaxReply = 8
  qa = qa
  qn = qn
  Samples <- MCSamples
  Novel = {n1}
  Placeholder = ph
  NoGap = NoGap
  ProveAsks = {t1, t2, t3}
  QueueAsks = {w1, w2}
  LockPosts = {h1, h2}
  LockKeys = {k1, k2}
  QuoteAsks = {q1, q2}
  QuoteRequests <- MCQuoteRequests
  MaxBoots = 2
  fd = fd
  c1 = c1
  v1 = v1
  CensusFeeds = {fd}
  CensusValues = {v1, v2}
  Recordings = {c1, c2}
  Absent = Absent
  Facts = {"total", "spend", "card", "email"}
  ShownAs <- MCShownAs
  Numerals <- MCNumerals
  Inside <- MCInside
  LastFour <- MCLastFour
  Desks = {d1, d2}
  CensusRefs = {m1, m2}
  ReadMaps <- MCReadMaps
  Drafts <- MCDrafts
  NoOne = NoOne
  Declarations <- MCDeclarations
  AuditBuffer = 1
  Threshold = 2
  MinSpeech = 2
  MinSilence = 3
  Frame = 1
  MinWindow = 2
  MaxWindow = 4
  TicksPerMs = 2
  Missing = Missing
SYMMETRY Symmetry
INVARIANTS
  UnitsStandOnTheirSources
  RegistryFormIsAsReported
  ShieldedTextIsSeenWhole
  ProveOnRecord
  TierLockGoverns
  CensusAndBriefsStand
CHECK_DEADLOCK FALSE
