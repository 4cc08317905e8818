\* One change of each class, a compliance officer and two administrators, two
\* calls at a time, the library operations included.
\* The tightening is of a compliance class (as source_standing_table is), so the
\* void sweep meets objections and advances.
CONSTANTS
  Dual = {d}
  Tightening = {t}
  Compliance = {t}
  DPOs = {dpo}
  Admins = {ann, bob}
  Handlers = {h1, h2}
  Library = {"advance_delay", "void"}
  Delay = 1
  MaxTime = 2
  MaxDocs = 2
  Nobody = Nobody
SYMMETRY Handling
SPECIFICATION Spec
INVARIANTS FourEyes WindowServed SignatureOnRecord
PROPERTY SettledUnlessStale
