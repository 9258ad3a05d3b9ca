\* A document, its OCR child, retries and a correction, with one crash.
CONSTANTS
  Runs = {r1, r2, r3}
  NoRun = NoRun
  Profiles = {p1}
  NoProfile = NoProfile
  MaxVersion = 20
  Uploads = {"native", "scanned"}
  MaxCrashes = 1
  FaultyStore = FALSE
SYMMETRY Interchangeable
CONSTRAINT Lineage
SPECIFICATION JobsSpec
CHECK_DEADLOCK FALSE
INVARIANTS
  JobsTypeOK
  ClaimsMatchThreads
  ActiveRowHasOwner
  SignalFollowsCommit
