\* A cancellation that commits while its worker is leaving.
CONSTANTS
  Runs = {r1, r2}
  NoRun = NoRun
  Profiles = {p1}
  NoProfile = NoProfile
  MaxVersion = 20
  Uploads = {"scanned"}
  MaxCrashes = 0
  FaultyStore = FALSE
SYMMETRY Interchangeable
CONSTRAINT Small
SPECIFICATION JobsSpec
CHECK_DEADLOCK FALSE
INVARIANTS
  CancellingIsOwned
