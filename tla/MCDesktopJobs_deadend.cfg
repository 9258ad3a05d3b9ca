\* A scanned document whose OCR handoff fails.
CONSTANTS
  Runs = {r1, r2}
  NoRun = NoRun
  Profiles = {p1}
  NoProfile = NoProfile
  MaxVersion = 20
  Uploads = {"scanned"}
  MaxCrashes = 1
  FaultyStore = FALSE
SYMMETRY Interchangeable
CONSTRAINT Small
SPECIFICATION JobsSpec
CHECK_DEADLOCK FALSE
INVARIANTS
  CheckpointIsNoDeadEnd
