\* The liveness of cancellations and claims: a scanned document and its child, no symmetry.
CONSTANTS
  Runs = {r1, r2}
  NoRun = NoRun
  Profiles = {p1}
  NoProfile = NoProfile
  MaxVersion = 20
  Uploads = {"scanned"}
  MaxCrashes = 0
  FaultyStore = FALSE
SPECIFICATION LiveSpec
CHECK_DEADLOCK FALSE
PROPERTIES
  CancellationCompletes
  EveryClaimIsReleased
