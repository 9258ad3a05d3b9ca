\* The restart edges against the verification attempt that is inserted once.
CONSTANTS
  Runs = {r1, r2}
  NoRun = NoRun
  Profiles = {p1}
  NoProfile = NoProfile
  MaxVersion = 20
SYMMETRY Interchangeable
SPECIFICATION Spec
CHECK_DEADLOCK FALSE
INVARIANTS
  RewoundWorkCanFinish
