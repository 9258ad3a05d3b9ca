\* A document through its whole pipeline, its OCR child, corrections and retries.
CONSTANTS
  Runs = {r1, r2, r3, r4}
  NoRun = NoRun
  Profiles = {p1}
  NoProfile = NoProfile
  MaxVersion = 20
SYMMETRY Interchangeable
SPECIFICATION Spec
CONSTRAINT Lineage
CHECK_DEADLOCK FALSE
INVARIANTS
  TypeOK
  LogExplainsRun
  StageCompletesOnce
  CheckpointsHoldArtifacts
  CancellationDurable
  RetryLineage
  OneCorrectionPerDocument
  HandoffAdmitsOneChild
PROPERTIES
  HistoryOnlyGrows
