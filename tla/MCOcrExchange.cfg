\* Two overlapping consumers, two results a provider may claim, one unknown job.
CONSTANTS
  Consumers = {c1, c2}
  Results = {v1, v2}
  NoResult = NoResult
  MaxMissing = 1
SYMMETRY Interchangeable
SPECIFICATION Spec
CHECK_DEADLOCK FALSE
INVARIANTS
  NoUnclearedReplay
  ChildHasItsDocument
PROPERTIES
  CompletionIsPinned
