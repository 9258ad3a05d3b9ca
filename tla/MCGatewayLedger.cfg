\* Two overlapping calls, two possible answers and ids, and time enough to expire.
CONSTANTS
  Callers = {c1, c2}
  Inputs = {i1, i2}
  Ids = {id1, id2}
  Answers = {a1, a2}
  NoAnswer = NoAnswer
  Lifetime = 1
  MaxClock = 2
SYMMETRY Interchangeable
SPECIFICATION Spec
CHECK_DEADLOCK FALSE
INVARIANTS
  PostsAreOnRecord
PROPERTIES
  Implements
