\* Two operations, one of which may be interrupted. A machine on which nobody is logged in and
\* whose operations are used up has nothing left to do: that is no deadlock.
SPECIFICATION MCSpec
CONSTANTS
  Users = {1, 2}
  Disturbed = {1}
  LastVersion = 2
  MaxGenerations = 2
  MaxLogins = 2
  MaxFaults = 1
CHECK_DEADLOCK FALSE
INVARIANTS
  TypeOK
  QuietWhileReplaced
  ChoicesKept
PROPERTIES
  OperationEnds
