SPECIFICATION MCSpec
CONSTANTS
  Process = {"desktop", "service"}
  Desktop = {"desktop"}
  Thread = {"d1", "d2", "s1"}
  Home <- MCHome
  MaxGenerations = 2
  MaxFiles = 2
  MaxFaults = 1
INVARIANTS OneGeneration ConnectionIsPrepared
PROPERTIES LiveIsServed ServedAgain
