SPECIFICATION FairSpec
CONSTANTS
  MaxTransitions = 3
  MaxFaults = 4
INVARIANTS
  TypeOK
  JobsAndTransitionsExclude
  StoppedMeansStopped
PROPERTIES
  ChoiceFollowsOutcome
  TransitionEnds
