SPECIFICATION FairSpec
CONSTANTS
  Instances = {i1}
  BatchSize = 2
  MaxNumberOfAttempts = 2
  MaxRepeats = 2
INVARIANTS
  AttemptsFollowFailures
  RepeatsArePaidFor
PROPERTIES
  ImplementsFanIn
  OrchestrationEnds
CHECK_DEADLOCK FALSE
