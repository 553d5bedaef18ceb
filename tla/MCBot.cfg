SPECIFICATION Spec
CONSTANTS
  Conv = {1, 2}
  Turn = {1, 2, 3, 4}
  Of <- MCOf
  MaxFaults = 1
CHECK_DEADLOCK FALSE
INVARIANTS
  TypeOK
  GreetedIsHeard
  DepthIsPaid
PROPERTY
  MessageIsAnswered
