SPECIFICATION Spec
CONSTANTS
  user = user
  again = again
  late = late
  None = None
  Field <- MCField
  Value <- MCValue
  TextOrder <- MCTextOrder
  Declarations <- MCDeclarations
  Early <- MCEarly
  Start <- MCStart
  MaxEdits = 3
  MaxResets = 1
  MaxFailures = 1
CHECK_DEADLOCK FALSE
INVARIANTS
  TypeOK
  CountIsPending
  SentIsAccepted
  RulesMeanAttributes
  ConfirmIsRechecked
PROPERTY
  SubmitSettles
