SPECIFICATION FairSpec
CONSTANTS
  u1 = u1
  u2 = u2
  noDot = noDot
  f1 = f1
  FileIds = {f1}
  FileIdOf <- MCFileIdOf
  Unprobeable = {}
  Null = Null
  Urls = {u1, u2, noDot}
  MaxDeliveries = 2
  MaxFailures = 1
INVARIANTS
  AckedIsEncoded
PROPERTIES
  NothingIsOverwritten
  ImplementsRegistry
  EncodedOrGivenUp
