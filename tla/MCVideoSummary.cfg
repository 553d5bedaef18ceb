SPECIFICATION Spec
CONSTANTS
  x1 = x1
  x2 = x2
  x3 = x3
  e1 = e1
  e2 = e2
  a1 = a1
  a2 = a2
  Executions = {x1, x2, x3}
  Events = {e1, e2}
  EventOf <- MCEventOf
  Assets = {a1, a2}
  AssetOf <- MCAssetOf
  NumPages <- MCNumPages
  Null = Null
  Uncorrelated = {}
  NoThumbs = {}
  MaxCrashes = 1
SYMMETRY Twins
INVARIANTS
  TypeOK
  NoLeak
  ReturnedUploaded
  AloneMeansOwn
CHECK_DEADLOCK FALSE
