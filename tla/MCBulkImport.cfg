SPECIFICATION FairSpec
CONSTANTS
  NumberOfDocumentsToImport = 5
  NumberOfBatches = 2
  DatabaseName = "events"
  CollectionPartitionKey = "/device"
  MaxRuns = 2
  Null = Null
INVARIANTS
  TypeOK
  CleanRunIsExact
  TotalsAreSound
PROPERTIES
  DropsOnlyWhenAsked
  RunEndsOrResends
CHECK_DEADLOCK FALSE
