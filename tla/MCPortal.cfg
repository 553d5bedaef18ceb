SPECIFICATION FairSpec
CONSTANTS
  k1 = k1
  k2 = k2
  o1 = o1
  good = good
  bad = bad
  Nothing = Nothing
  Clicks = {k1, k2}
  Others = {o1}
  Pictures = {good, bad}
  Readable = {good}
  MaxFaults = 1
  MaxRuns = 2
  MaxHandles = 2
  MaxChoices = 1
  MaxUses = 3
INVARIANTS
  TypeOK
  QuietPageIsComplete
  SentWhatWasPicked
CHECK_DEADLOCK FALSE
PROPERTIES
  RecognisedIsRecorded
  DialogCloses
  RecordedIsShown
