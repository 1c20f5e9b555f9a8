SPECIFICATION FairSpec
CONSTANTS
  UnitsPerBlock = 3
  BlocksPerFile = 2
  ImageSizes <- LongSizes
  Faults = {"iso", "mkdir", "create", "read"}
  MaxRuns = 3
  Crashes = TRUE
  Blank = Blank
  Unreadable = Unreadable
CHECK_DEADLOCK FALSE
INVARIANTS TypeOK HeaderTruthful UnusedSlotsBlank
PROPERTIES PackageSpec EveryProcessEnds CompleteBodyIsPublished
