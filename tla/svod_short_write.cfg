SPECIFICATION Spec
CONSTANTS
  UnitsPerBlock = 2
  BlocksPerFile = 2
  ImageSizes <- MultiFileSizes
  Faults = {"write"}
  MaxRuns = 1
  Crashes = FALSE
  Blank = Blank
  Unreadable = Unreadable
CHECK_DEADLOCK FALSE
INVARIANT HeaderTruthful
