SPECIFICATION FairSpec
CONSTANTS
  UnitsPerBlock = 2
  BlocksPerFile = 2
  ImageSizes <- SingleFileSizes
  Faults = {}
  MaxRuns = 1
  Crashes = FALSE
  Blank = Blank
  Unreadable = Unreadable
CHECK_DEADLOCK FALSE
PROPERTY CompleteBodyIsPublished
