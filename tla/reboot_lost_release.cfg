SPECIFICATION FairSpec
CONSTANTS
  Secondaries <- TwoThreads
  NumVectors = 1
  Irq = 1
  TrampWords = 1
  XellWords = 2
  s1 = s1
  s2 = s2
  s3 = s3
  s4 = s4
  s5 = s5
CHECK_DEADLOCK FALSE
PROPERTY FirmwareGetsAllThreads
