SPECIFICATION FairSpec
CONSTANTS
  Secondaries <- FiveThreads
  NumVectors = 2
  Irq = 2
  TrampWords = 3
  XellWords = 2
  s1 = s1
  s2 = s2
  s3 = s3
  s4 = s4
  s5 = s5
CHECK_DEADLOCK FALSE
INVARIANTS TypeOK NoWildFetch NobodyInOverwrittenCode ReleaseFollowsChoice
PROPERTIES HandoffSpec AllCaught XellGetsAllThreads
