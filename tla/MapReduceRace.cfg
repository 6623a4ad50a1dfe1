SPECIFICATION FairSpec
CONSTANTS
  w1 = w1
  w2 = w2
  None = None
  Worker <- MCWorker
  NMap = 1
  NReduce = 2
  NBlock = 1
  MaxMishaps = 1
  DiskErrors = TRUE
  MaxFaults = 1

CHECK_DEADLOCK FALSE
INVARIANTS OneTimerPerAttempt ReduceAfterMaps NeverNil TimelyOutputCorrect
PROPERTIES ImplementsJob JobEnds
