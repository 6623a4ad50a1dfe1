SPECIFICATION Spec
CONSTANTS
  w1 = w1
  w2 = w2
  None = None
  Worker <- MCWorker
  NMap = 1
  NReduce = 1
  NBlock = 2
  MaxMishaps = 1
  DiskErrors = FALSE
  MaxFaults = 0

CHECK_DEADLOCK FALSE
INVARIANT OutputCorrect
