SPECIFICATION FairSpec
CONSTANTS
  x = x
  y = y
  Nil = Nil
  Key <- MCKeys
  Op <- MCOps
  NOp = 3
  MaxTime = 2
  Word = 2

CHECK_DEADLOCK FALSE
INVARIANTS ListIntact LongestIsLongest VerdictCorrect
PROPERTY CheckReturns
