SPECIFICATION FairSpec
CONSTANTS
  a = a
  c = c
  admin = admin
  Appender <- MCAppender
  Getter <- MCGetter
  Admin = admin
  Key <- MCKey
  Gid <- MCGid
  NShards = 2
  NServer = 2
  NCtrler = 2
  MaxConfig = 2
  MaxFaults = 1
CHECK_DEADLOCK FALSE
INVARIANTS AppendWasDone GetIsFresh
PROPERTIES CallReturns AdminReturns
