SPECIFICATION FairSpec
CONSTANTS
  c1 = c1
  c2 = c2
  e1 = e1
  e2 = e2
  n1 = n1
  Nil = Nil
  Call <- MCCall
  Hanging <- MCHanging
  End <- MCEnd
  Name <- MCName
  MaxServers = 2
  MaxToggles = 2
CHECK_DEADLOCK FALSE
INVARIANT NoReplyFromDead
PROPERTIES ImplementsRpc CallReturns KilledServerFailsCalls HandlersDrained
