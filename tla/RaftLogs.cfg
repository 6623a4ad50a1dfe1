SPECIFICATION SpecElected
CONSTANTS
    s1 = s1
    s2 = s2
    s3 = s3
    v1 = v1
    v2 = v2
    Nil = Nil
    Server <- MCServer
    Value <- MCValues
    MaxTerm = 2
    MaxElections = 2
    MaxLog = 2
    MaxRounds = 2
    MaxPending = 1
    MaxRestarts = 1
    Lossy = TRUE
SYMMETRY Followers
CONSTRAINT FirstTermOrBrief
ACTION_CONSTRAINT CrashesAndLosses
\* The bounds stop every behaviour.
CHECK_DEADLOCK FALSE
INVARIANTS StateMachineSafety LogTermsOrdered LeaderNextIndexInRange
