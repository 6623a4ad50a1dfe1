SPECIFICATION Spec
CONSTANTS
    s1 = s1
    s2 = s2
    s3 = s3
    v1 = v1
    v2 = v2
    Nil = Nil
    Server <- MCServer
    Value <- MCValue
    MaxTerm = 2
    MaxElections = 3
    MaxLog = 0
    MaxRounds = 1
    MaxPending = 1
    MaxRestarts = 1
    Lossy = FALSE
CONSTRAINT CrashesBrief
SYMMETRY Symmetry
\* The bounds stop every behaviour.
CHECK_DEADLOCK FALSE
INVARIANT ElectedByMajority
INVARIANT FollowerVoteBinds
INVARIANT DoubleWinNeedsBrokenVoter
INVARIANT FirstTermElectionSafety
