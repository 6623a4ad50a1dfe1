SPECIFICATION Spec
CONSTANTS
    s1 = s1
    s2 = s2
    s3 = s3
    v1 = v1
    v2 = v2
    Nil = Nil
    Server <- MCServer
    Value <- MCValue
    MaxTerm = 2
    MaxElections = 2
    MaxLog = 0
    MaxRounds = 0
    MaxPending = 1
    MaxRestarts = 0
    Lossy = FALSE
SYMMETRY Symmetry
\* The bounds stop every behaviour.
CHECK_DEADLOCK FALSE
INVARIANT OneLeaderPerTerm
