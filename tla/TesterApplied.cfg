SPECIFICATION Spec
CONSTANTS
    c1 = c1
    c2 = c2
    N = 2
    Cmd <- MCCmd
    Nil = Nil
    SnapShotInterval = 3
    MaxIndex = 3
    MaxRestarts = 1
SYMMETRY Symmetry
CONSTRAINTS OneRestarts Small
CHECK_DEADLOCK FALSE
INVARIANTS NoFalseAlarm MismatchReported SnapshotsComplete ReturnedIsApplied
