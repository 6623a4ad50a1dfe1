SPECIFICATION Spec
CONSTANTS
  a = a
  b = b
  Op <- MCOp
  Lab <- MCLab
  N = 3
  MaxRestarts = 1
SYMMETRY Symmetry
CHECK_DEADLOCK FALSE
INVARIANTS AcknowledgedIsSaved StateFitsSnapshot OldInstanceSilent Connectivity LeaderInMinority
