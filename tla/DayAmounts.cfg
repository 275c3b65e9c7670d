SPECIFICATION Spec
CONSTANTS
  Precision = 53
  MaxAmount = 1000
  Deductions = {1, 799}
INVARIANT TwoDecimalsAccepted
CHECK_DEADLOCK FALSE
