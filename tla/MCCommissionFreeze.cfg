SPECIFICATION Spec
CONSTANTS
  Amount <- MCAmount
  MaxWithdrawals = 2
  Workers = {1, 2, 3, 4}
  Shifts <- MCShifts
  Frozen = FALSE
  None = None
INVARIANTS
  DeletedOwnsNothing
