SPECIFICATION Spec
CONSTANTS
  Joiners = {j1, j2}
  Invited = {i1}
  Seated = {}
  Openers = {o1, o2}
  Names = {ann, bob}
  Limits = {0, 1}
  DefaultAdmitLimit = 1
  MaxOpenings = 2
  MaxChanges = 2
INVARIANTS BudgetHolds OpensMigrate
PROPERTIES StaffAndRevokedStand
CHECK_DEADLOCK FALSE
