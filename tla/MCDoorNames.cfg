SPECIFICATION Spec
CONSTANTS
  Joiners = {j1, j2}
  Invited = {}
  Seated = {}
  Openers = {o1}
  Names = {ann}
  Limits = {2}
  DefaultAdmitLimit = 1
  MaxOpenings = 1
  MaxChanges = 0
INVARIANT NoTwoShareAName
CHECK_DEADLOCK FALSE
