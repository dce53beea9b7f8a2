SPECIFICATION Spec
CONSTANTS
  Actors = {1}
  MaxHead = 2
  MaxDials = 1
  MaxPromotions = 0
  MaxPerches = 0
  MayRemove = TRUE
INVARIANTS NothingTheRemovalCaused
CHECK_DEADLOCK FALSE
