SPECIFICATION Spec
CONSTANTS
  Actors = {1, 2}
  MaxHead = 2
  MaxDials = 1
  MaxPromotions = 1
  MaxPerches = 1
  MayRemove = FALSE
INVARIANTS SentIsWatchable SetPrecedesEntry
CHECK_DEADLOCK FALSE
