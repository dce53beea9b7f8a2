SPECIFICATION FairSpec
CONSTANTS
  Actors = {1}
  MaxHead = 2
  MaxDials = 2
  MaxPromotions = 1
  MaxPerches = 1
  MayRemove = TRUE
INVARIANTS ClientFoldsOneLog
PROPERTIES SeatSettles
CHECK_DEADLOCK FALSE
