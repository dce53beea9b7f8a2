SPECIFICATION FairSpec
CONSTANTS
  Calls = {k}
  Logs = {a, b}
  World = World
  Nobody = Nobody
  Buffer = 1
  MaxHead = 2
  MaxDials = 2
  MaxMoves = 1
  MaxWire = 1
INVARIANTS HistoryIsOneLog WaitersAreKnown
PROPERTIES CallsReturn CatchesUp ClosedInTheEnd
CHECK_DEADLOCK FALSE
