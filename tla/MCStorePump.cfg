SPECIFICATION FairSpec
CONSTANTS
  Logs = {world}
  Subs = {s1, s2}
  Readers = {s1}
  Buffer = 1
  Timeout = 2
  MaxHead = 2
  MaxAfter = 1
INVARIANTS NothingMissed
PROPERTIES StreamSpec ReadersHearAll OnlyStalledReadersAreCut NothingWaitsForEver StoppedPumpEnds
CHECK_DEADLOCK FALSE
