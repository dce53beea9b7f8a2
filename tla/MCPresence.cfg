SPECIFICATION FairSpec
CONSTANTS
  a1 = a1
  b1 = b1
  b2 = b2
  ann = ann
  bob = bob
  Conns = {a1, b1, b2}
  Promotions = {m}
  Participants = {ann, bob}
  Owner <- MCOwner
  Stalled = {b2}
  Nobody = Nobody
INVARIANTS WrongViewIsMended
PROPERTIES AnnouncementsEnd
CHECK_DEADLOCK FALSE
