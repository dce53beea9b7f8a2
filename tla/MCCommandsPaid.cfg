SPECIFICATION PaidSpec
CONSTANTS
  hall = hall  vault = vault  orc = orc  elf = elf  tokenA = tokenA  tokenB = tokenB
  ann = ann  master = master  agent = agent  prone = prone  lore = lore  night = night
  grak = grak  plain = plain  moss = moss  None = None  Refused = Refused
  Scenes = {hall, vault}
  Squares <- Strip
  Actors = {orc, elf}
  Tokens = {tokenA, tokenB}
  Texts = {plain}
  People = {ann, master}
  Conditions = {prone}
  NoteKeys = {lore}
  SessionIds = {night}
  Names = {grak}
  Bodies = {0, 4}
  MaxInt = 7
  MaxGoInt = 1023
  MaxExprDepth = 200
  MaxDiceCount = 20
  MaxDiceSides = 10
  Arts = {moss}
  MaxWireTiles = 2
  RoleOf <- Roles
  Conns <- Connections
  DoorSquares <- Doors
INVARIANT UsesArePaid
CHECK_DEADLOCK FALSE
