SPECIFICATION MCSpec
CONSTANTS
  scene = scene  cellar = cellar  hero = hero  gob = gob  th = th  tg = tg  ann = ann
  prone = prone  note = note  s1 = s1  s2 = s2
  grak = grak  snik = snik  rosa = rosa  plain = plain  scarred = scarred
  None = None
  Scenes = {scene, cellar}
  Actors = {hero, gob}
  Tokens = {th, tg}
  Texts = {plain, scarred}
  People = {ann}
  Conditions = {prone}
  NoteKeys = {note}
  SessionIds = {s1, s2}
  Names = {grak, snik, rosa}
  Bodies = {0, 1, 2}
  MaxInt = 2
  Heroes = {hero}
  Half = 16
  Squares <- Strip
  Terrain <- Hall
  Prologue <- Begin
  Alphabets <- Topics
  Buffer = 1
  MaxFrames = 2
PROPERTY TeardownEnds
INVARIANTS WorldIsSound NothingDiscarded BoardIsWhatIsSeen SeenIsPresent OnlyWhatMayBeTold BrowsersAgree SightIsRight
CHECK_DEADLOCK FALSE
