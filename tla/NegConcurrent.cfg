CONSTANTS
  owner = owner
  ann = ann
  song = song
  r1 = r1
  r2 = r2
  t1 = t1
  t2 = t2
  t3 = t3
  h1 = h1
  h2 = h2
  NoToken = NoToken
  NoCall = NoCall
  Users = {owner, ann}
  Songs = {song}
  OwnerOf <- MCOwnerOf
  Requests = {r1, r2}
  RequesterOf <- MCAnn
  SongOf <- MCSongOf
  Tokens = {t1, t2, t3}
  Desktops = {owner}
  Tasks = {h1, h2}
  CallsAtOnce = 2
  MaxCalls = 4
  MaxCrashes = 1
  MaxTimeouts = 1
  OtherServices = TRUE
SPECIFICATION Spec
INVARIANTS
  TypeOK
  AnswerDurable
  TokenOfItsOwn
PROPERTY
  NeverPendingAgain
SYMMETRY Symmetry
