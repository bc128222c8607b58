CONSTANTS
  ann = ann
  bob = bob
  cat = cat
  n1 = n1
  n2 = n2
  n3 = n3
  h1 = h1
  h2 = h2
  NoUser = NoUser
  NoName = NoName
  NoProfile = NoProfile
  NoDisplay = NoDisplay
  NoCall = NoCall
  Users = {ann, bob, cat}
  Names = {n1, n2, n3}
  MaxSessions = 3
  AtStart <- MCAtStart
  Tasks = {h1, h2}
  MaxCalls = 3
  MaxExpired = 1
  MaxCrashes = 1
SPECIFICATION Spec
INVARIANTS
  TypeOK
  AnswerKept
  LogoutIsFinal
  DeletedIsGone
  NamesAgree
PROPERTY
  DeletionRaisesOnlyLate
SYMMETRY Symmetry
