CONSTANTS
  u1 = u1
  u2 = u2
  t1 = t1
  t2 = t2
  Users = {u1, u2}
  NoUser = NoUser
  Tasks = {t1, t2}
  NoTask = NoTask
  MaxFails = 2
  MaxSessions = 2
  MaxLate = 1
  MaxCrashes = 1
SPECIFICATION FairSpec
INVARIANTS
  TypeOK
  HeartbeatIsHeld
  LoginIsWatched
  FailuresAreOfThisLogin
  FilesAgree
  NoSessionLeaks
PROPERTIES
  DeadLoginEnds
