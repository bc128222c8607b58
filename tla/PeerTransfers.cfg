CONSTANTS
  a1 = a1
  a2 = a2
  b1 = b1
  a = a
  b = b
  mp3 = mp3
  Setups <- MCSetups
  Songs = {a, b}
  Names = {mp3}
  NameOf <- MCNameOf
  Attempts = {a1, a2, b1}
  SongOf <- MCSongOf
  NoAttempt = NoAttempt
  Chunks = 2
  FirstSong = a
  Slots = 2
  MaxAttempts = 2
  MaxFaults = 1
SPECIFICATION Spec
INVARIANTS
  TypeOK
  FolderIsSound
  ShownDoneIsSaved
  CompletedIsBacked
  NothingKept
PROPERTIES
  SavedIsRight
  CancelledIsNotReported
