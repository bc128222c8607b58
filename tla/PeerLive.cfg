CONSTANTS
  a1 = a1
  a2 = a2
  b1 = b1
  a = a
  b = b
  mp3 = mp3
  Setups <- MCAllSetups
  Songs = {a, b}
  Names = {mp3}
  NameOf <- MCNameOf
  Attempts = {a1, a2, b1}
  SongOf <- MCSongOf
  NoAttempt = NoAttempt
  Chunks = 2
  FirstSong = a
  Slots = 2
  MaxAttempts = 1
  MaxFaults = 2
SPECIFICATION FairSpec
PROPERTIES
  AttemptsRunOut
  DownloadEnds
  RequestsSettle
