CONSTANTS
  b1 = b1
  b2 = b2
  b3 = b3
  edited = edited
  ownToken = ownToken
  otherToken = otherToken
  NoData = NoData
  NoFile = NoFile
  NumChunks = 2
  MaxRetries = 2
  Blocks <- MCBlocks
  Original <- MCOriginal
  SenderToken = ownToken
  Tokens <- MCTokens
  Claims <- MCClaims
  ResumePoints <- MCAny
  Limit <- MCMoreDamage
SPECIFICATION FairSpec
INVARIANTS
  TypeOK
  DeliveredIsPromised
  NoChunkSkipped
  InFlightBounded
PROPERTIES
  ImplementsDelivery
  WorkRunsOut
  Terminates
  DamageRepaired
