CONSTANTS
  b1 = b1
  b2 = b2
  b3 = b3
  edited = edited
  ownToken = ownToken
  otherToken = otherToken
  NoData = NoData
  NoFile = NoFile
  NumChunks = 2
  MaxRetries = 2
  Blocks <- MCBlocks
  Original <- MCOriginal
  SenderToken = ownToken
  Tokens <- MCOwnToken
  Claims <- MCExact
  ResumePoints <- MCResumed
  Limit <- MCNone
SPECIFICATION FairSpec
PROPERTY ResumeCompletes
