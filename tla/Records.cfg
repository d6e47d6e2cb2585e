CONSTANTS
  MaxEntity = 3
  MinScore = 0
  MaxScore = 1
  EvidenceBits <- MCBits
  MaxCandidates = 2
  MaxSelected = 2
  MaxSteps = 5
  MaxUnions = 3
  MaxInvalid = 1
  Batches <- MCBatches
  Max16 = 4
  Max32 = 5
  StagnationLimit = 3
  MaxRecords = 6
  Records <- MCRecords
  MaxReviews = 3
  MaxReviewers = 2
  MaxKills = 1
  MaxWriteErrors = 1
  Separated <- MCSeparated
SPECIFICATION RecordsSpec
CHECK_DEADLOCK FALSE
INVARIANT WithinCapacity
INVARIANT AnswerNeedsVerification
INVARIANT StreamingMatchesReference
INVARIANT StagnatedIffStuck
INVARIANT AgreesWithinRange
INVARIANT JournalReadable
INVARIANT NoSilentLoss
INVARIANT ReadsGrow
PROPERTY EpisodeEnds
PROPERTY ReviewsDrain
