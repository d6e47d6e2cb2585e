CONSTANTS
  MaxEntity = 3
  MinScore = 0
  MaxScore = 1
  EvidenceBits <- MCBits
  MaxCandidates = 2
  MaxSelected = 2
  MaxSteps = 5
  MaxUnions = 3
  MaxInvalid = 1
  Batches <- MCBatches
SPECIFICATION Spec
PROPERTY AnswerSupported
