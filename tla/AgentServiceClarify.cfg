CONSTANTS
  None = None
  MaxRequests = 3
  Terminal <- MCTerminal
  Entity <- MCEntity
  Relation <- MCRelation
  Records <- MCRecords
  LongAnswers <- MCLong
  HugeAnswers <- MCHuge
  Text <- MCText
  MaxInFlight = 2
  MaxCrashes = 1
  UtteranceCap = 2
  EvidenceCap = 1
  ResolvedCap = 2
SPECIFICATION Spec
INVARIANT ClarificationKeepsChoices
