SPECIFICATION ShardSpec
CONSTANTS
  Dumps <- MCShardDumps
  NoTitle = NoTitle
  NoDocument = 0
  CommitEvery = 2
  MaxHops = 2
  MaxDeaths = 0
  WorkerCounts = {1, 2, 3}
  Limits = {3, 6}
  MaxCrashes = 1
INVARIANT SemanticKeysAsSerial
