SPECIFICATION SinglesSpec
CONSTANTS
  c1 = c1
  c2 = c2
  c3 = c3
  s1 = s1
  s2 = s2
  s3 = s3
  r1 = r1
  r2 = r2
  f1 = f1
  f2 = f2
  f3 = f3
  v1 = v1
  e1 = e1
  e2 = e2
  u1 = u1
  u2 = u2
  Claim = {c1, c2, c3}
  Subject = {s1, s2, s3}
  Relation = {r1, r2}
  Family = {f1, f2, f3}
  Event = {v1}
  Entity = {e1, e2}
  Source = {u1, u2}
  Cases <- MCCases
  MaxMicroSteps = 8
  NoValue = NoValue
  Problems <- MCProblems
  NoNode = NoNode
  Absent = Absent
  Blocks = 3
  Needed = 2
  Retries = 1
  MaxMishaps = 3
  Dumps <- MCDumps
  NoTitle = NoTitle
  NoDocument = 0
  CommitEvery = 2
  MaxHops = 2
  MaxDeaths = 2
  Questions <- MCQuestions
  absent = absent
  Surfaces <- MCSurfaces
  Occurrences <- MCOccurrences
  NoEntity = absent
  Asked <- MCAsked
  Page <- PackPage
  PageZero <- FirstPage
  Content <- PackContent
  Class <- PackClass
  PageWords = 2
  Garbage = Garbage
  Capacities = {0, 1, 2, 3}
  MaxPoints = 5
  MaxMerged = 6
  TopK = 2
  HeadWords = 2
  MaxQueries = 3
  MaxFailures = 2
  User <- MCUser
  Pack <- MCPack
  Namespace <- MCNamespace
  NamespaceOf <- MCNamespaceOf
  NoPack = NoPack
  Sound <- MCSound
  MaxCommands = 3
  WorkerCounts = {1, 2, 3}
  Limits = {3, 6}
  MaxCrashes = 1
  Spelling <- MCSpelling
  Normal <- MCNormal
  Inputs <- MCInputs
  Caps = {0, 1, 2}
  VarintBase = 2
  MaxBuilds = 2
  Written <- MCWritten
  TokenOf <- MCTokenOf
  Catalogs <- MCCatalogs
  FuzzyQueries <- MCFuzzyQueries
  Settings <- MCSettings
  TitleRank <- MCTitleRank
  NgramSize = 3
  EditDistance = 2
  Bands = 2
  BandBits = 3
  HashBits <- MCHashBits
INVARIANT AnswerSupported
INVARIANT RejectionExplained
INVARIANT MergedAsSerial
INVARIANT PlanWithinSelection
INVARIANT StuckOnlyAfterCommitment
INVARIANT ExhaustedMeansClosed
INVARIANT ReachedAnswerSelected
INVARIANT ActivatedIsComplete
INVARIANT FailureExplained
INVARIANT IngestComplete
INVARIANT WithinBudget
INVARIANT GapIsReal
INVARIANT PagerConsistent
INVARIANT DeviationNeedsEvidenceFailure
INVARIANT LookupExact
INVARIANT LookupFaithful
INVARIANT UnionFaithful
PROPERTY ImplementsReference
PROPERTY ImplementsActiveSet
