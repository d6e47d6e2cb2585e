CONSTANTS
  None = None
  ObligationId <- MCObligationId
  GoalId = {"goal"}
  EvidenceId = {"e"}
  HypothesisId = {"h"}
  FrontierId = {"f"}
  InvariantId = {"verifier"}
  VerifierRequired = {"verifier"}
  InitialGraphs <- MCCoding
  NewObligations <- MCNew
  SupportSets <- MCSupport
  StatusInputs <- MCStatus
  FrontierInputs = {"OPEN"}
  VerifierInputs = {"ACCEPTED"}
  ActionNames = {"A"}
  ErrorNames = {}
  Window = 2
  StagnationLimit = 2
  MaxOperations = 1
  MaxSteps = 5
SPECIFICATION Spec
CHECK_DEADLOCK FALSE
INVARIANT ProgressCoversGraph
INVARIANT RecoveryAfterStagnation
INVARIANT DeadlockedNeverSatisfied
PROPERTY CountersNeverFall
