CONSTANTS
  None = None
  ObligationId <- MCObligationId
  GoalId = {"goal"}
  EvidenceId = {}
  HypothesisId = {}
  FrontierId = {}
  InvariantId = {"verifier"}
  VerifierRequired = {"verifier"}
  InitialGraphs <- MCCoding
  NewObligations <- MCNew
  SupportSets <- MCSupport
  StatusInputs <- MCStatus
  FrontierInputs = {"OPEN", "PRUNED"}
  VerifierInputs = {None, "ACCEPTED"}
  ActionNames = {"A"}
  ErrorNames = {}
  Window = 2
  StagnationLimit = 1
  MaxOperations = 3
  MaxSteps = 2
SPECIFICATION Spec
CHECK_DEADLOCK FALSE
INVARIANT ReferentialClosure
