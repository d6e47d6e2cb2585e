CONSTANTS
  Process <- MCProcess
  Key <- MCKey
  Manifest <- MCManifest
  KeyOf <- MCKeyOf
  Lineage <- MCLineage
  NoPack = "none"
  MaxWrites = 2
SPECIFICATION DeploymentSpec
CHECK_DEADLOCK FALSE
INVARIANT ActivatesAtomically
