CONSTANTS
  t1 = t1
  t2 = t2
  paper = paper
  forge = forge
  bedrock = bedrock
  None = None
  Invalid = Invalid
  Main = Main
  Threads <- MCOneThread
  Software <- MCMixed
  Kind <- MCMixedKind
  Initial = paper
  MaxInstalls = 2
  Rollbacks = TRUE
  MaxEvents = 1
SPECIFICATION FairSpec
CHECK_DEADLOCK FALSE
INVARIANTS
  TypeOK
  StoppedForInstall
PROPERTIES
  ContainerSpec
  PanelSpec
  EveryRequestEnds
