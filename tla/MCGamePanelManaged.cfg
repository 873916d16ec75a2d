CONSTANTS
  t1 = t1
  t2 = t2
  paper = paper
  forge = forge
  bedrock = bedrock
  None = None
  Invalid = Invalid
  Main = Main
  Threads <- MCOneThread
  Software <- MCManaged
  Kind <- MCManagedKind
  Initial = forge
  MaxInstalls = 1
  Rollbacks = FALSE
  MaxEvents = 0
SPECIFICATION Spec
CHECK_DEADLOCK FALSE
INVARIANT
  NoGameWhileReplacing
