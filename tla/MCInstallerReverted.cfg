CONSTANTS
  t1 = t1
  t2 = t2
  paper = paper
  spigot = spigot
  forge = forge
  neoforge = neoforge
  bedrock = bedrock
  world = world
  packs = packs
  mod = mod
  None = None
  Threads <- MCOneThread
  Software <- MCPlainSoftware
  Kind <- MCPlainKind
  Data <- MCWorld
  Stuck = {}
  Mods = {}
  Initial = paper
  MaxInstalls = 2
  MaxFaults = 0
SPECIFICATION Spec
CHECK_DEADLOCK FALSE
INVARIANT
  RollbackIsLaunchable
