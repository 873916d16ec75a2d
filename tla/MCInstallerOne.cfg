CONSTANTS
  t1 = t1
  t2 = t2
  paper = paper
  spigot = spigot
  forge = forge
  neoforge = neoforge
  bedrock = bedrock
  world = world
  packs = packs
  mod = mod
  None = None
  Threads <- MCOneThread
  Software <- MCBuiltSoftware
  Kind <- MCBuiltKind
  Data <- MCPacks
  Stuck <- MCPacks
  Mods <- MCMods
  Initial = spigot
  MaxInstalls = 3
  MaxFaults = 1
SPECIFICATION Spec
CHECK_DEADLOCK FALSE
INVARIANTS
  InstallIsLaunched
PROPERTIES
  RollbackRestoresSnapshot
