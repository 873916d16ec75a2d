CONSTANTS
  t1 = t1
  t2 = t2
  paper = paper
  spigot = spigot
  forge = forge
  neoforge = neoforge
  bedrock = bedrock
  world = world
  packs = packs
  mod = mod
  None = None
  Threads <- MCTwoThreads
  Software <- MCManagedSoftware
  Kind <- MCManagedKind
  Data <- MCWorld
  Stuck = {}
  Mods = {}
  Initial = bedrock
  MaxInstalls = 2
  MaxFaults = 1
SPECIFICATION FairSpec
CHECK_DEADLOCK FALSE
INVARIANTS
  TypeOK
  Exclusive
  InstalledIsWhole
  SnapshotHoldsWhatIsWiped
  InstallIsLaunched
PROPERTY
  LockIsReleased
