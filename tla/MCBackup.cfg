CONSTANTS
  a1 = a1
  a2 = a2
  world = world
  level = level
  None = None
  Admins <- MCAdmins
  Entries <- MCEntries
  Stuck <- MCStuck
  Private <- MCPrivate
  MaxRetention = 2
  MaxRequests = 2
  MaxFaults = 1
SPECIFICATION FairSpec
INVARIANTS
  TypeOK
  
  RestoredIsWhole
  ListedIsRestorable
  SettledWhenFree
PROPERTIES
  NothingClearedUnstaged
  NewestIsKept
  
