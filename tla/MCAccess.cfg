CONSTANTS
  b1 = b1
  b2 = b2
  root = root
  ana = ana
  None = None
  Zero = Zero
  Users <- MCUsers
  Bootstrap = root
  Browsers <- MCBrowsers
  ActiveValues <- MCActiveValues
  Window = 2
  MaxHits = 2
  MaxNow = 2
  MaxCommands = 3
SYMMETRY MCSymmetry
SPECIFICATION Spec
CHECK_DEADLOCK FALSE
INVARIANTS
  TypeOK
  AdminsRemain
  RateIsBounded
