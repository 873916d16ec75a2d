CONSTANTS
  a1 = a1
  a2 = a2
  java = java
  bedrock = bedrock
  terraria = terraria
  stable = stable
  other = other
  difficulty = difficulty
  gamemode = gamemode
  motd = motd
  easy = easy
  hard = hard
  classic = classic
  None = None
  Admins <- MCAdmins
  Editions <- MCEditions
  Channels <- MCChannels
  Known <- MCKnown
  Gameplay <- MCGameplay
  Universal <- MCUniversal
  Values <- MCValues
  Editable <- MCEditable
  Accepts <- MCAccepts
  Allowed <- MCAllowed
  Defaults <- MCDefaults
  Base <- MCBase
  Permits <- MCEditions
  Supports <- MCSupports
  MaxRequests = 3
  MaxFaults = 1
SPECIFICATION Spec
INVARIANTS
  TypeOK
  BootsUnlessCrossed
PROPERTIES
  OwnFieldsOnly
CHECK_DEADLOCK FALSE
