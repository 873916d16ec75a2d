CONSTANTS
  c1 = c1
  java = java
  bedrock = bedrock
  Invalid = Invalid
  None = None
  Main = Main
  Callers <- MCOneCaller
  Software <- MCTwoSoftware
  MaxKills = 1
SPECIFICATION FairSpec
INVARIANTS
  TypeOK
  
  UnreadableIsFromThisLife
  
PROPERTIES
  TermEndsAgent
  UnreadableIsRepaired
