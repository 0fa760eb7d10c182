SPECIFICATION Spec
CONSTANTS
  Modulus = 5
  None = None
  MaxStatements = 3
  Networks <- MCNetworks
INVARIANTS
  
  SolvedIsWhatFollows
  RejectionsAreJustified
  NoActionForgotten
CHECK_DEADLOCK FALSE
