SPECIFICATION Spec
CONSTANTS
  Modulus = 5
  None = None
  MaxStatements = 2
  Networks <- JustAccel
INVARIANT ActionsLiveUntilDone
CHECK_DEADLOCK FALSE
