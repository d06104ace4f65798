SPECIFICATION PinFairSpec
CONSTANTS
  Person = {"amina", "bello"}
  Staff = {"amina"}
  MaxKey = 3
  None = None
  MaxRequest = 1
  MaxTries = 2
  MaxSends = 1
  MaxAsides = 1
CHECK_DEADLOCK FALSE
PROPERTY SignedOutMayLeave
