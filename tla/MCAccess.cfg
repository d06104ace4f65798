SPECIFICATION PinFairSpec
CONSTANTS
  Person = {"amina", "bello"}
  Staff = {"amina"}
  MaxKey = 4
  None = None
  MaxRequest = 2
  MaxTries = 2
  MaxSends = 2
  MaxAsides = 2
CHECK_DEADLOCK FALSE
PROPERTIES Attributed SignedOutStaysOut GetsIn
INVARIANTS PinIsOwn
