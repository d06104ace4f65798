CONSTANTS
  n1 = n1
  n2 = n2
  Number = {n1, n2}
  Missing = Missing
  Clerk = {c1, c2}
  Sheets <- TwoRowSheets
  MaxLog = 3
  Mishaps = 1
SPECIFICATION RegistrySpec
CHECK_DEADLOCK FALSE
INVARIANTS DuplicatesWereUnseen PreviewHolds
PROPERTY RegisteredIsListed
