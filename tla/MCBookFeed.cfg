SPECIFICATION Spec
CONSTANTS
  a1 = a1
  a2 = a2
  l1 = l1
  l2 = l2
  Assets <- MCAssets
  Levels <- MCLevels
  FirstBooks <- MCFirstBooks
  NoBook = NoBook
  Unread = Unread
  BatchSize = 1
  MaxBackoff = 3
  MaxChanges = 2
  MaxFaults = 2
  MaxCalls = 2
INVARIANTS
  TypeOK
  DrainedBooksAreTrue
PROPERTY
  BooksCatchUp
CHECK_DEADLOCK FALSE
