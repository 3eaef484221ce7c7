SPECIFICATION Spec
CONSTANTS
  Word = 128
  Top = 16
  Slot = 2
  Radix = 4
  PudUp = 2
  PgdDown = 2
  HighFrame = 16
  Rows <- MCRows
  Tops <- MCTops
  Entries <- MCEntries
  Addresses <- MCAddresses
INVARIANTS
  TypeOK
  LinearExact
  WalkExact
\* A packet is followed until its address is known.
CHECK_DEADLOCK FALSE
