SPECIFICATION FairSpec
CONSTANTS
  Case = "all"
  P = P
  Q = Q
  Tools <- Processes
  Sym <- Symbols
  ProtoHooks = 3
  TableSize = 3
  Scenarios <- MCScenarios
  MaxStores = 2
  MaxLines = 10
INVARIANTS
  TypeOK
  Faithful
  Undisturbed
  Released
PROPERTIES
  DumpKeepsPause
  Ends
\* Programs end.
CHECK_DEADLOCK FALSE
