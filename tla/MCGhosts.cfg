SPECIFICATION Spec
CONSTANTS
  Case = "ghosts"
  P = P
  Q = Q
  Tools <- Processes
  Sym <- Symbols
  ProtoHooks = 3
  TableSize = 3
  Scenarios <- MCScenarios
  MaxStores = 2
  MaxLines = 10
INVARIANT Genuine
\* Programs end.
CHECK_DEADLOCK FALSE
