SPECIFICATION FairSpec
CONSTANTS
  NumConn = 2
  PsnMod = 4
  Retries = 1
  MaxFailures = 2
  StartPsns <- MCStartPsns
  Scenarios <- MCScenarios
INVARIANTS
  TypeOK
  Agreed
  Configured
  OrderSuffices
PROPERTIES
  PollEnds
  Ends
\* Programs end, and wait for an operator who may do nothing.
CHECK_DEADLOCK FALSE
