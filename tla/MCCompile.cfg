SPECIFICATION Spec
CONSTANTS
  Operators <- AllLines
  ServerBase = 100
  Coef = 100
  MaxLines = 5
  MaxPolicies = 1
  Half = 16
  Pgd = 128
INVARIANTS
  NoConflict
  Closed
  CanEnd
  AllRead
\* The compiler stops after the last policy.
CHECK_DEADLOCK FALSE
