SPECIFICATION Spec
CONSTANTS
  Operators <- AllLines
  ServerBase = 100
  Coef = 100
  MaxLines = 3
  MaxPolicies = 2
  Half = 16
  Pgd = 128
INVARIANTS
  NoConflict
  Disjoint
\* The compiler stops after the last policy.
CHECK_DEADLOCK FALSE
