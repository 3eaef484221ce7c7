SPECIFICATION Spec
CONSTANTS
  Case = "samehalf"
  Scenario <- Setups
  Policies = {0}
  ServerQpn <- ServerQpns
  Coef = 100
  DirectBase = 1000
  VmallocBase = 2048
  ImageBase = 3000
  ModuleBase = 3232
  PhysBase = 64
  Page = 4
  Radix = 2
  Nx = 4096
  Half = 16
  CountMod = 8
  PsnMod = 8
  AddrRegs <- AddrRegisters
  PageRegs <- PageRegisters
  MaxRegs <- MaxRegisters
  PsnRegs <- PsnRegisters
  FirstPsn = 6
  MaxTriggers = 1
  MaxLoss = 0
  Overlap = {}
INVARIANTS
  AlarmSound
\* The system stops when every trigger is spent.
CHECK_DEADLOCK FALSE
