CONSTANTS
  Bits = 4
  CarrySize = 256
  P = 65537
  MaxExpSteps = 24
  SmallField = 11
  Workloads <- MCWorkloads
SPECIFICATION Spec
INVARIANTS
  ChipsDecide
  GadgetsAssignTheirCarries
  ExpRowsAccepted
  AssignedCellsAccepted
  OnlyTheEvmResult
CHECK_DEADLOCK FALSE
