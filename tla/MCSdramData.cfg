SPECIFICATION Spec
CONSTANTS
  PWRUP_WAIT_CYCLES = 1
  TRP_CYCLES = 1
  TRFC_CYCLES = 2
  TMRD_CYCLES = 1
  TRCD_CYCLES = 1
  TWR_CYCLES = 1
  CAS_LATENCY_CYCLES = 2
  REFI_CYCLES = 12
  REFRESH_DEFER_CYCLES = 2
  Byte = {0, 1}
  ZERO = 0
  X = X
  NoReq = NoReq
  NoResp = NoResp
  READY_FIRST = TRUE
CONSTANT Requests <- MCRequests
CONSTANT Cells <- MCCells
CONSTANT Horizon <- MCHorizon
INVARIANTS NoLostRequest
PROPERTIES ImplementsWordMemory
