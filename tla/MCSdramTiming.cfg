SPECIFICATION FairSpec
CONSTANTS
  PWRUP_WAIT_CYCLES = 4
  TRP_CYCLES = 2
  TRFC_CYCLES = 3
  TMRD_CYCLES = 2
  TRCD_CYCLES = 2
  TWR_CYCLES = 2
  CAS_LATENCY_CYCLES = 2
  REFI_CYCLES = 24
  REFRESH_DEFER_CYCLES = 12
  Byte = {0}
  ZERO = 0
  X = X
  NoReq = NoReq
  NoResp = NoResp
  READY_FIRST = FALSE
CONSTANT Requests <- MCRequests
CONSTANT Cells <- MCCells
CONSTANT Horizon <- MCHorizon
INVARIANTS ReadyIsHonoured RefreshOnTime
PROPERTIES CommandsLegal ServesForever
