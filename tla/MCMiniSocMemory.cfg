SPECIFICATION FairSpec
CONSTANTS
  FRAME_CYCLES = 5
  Lane = {0, 1}
  Byte = {0, 12}
  BRAM_BYTES = 4
  SDRAM_BASE = 8
  SDRAM_SIZE = 8
  UART_DATA = 16
  UART_STATUS = 20
  NoAccess = NoAccess
  Cores = {TRUE}
  SDRAM_CYCLES = 2
  Arriving = {}
CONSTANT Accesses <- MemoryAccesses
CONSTANT Adjacent <- AllPairs
INVARIANTS MemoryInOrder
PROPERTIES CoreMovesOn
