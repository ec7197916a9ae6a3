SPECIFICATION Spec
CONSTANTS
  FRAME_CYCLES = 12
  Lane = {0, 1}
  Byte = {0, 12}
  BRAM_BYTES = 4
  SDRAM_BASE = 8
  SDRAM_SIZE = 8
  UART_DATA = 16
  UART_STATUS = 20
  NoAccess = NoAccess
  Cores = {TRUE}
  SDRAM_CYCLES = 2
  Arriving = {0, 12}
CONSTANT Accesses <- UartAccesses
CONSTANT Adjacent <- DriverPairs
INVARIANTS ReturnsWhatItTook
