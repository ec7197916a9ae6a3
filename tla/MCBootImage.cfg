SPECIFICATION Spec
CONSTANTS
  FRAME_CYCLES = 6
  FIELD = 2
  BRAM_WORDS = 2
  INTERBYTE_TIMEOUT_CYCLES = 0
  SDRAM_BASE_ADDR = 512
  SDRAM_LIMIT_ADDR = 520
  CHUNK_BYTES = 11
  MAX_RETRIES = 2
  PACKET_BYTES = 20
  ASSET_ADDR = 512
  Junk = {0, 1, 3, 8, 30}
  SDRAM_CYCLES = 9
  MAX_FAULTS = 1
  MAX_RESETS = 1
CONSTANT Crc <- MCCrc
CONSTANT Packet <- ImagePacket
CONSTANT FIRMWARE <- MCFirmware
CONSTANT ASSET <- MCAsset
INVARIANTS CleanLineNeedsNoRetry WritesStayInside
