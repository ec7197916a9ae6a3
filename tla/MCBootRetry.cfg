SPECIFICATION Spec
CONSTANTS
  FRAME_CYCLES = 3
  FIELD = 2
  BRAM_WORDS = 2
  INTERBYTE_TIMEOUT_CYCLES = 0
  SDRAM_BASE_ADDR = 512
  SDRAM_LIMIT_ADDR = 520
  CHUNK_BYTES = 7
  MAX_RETRIES = 2
  PACKET_BYTES = 12
  ASSET_ADDR = 512
  Junk = {0, 1, 30}
  SDRAM_CYCLES = 1
  MAX_FAULTS = 1
  MAX_RESETS = 0
CONSTANT Crc <- MCCrc
CONSTANT Packet <- RunPacket
CONSTANT FIRMWARE <- MCFirmware
CONSTANT ASSET <- NoAsset
INVARIANTS RetryRecovers
