SPECIFICATION Spec
CONSTANTS
  Char <- MCChar
  Weight <- MCWeight
  GDB_PACKET_CAPACITY = 4
  Commands <- MCCommands
  Script <- MCScript
  WORD = 32
  BRAM_SIZE = 16
  SDRAM_BASE = 20
  SDRAM_SIZE = 4
  Cause <- MCCause
  NoAddr <- NoAddress
  Addresses = {0, 15, 16, 20, 21, 22, 23, 24, 31}
  MAX_TRIES = 2
  FAULTS = 1
  Junk = "~"
INVARIANTS RepliesMatch WritesInBounds RunsOnce SurvivesAFault
PROPERTIES OnlyIntact ResumesAsAsked AllAnswered
CHECK_DEADLOCK FALSE
