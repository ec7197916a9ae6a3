SPECIFICATION Spec
CONSTANTS
  Assets <- MCAssets
  W = 8
  VGA_BITMAP_WORDS = 2
  VIDEO_PERIOD_TICKS = 1
  AUDIO_QUEUE_LENGTH = 2
  MAX_HZ = 5
  CLOCK_HZ = 24
  ROUND_TICKS = 1
  PRINT_TICKS = 1
  WATERMARK_TICKS = 1
  TICKS_NUM = 4
  TICKS_DEN = 3
  STABLE_SAMPLES = 2
  START = 6
INVARIANTS FailsOnlyAtTheEnd InSync
PROPERTIES LogicalTime OneTogglePerPress StreamEnds LowPriorityRuns
CHECK_DEADLOCK FALSE
