SPECIFICATION Spec
CONSTANTS
  None = None
  Partial = Partial
  MaxU32 = 127
  MaxU64 = 50000
  VideoBitrate = 25
  AudioBitrate = 2
  BitsPerByteMs = 8
  MinEstimate = 4
  LightDuration = 1010
  LightPixels = 16
  LightInputs = 1
  StandardDuration = 3000
  StandardPixels = 24
  StandardInputs = 2
  MaxFrame = 8
  MaxThumbnail = 6
  MinInterval = 2
  MaxInterval = 9
  MaxCells = 6
  MaxSegments = 3
  MaxTolerance = 3
  MinRuntime = 2
  MaxWarnings = 6
  MaxReceiptWarnings = 6
  MaxNamed = 2
  Media <- MCMedia
  Shorter <- MCShorter
  Turned <- MCTurned
  Cases <- MCClockCases
  MaxClock = 1
  ClockMaySetBack = TRUE
INVARIANTS
  ReceiptShowable
