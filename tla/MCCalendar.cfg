SPECIFICATION Spec
CONSTANTS
  Back = 140000
  Ahead = 160000
  Times = {0, 1, 59, 60, 3599, 3600, 86390, 86395, 86398, 86399}
  Milli = 2
  Nano = 4
  LongDays = 5000
  Precision = 67108864
  Powers = {1, 2, 4, 8, 16, 32, 64, 128, 256, 512, 1024, 2048, 4096}
INVARIANTS DatesSurvive TimesSurvive DateTimesSurvive TimestampsSurvive NanotimestampsSurvive
