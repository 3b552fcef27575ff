SPECIFICATION LiveSpec
CONSTANTS
  NChannels = 2
  Half = 1
  Strict = TRUE
  Gaps <- FastGap
  MinIdle = 3
  IoSettle = 0
  FirstWord = 14
  LoadStrobe = 1
  LoadPause = 0
  CpuCycles <- MemCycles
  Asking <- First
  Loading = TRUE
  Resetting = FALSE
  InitPrograms <- OneProgram
  InitMask <- NoMask
  InitBase <- Zeros
INVARIANT OneMaster
PROPERTIES CpuCycleEnds  LoaderStarts
