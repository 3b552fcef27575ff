SPECIFICATION Spec
CONSTANTS
  NChannels = 2
  Half = 2
  Strict = FALSE
  Gaps <- SlowGap
  MinIdle = 2
  IoSettle = 0
  FirstWord = 0
  LoadStrobe = 3
  LoadPause = 2
  CpuCycles <- Programming
  Asking <- Second
  Loading = FALSE
  Resetting = FALSE
  InitPrograms <- OneProgram
  InitMask <- NoMask
  InitBase <- Bases
PROPERTY RegistersStill
