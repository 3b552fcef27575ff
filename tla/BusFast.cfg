SPECIFICATION Spec
CONSTANTS
  NChannels = 2
  Half = 2
  Strict = TRUE
  Gaps <- FastGap
  MinIdle = 3
  IoSettle = 4
  FirstWord = 0
  LoadStrobe = 3
  LoadPause = 2
  CpuCycles <- AllCycles
  Asking <- Both
  Loading = FALSE
  Resetting = TRUE
  InitPrograms <- TwoPrograms
  InitMask <- NoMask
  InitBase <- Bases
INVARIANTS TypeOK OneMaster LockedPair InStep
PROPERTIES AddressHeld CyclesServed TransferWasRequested
