SPECIFICATION Spec
CONSTANTS
  NBank = 1
  NRow = 2
  NCol = 2
  Byte = {0, 1}
  Junk = Junk
  InitWait = 0
  Trc = 1
  Trp = 0
  Tmrd = 0
  Tdpl = 1
  RefreshCycle = 1
  ForceRefresh = 3
  Protected = {}
  Speeds = {3}
  Kinds = {"read", "write", "reset"}
  ReadWait = 0
  WriteWait = 0
  MinHold = 1
  MinGap = 1
INVARIANTS TypeOK IInv ReadyTellsTheTruth CommandsLegal
