SPECIFICATION FairSpec
CONSTANTS
  NBank = 1
  NRow = 1
  NCol = 2
  Byte = {0, 1}
  Junk = Junk
  InitWait = 0
  Trc = 1
  Trp = 0
  Tmrd = 0
  Tdpl = 1
  RefreshCycle = 2
  ForceRefresh = 4
  Protected = {}
  Speeds = {2, 3}
  Kinds = {"read", "write", "other", "reset"}
  ReadWait = 1
  WriteWait = 1
  MinHold = 6
  MinGap = 2
INVARIANT ReadyTellsTheTruth
PROPERTIES HeldCommandAnswered RefreshHappens
