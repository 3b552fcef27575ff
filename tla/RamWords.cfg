SPECIFICATION Spec
CONSTANTS
  NBank = 1
  NRow = 1
  NCol = 4
  Byte = {0, 1}
  Junk = Junk
  InitWait = 0
  Trc = 1
  Trp = 0
  Tmrd = 0
  Tdpl = 1
  RefreshCycle = 1
  ForceRefresh = 3
  Protected <- MCProtected
  Speeds = {3}
  Kinds = {"read", "readWord", "writeWord"}
  ReadWait = 1
  WriteWait = 1
  MinHold = 1
  MinGap = 1
INVARIANTS LookaheadCoherent AcceptedWritesLand ReadyTellsTheTruth
PROPERTY ProtectedIntact
