SPECIFICATION Spec
CONSTANTS
  CmdLen = 3
  SecLen = 5
  Lba = {0, 1}
  Data = {d1, d2}
  d1 = d1
  d2 = d2
  NoData = NoData
  HeaderAt <- MCHeaderAt
  AckAt <- MCAckAt
  Setups <- MCSetups
INVARIANTS AnswersAreTrue OneRetryIsEnough
PROPERTY ImplementsRemoteDisk
