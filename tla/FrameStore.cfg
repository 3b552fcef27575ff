SPECIFICATION Spec
CONSTANTS
  Setups <- MCSetups
  Burst = 2
  Page = 3
  Depth = 2
  VStart = 2
  Enables = {TRUE, FALSE}
INVARIANTS BurstsAgree WriterNotPassedOver WriterKeepsAway
PROPERTIES  ShownIsWhole
