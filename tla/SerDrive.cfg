SPECIFICATION Spec
CONSTANTS
  Names = {"a", "b"}
  Disks <- MCDisks
  Lines <- MCLines
  Milestones = {360, 1008, 4032}
  Others <- MCOthers
  Ports <- MCPorts
  Tried <- MCTried
  Clients <- MCClients
  MaxStarts = 2
INVARIANTS  AddressableIsStored 
PROPERTY NoFileIsLost
