SPECIFICATION Spec
CONSTANTS
  CommandLines <- MCCommandLines
  Menus <- MCMenus
  Machines <- MCMachines
  MaxCuts = 1
  
PROPERTY ImplementsOverrides
