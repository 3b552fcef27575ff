SPECIFICATION Spec
CONSTANTS
  CommandLines <- MarkCommandLines
  Menus <- MarkMenus
  Machines <- MarkMachines
  MaxCuts = 1
INVARIANT OsdMarkIsTrue
