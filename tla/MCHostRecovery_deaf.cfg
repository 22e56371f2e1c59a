CONSTANTS
  d1 = d1
  Dwarfs <- OneDwarf
  MaxProcs = 2
SPECIFICATION Spec
PROPERTIES
  DroppedExitIsOld
CHECK_DEADLOCK FALSE
