SPECIFICATION FairSpec
CONSTANTS
  MaxFaults = 1
  MaxCommands = 2
PROPERTY
  ShutdownReturnsAlways
CHECK_DEADLOCK FALSE
