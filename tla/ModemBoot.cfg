SPECIFICATION Spec
CONSTANTS
  Firmwares = {"R200", "unlisted"}
  BootTimes = {30, 50, 60}
  StopTimes = {20, 105}
  SimTimes = {0, 50, 130}
  MaxCalls = 4
  MaxFaults = 1
INVARIANTS
  OkMeansReady
  BootCollisionsForgiven
  OkMeansOff
  SimVerdictIsRight
PROPERTY
  CallsEnd
CHECK_DEADLOCK FALSE
