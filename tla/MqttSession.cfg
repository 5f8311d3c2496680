SPECIFICATION Spec
CONSTANTS
  Revisions = {"R200", "other"}
  Contexts = {"ctx0"}
  Rounds = 2
  MaxCalls = 3
  MaxNoise = 1
  MaxFaults = 2
INVARIANTS
  NoForgedSuccess
  OkIsReported
  SslAfterConfigure
PROPERTY
  CallsEnd
CHECK_DEADLOCK FALSE
