SPECIFICATION Spec
CONSTANTS
  Chips = {"bg95", "bg96", "eg916u"}
  Builds = {"debug", "release"}
  BandArgs <- BandArgsMC
  RatArgs <- RatArgsMC
  MaxEdits = 2
  MaxCalls = 2
  MaxFaults = 1
INVARIANTS
  PrefixApplied
  OkIsWhole
  SendNeverPanics
CHECK_DEADLOCK FALSE
