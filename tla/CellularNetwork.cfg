SPECIFICATION FairSpec
CONSTANTS
  MaxFaults = 5
  MaxCommands = 3
INVARIANTS
  Custody
  UartHasOneUser
  ShutdownNotLost
  NoLostWakeup
PROPERTIES
  Reconnects
  ShutdownReturnsOrPinLost
  ImplementsLinkService
  ClosesInTheEnd
CHECK_DEADLOCK FALSE
