SPECIFICATION FairSpec
CONSTANTS
  Tasks = {"t1", "t2"}
  Clients = {"c1"}
  Transport = "Tls"
  IdSpace = 4
  ModemIds = 3
  MaxRecv = 2
  MaxConnects = 2
  MaxData = 1
  MaxChunks = 1
  MaxWrites = 1
  MaxFaults = 2
INVARIANT
  SubscribersBounded
PROPERTY
  ReadGetsData
CHECK_DEADLOCK FALSE
