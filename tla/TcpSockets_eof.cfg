SPECIFICATION FairSpec
CONSTANTS
  Tasks = {"t1", "t2"}
  Clients = {"c1"}
  Transport = "Tcp"
  IdSpace = 4
  ModemIds = 3
  MaxRecv = 2
  MaxConnects = 1
  MaxData = 1
  MaxChunks = 1
  MaxWrites = 0
  MaxFaults = 0
PROPERTIES
  EofIsSeen
CHECK_DEADLOCK FALSE
