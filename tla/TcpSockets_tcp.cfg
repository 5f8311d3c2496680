SPECIFICATION Spec
CONSTANTS
  Tasks = {"t1", "t2"}
  Clients = {"c1"}
  Transport = "Tcp"
  IdSpace = 4
  ModemIds = 3
  MaxRecv = 2
  MaxConnects = 2
  MaxData = 2
  MaxChunks = 2
  MaxWrites = 1
  MaxFaults = 2
INVARIANTS
  OneExchange
  HandleOwnsSocket
  StreamIntact
PROPERTY
  ImplementsSocketService
CHECK_DEADLOCK FALSE
