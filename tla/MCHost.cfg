SPECIFICATION HostSpec
CONSTANTS
  Clients = {c1, c2}
  NoSock = nosock
  TxDepth = 1
  RxDepth = 1
  MaxUnread = 1
  Tagged = FALSE
  StdIdLen = 1
  ExtIdLen = 2
  MaskLen = 2
  BusCount = 2
  Channels = {"wifi", "ws"}
  MaxStrays = 1
  SlCommands <- Slcan
  WsCommands <- SlcanOnWs
  GvCommands <- Gvret
  RdCommands <- RealDash
  RxSlots = 4
  TxSlots = 2
  SendWait = 1
  FastDrop = 3
INVARIANTS
  
  
  
  StreamReadsBack
PROPERTIES
  HelloBeforeTakeover
  DeadSessionEnds
CHECK_DEADLOCK FALSE
