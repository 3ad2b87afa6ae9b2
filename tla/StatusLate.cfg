SPECIFICATION LiveSpec
CONSTANTS
  Server = {s1}
  NoServer = NoServer
  NTcp = 1
  Network = FALSE
  ConnectDelay = 1
  TestDelay = 1
  SendDelay = 1
  MaxWire = 7
  StorageEnabled = TRUE
  Limit = 1
  StorageLimit = 2
  RpcLimit = 3
PROPERTIES StatusAnswers
CHECK_DEADLOCK FALSE
