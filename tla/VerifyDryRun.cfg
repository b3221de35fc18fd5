CONSTANTS
  c1 = c1  c2 = c2  a = a  b = b  k1 = k1  k2 = k2  k3 = k3
  None = None
  ClientPubs <- OwnKey
  PQPubs <- OwnKey
  Allowed <- OwnService
  Client <- OneClient
  Session <- TwoConns
  Config <- GoodConfigs
  MaxPending = 2
SPECIFICATION ControlSpec
CHECK_DEADLOCK FALSE
PROPERTIES
VerifyIsDryRun
