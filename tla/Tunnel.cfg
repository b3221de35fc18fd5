CONSTANTS
  c1 = c1  a = a  k1 = k1  k2 = k2  k3 = k3
  None = None
  ClientPubs <- OwnKey
  PQPubs <- OwnKey
  Allowed <- OwnService
  Client <- OneClient
  Session <- ThreeConns
  Config <- OneConfig
  MaxPending = 1
  MaxFaults = 2
  MaxInt = 4
  InitialBackoff = 1
  MaxBackoff = 2
  Jitter = TRUE
SPECIFICATION TunnelSpec
CHECK_DEADLOCK FALSE
INVARIANTS

DelayInRange
OneConnection
PROPERTIES
CancelReturns
ServedInTheEnd
