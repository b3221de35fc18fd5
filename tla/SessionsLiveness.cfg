CONSTANTS
  c1 = c1  c2 = c2  a = a  b = b  s1 = s1  s2 = s2  s3 = s3
  None = None
  Client <- TwoClients
  Service <- TwoServices
  Session <- ThreeSessions
  Allowed <- OneAndTwo
  Occupied <- SecondOccupied
SPECIFICATION ChainSpec
CHECK_DEADLOCK FALSE
PROPERTIES
SupersededEnds
SetupTerminates
EndLeavesNoTrace
StopFreesAddresses
