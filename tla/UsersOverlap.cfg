CONSTANTS
  c1 = c1  a = a  b = b  s1 = s1  s2 = s2  s3 = s3  u1 = u1  u2 = u2  ta = ta  tb = tb
  None = None
  Client <- OneClient
  Service <- TwoServices
  Session <- ThreeSessions
  Allowed <- AllowAll
  Occupied <- NoneOccupied
  User <- TwoUsers
  AllowedUserCIDRs <- NoPrefixes
  Services <- Targets
  MaxStreams = 1
SPECIFICATION UserSpec
CHECK_DEADLOCK FALSE
INVARIANTS
StreamsPerClientBounded
CONSTRAINT SlowReplacement
