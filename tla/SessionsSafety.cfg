CONSTANTS
  c1 = c1  c2 = c2  a = a  b = b  s1 = s1  s2 = s2  s3 = s3
  None = None
  Client <- TwoClients
  Service <- OneService
  Session <- ThreeSessions
  Allowed <- AllowAll
  Occupied <- NoneOccupied
SPECIFICATION SafeSpec
CHECK_DEADLOCK FALSE
INVARIANTS
TypeOK
RegistryExact
PredecessorDead
OverlapOnlyInShutdown
AddressAccounted
NoOrphanListener
LiveListenersStay
PROPERTY ImplementsRegistry
SYMMETRY SessionSymmetry
