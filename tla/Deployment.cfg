CONSTANTS
  Err = Err
  Garbage = Garbage
  InitialDisk <- Files
  Edits <- AllEdits
  MaxRotations = 3
  Specs <- PortableSpecs
  MaxRuns = 3
SPECIFICATION DeploymentSpec
CHECK_DEADLOCK FALSE
INVARIANTS
RunningServerUsable
RunningClientUsable
RestartSafe
NoMixedGenerations
StackStarts
StackReachable
