CONSTANTS
  Err = Err
  Garbage = Garbage
  InitialDisk <- Files
  Edits <- AllEdits
  MaxRotations = 3
  Specs <- SamePortSpecs
  MaxRuns = 1
SPECIFICATION DeploymentSpec
CHECK_DEADLOCK FALSE
INVARIANTS
StackStarts
