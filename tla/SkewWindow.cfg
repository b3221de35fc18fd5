CONSTANTS
  Base = 3
  MaxMessageSize = 4
  Messages <- EdgeMessages
  MaxSent = 3
  MaxInt = 31
  Radix = 8
  Second = 2
  Epoch = 5
  MaxClockSkew = 6
  Auths <- RequestsAndTimes
  Nows <- Clocks
  None = None
SPECIFICATION BytesSpec
CHECK_DEADLOCK FALSE
INVARIANT SkewWindow
