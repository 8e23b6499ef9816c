SPECIFICATION Spec
CONSTANTS
  Calls = {c1, c2}
  PacketSize = 2
  RecBuffSize = 4
  PlayBuffSize = 3
  MaxSamples = 6
  MaxOverlapping = 2
CONSTRAINT Bounded
SYMMETRY Symmetry
CHECK_DEADLOCK FALSE
INVARIANTS TypeOK StopFindsDevice SilentAfterLastCall LoneCallHasDevices PacketInsideRing SendBehindWrite HeardInOrder
