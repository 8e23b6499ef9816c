SPECIFICATION TimersSpec
CONSTANTS
  In = {i1, i2}
  Out = {o1, o2}
  NoCall = NoCall
CHECK_DEADLOCK FALSE
PROPERTIES RingingEnds RemoteEndEndsIncoming WaitingEnds
