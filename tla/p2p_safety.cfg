SPECIFICATION Spec
CONSTANTS
  In = {i1}
  Out = {o1, o2}
  NoCall = NoCall
CONSTRAINT OverlapWithinTimeout
SYMMETRY Symmetry
INVARIANTS TypeOK CallScreenHasCall BusyFlagHasConversation CancelFlagHasConversation StreamIsOwn HangUpReachesPeer
