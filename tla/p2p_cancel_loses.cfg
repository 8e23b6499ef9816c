SPECIFICATION Spec
CONSTANTS
  In = {}
  Out = {o1}
  NoCall = NoCall
INVARIANT CancelBeatsAnswer
