SPECIFICATION Spec
CONSTANTS
  In = {i1}
  Out = {}
  NoCall = NoCall
INVARIANT RingingIsWatched
