SPECIFICATION TalkSpec
CONSTANTS
  In = {i1}
  Out = {o1}
  NoCall = NoCall
PROPERTIES DeadConversationEnds HangUpEnds
