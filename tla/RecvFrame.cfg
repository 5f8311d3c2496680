SPECIFICATION FairSpec
CONSTANTS
  Hooks = {"tcp", "ssl", "socket"}
  MaxPayload = 2
  MaxFrames = 2
INVARIANTS
  TypeOK
  AnswerIsPayload
  FrameConsumed
PROPERTY
  ReadAnswered
CHECK_DEADLOCK FALSE
