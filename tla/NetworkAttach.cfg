SPECIFICATION AttachSpec
CONSTANTS
  Timeout = 120
  InfoPoll = 2
  RegPoll = 1
  MaxAnswer = 1
INVARIANT
  ClockBounded
CHECK_DEADLOCK FALSE
