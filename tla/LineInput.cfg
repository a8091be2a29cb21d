\* Every kind of key, buffers that grow early, and ints of a byte.
CONSTANTS
  Keys = {"0", "2", "x", "enter", "backspace", "delete", "other"}
  MaxKeys = 4
  MaxCalls = 2
  Timeouts = {0, 214, 215}
  InitialSize = 2
  Growth = 1
  LongestNumber = 2
  IntMax = 127
  Faults = TRUE
SPECIFICATION FairSpec
INVARIANTS TypeOK LineIsTyped RoomForTerminator ScreenShowsLine CountdownOnlyBeforeTyping TimersClosed
PROPERTIES CountdownEnds EnterAnswers
CHECK_DEADLOCK FALSE
