SPECIFICATION ClientSpec
CONSTANTS
  Threads = {v1, v2}
  MaxPosts = 3
  StreamsBreak = FALSE
CHECK_DEADLOCK FALSE
INVARIANT
  CardsAreNotCrossed
