SPECIFICATION FramesSpec
CONSTANTS
  CutSets = {{}}
  Payloads = {1, 2}
  Frames <- LongFrames
  Garbage <- MCGarbage
  MaxSent = 2
  MaxReturned <- MCMaxReturned
INVARIANT LengthsAreRead
CHECK_DEADLOCK FALSE
