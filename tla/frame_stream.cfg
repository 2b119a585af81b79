SPECIFICATION FramesFairSpec
CONSTANTS
  CutSets = {{}, {4, 9, 11}}
  Payloads = {1, 2}
  Frames <- AnyFrames
  Garbage <- MCGarbage
  MaxSent = 2
  MaxReturned <- MCMaxReturned
INVARIANTS InOrderUntilFailure FailsOnlyAtEnd
PROPERTY EveryFrameReturned
CHECK_DEADLOCK FALSE
