SPECIFICATION Spec
CONSTANTS
  CutSets = {{}}
  Payloads <- MCPayloads
  Frames <- NoFrames
  Garbage <- MCGarbage
  MaxSent = 3
  MaxReturned <- MCMaxReturned
  ClientSettings <- MCClientSettings
  NewSettings <- MCNewSettings
  Foreign = {}
  StreamIds = {3}
  MaxRequests = 1
INVARIANT PriorityIsSent
CHECK_DEADLOCK FALSE
