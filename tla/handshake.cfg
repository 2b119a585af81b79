SPECIFICATION FairSpec
CONSTANTS
  CutSets = {{}, {4, 9, 11}}
  Payloads <- MCPayloads
  Frames <- NoFrames
  Garbage <- MCGarbage
  MaxSent = 3
  MaxReturned <- MCMaxReturned
  ClientSettings <- MCClientSettings
  NewSettings <- MCNewSettings
  Foreign <- MCForeign
  StreamIds = {0, 1}
  MaxRequests = 1
INVARIANTS TypeOK ClientIsAccepted AckMeansAdopted
PROPERTIES AdoptsWhatTheClientHas HandshakeCompletes ConstructorEnds
CHECK_DEADLOCK FALSE
