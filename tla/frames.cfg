SPECIFICATION Spec
CONSTANTS
  Encodings <- MCEncodings
  Words <- MCWords
  Octets <- MCOctets
  Blocks <- MCBlocks
  SettingsGiven <- MCSettings
  FlagChoices <- MCFlagChoices
  MaxCalls = 3
INVARIANTS   ReadsThePayload LengthsAgree
