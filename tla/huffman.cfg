SPECIFICATION Spec
CONSTANTS
  Bits = 3
  EOS = EOS
  None = None
  Code <- MCCode
  Texts <- MCTexts
  Blocks <- MCBlocks
  StrayLen = {0, 4, 30}
CHECK_DEADLOCK FALSE
INVARIANTS DecodesTheText ReadsEveryBit RefusesNothing EncodedFits
PROPERTY Returns
