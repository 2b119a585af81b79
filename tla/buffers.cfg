SPECIFICATION MCSpec
CONSTANTS
  o1 = o1
  o2 = o2
  o3 = o3
  Objects <- MCObjects
  Blocks <- MCBlocks
  Strings <- MCStrings
  Octets = {0, 1}
  MinCapacity = 2
  Sizes = {0, 3, 5}
  Offsets = {0, 1, 7}
  Limit = 8
  None = None
  Lost = Lost
  MaxCalls = 5
SYMMETRY Symmetric
CHECK_DEADLOCK FALSE
INVARIANTS TypeOK OwnBlock NothingLeaks SafeUnlessCopiedOrHuge
PROPERTY StringsOfTheirOwn
