SPECIFICATION Spec
CONSTANTS
  StaticTable <- MCStaticTable
  Names <- MCNames
  Values <- MCValues
  Blocks <- MCBlocks
  Lists <- MCLists
  Sizes = {0, 1, 2}
  MaxInserted = 4
INVARIANTS TypeOK SizeBounded NewestFirst ListAndTableAgree
