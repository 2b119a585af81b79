SPECIFICATION Spec
CONSTANTS
  StaticTable <- MCStaticTable
  Names <- MCNames
  Values <- MCValues
  Lists <- LooseLists
  Sizes = {0, 1}
  MaxInFlight = 1
  Discipline = {"separate", "update", "plain", "valued"}
INVARIANT OnlyDynamicFieldsSuffer
