SPECIFICATION Spec
CONSTANTS
  StaticTable <- MCStaticTable
  Names <- MCNames
  Values <- MCValues
  Lists <- MirrorLists
  Sizes = {1, 2}
  MaxInFlight = 2
  Discipline = {"separate", "update", "agree", "plain", "valued", "known", "fixed"}
INVARIANTS TypeOK DecodesAsSent TablesInStep
PROPERTY DeliversLists
