SPECIFICATION Spec
CONSTANTS
  StaticTable <- MCStaticTable
  Names <- MCNames
  Values <- MCValues
  Lists <- TurnLists
  Sizes = {1, 2}
  MaxInFlight = 2
  Discipline = {"update", "agree", "plain", "valued", "known", "fixed", "turns"}
INVARIANT TablesAgreeWhenQuiet
PROPERTY DeliversLists
