SPECIFICATION Spec
CONSTANTS
  Inputs <- MCInputs
  Positions <- MCPositions
  LeadOctets = {0, 200}
  StaleOctets = {0, 129}
  MaxInput <- MCMaxInput
  MaxKept = 3
INVARIANTS CarriedInteger NothingLeftOver RoomSuffices ReadAsReferred
CHECK_DEADLOCK FALSE
