SPECIFICATION PlanningSpec
CONSTANTS
  CheckId <- MCCheckId
  SmallChange = 2
  Inputs <- MCInputs
INVARIANTS
  SelectionIsTheClosure
  PlanOrderIsTopological
