CONSTANTS
  Capacity = 1
  CoincidenceTime = 3
  DeadTime = 5
  SortTypes <- MCSortTypes
  Triggers <- MCTriggers
  WithTree = {TRUE, FALSE}
  Inputs <- MCInputs
  MaxInput = 1
SPECIFICATION Spec
INVARIANTS
  IndexPointsAtTrigger
  EventHoldsTheCoincidentHits
  DeadTimeIsNotExtended
  SpectraAreTheGoodEvents
