SPECIFICATION AggregateLiveSpec
CONSTANTS
  N = 3
  Modes = {"results", "fold", "first_completed"}
  Main = Main
  MaxLimits = {0, 1}
  MinLimits = {0, 1}
INVARIANTS
  AggregateCorrect
PROPERTIES
  AggregateSettles
CHECK_DEADLOCK FALSE
