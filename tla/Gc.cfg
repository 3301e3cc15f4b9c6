SPECIFICATION GcSpec
CONSTANTS
  N = 3
  MaxRefs = 6
  Strengths = {"weak", "normal", "strong"}
INVARIANTS
  CyclesContinuous
  Verdict
  DestructOrder
