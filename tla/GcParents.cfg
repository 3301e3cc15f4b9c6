SPECIFICATION InnerSpec
CONSTANTS
  N = 4
  MaxRefs = 6
  Strengths = {"weak", "normal", "strong"}
INVARIANTS
  ChildrenFirst
