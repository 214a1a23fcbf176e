SPECIFICATION Spec
CONSTANTS
  Browsers = {b1, b2}
  MaxLength = 3
  NULL = NULL
SYMMETRY Symmetry
INVARIANTS
  UnderlinesPartition
  ThickIsTarget
  CandidateInBounds
  NodeEndsWithImm
