SPECIFICATION FairSpec
CONSTANTS
  Dpi = 144
  Sizes <- SomeSizes
  Browsers = {w1, w2, d1}
  Windowless = {w1, w2}
  NULL = NULL
INVARIANTS
  VisibleIsNotHidden
  FocusIsReal
  SizeSettles
PROPERTIES
  FitsEventually
