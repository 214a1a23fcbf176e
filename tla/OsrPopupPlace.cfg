SPECIFICATION Spec
CONSTANTS
  Dpi = 144
  PopupRects <- SomePopups
  ViewSizes <- TwoSizes
  MousePoints <- SomePoints
  Browsers = {w1, w2, d1}
  Windowless = {w1, w2}
  NULL = NULL
PROPERTIES
  PopupPlacedWhereAsked
