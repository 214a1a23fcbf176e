SPECIFICATION FairSpec
CONSTANTS
  Dpi = 144
  PopupRects <- OnePopup
  ViewSizes <- OneSize
  MousePoints <- SomePoints
  Browsers = {w1, w2, d1}
  Windowless = {w1, w2}
  NULL = NULL
INVARIANTS
  FlagMatchesBitmap
  NoBitmapWhenDetached
  PopupPointsStayInPopup
PROPERTIES
  PopupPlacedInView
  HiddenPopupDisappears
  ViewReachesScreen
