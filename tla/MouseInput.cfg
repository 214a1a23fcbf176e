SPECIFICATION Spec
CONSTANTS
  Browsers = {b1, b2}
  NULL = NULL
  Buttons = {left, right}
  MBT_LEFT = left
  Positions <- AllPositions
  InView <- InsidePositions
  Origin <- Corner
  LeavePosition <- Outside
  Reach = 1
  DoubleClickTime = 0
  HalfRange = 3
  PopupStates <- NoPopupAndPopup
  MaxClicks = 2
SYMMETRY Symmetry
INVARIANTS
  QuietWithoutButtons
  ClickCountIsChain
