CONSTANTS
  Width = 6
  MaxAlign = 8
  LinkSize = 3
SPECIFICATION LayoutSpec
INVARIANTS ItemsInBuffer NothingWasted LinksInBuffer OnlyZerosFail
CHECK_DEADLOCK FALSE
