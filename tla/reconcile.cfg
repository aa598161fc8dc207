SPECIFICATION LayoutFairSpec
CONSTANTS
  MaxIndex = 3
  Agents = {"a", "b", "x"}
  Items = {1, 2}
  Ours = {"a", "b"}
  Shape = "window"
  Positions <- SpacesAndTabs
  Host <- NoHost
  Elsewhere <- AnotherWindow
  PipeSize = 4
  MaxMoves = 2
INVARIANTS NeverAnothersPlace
PROPERTIES Converges
CHECK_DEADLOCK FALSE
