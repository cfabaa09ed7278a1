CONSTANTS
  devices_count = 3
  Terminals <- MCTerminals
  HeaderRows = 3
  HeaderCols = 40
  StatsRows = 5
  LinesPerPlot = 2
  MaxModifier = 3
SPECIFICATION LayoutSpec
INVARIANTS PlotDataDivides
CHECK_DEADLOCK FALSE
