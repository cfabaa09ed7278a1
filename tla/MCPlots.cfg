CONSTANTS
  Devices = {d1, d2, d3}
  Metrics = {1, 2, 3}
  MaxLines = 2
  Depth = 1
  MaxGpus = 2
  FieldCount = 3
  SortPreference <- MCPreference
  NoField = 0
  NoMetric = 0
  SavedGpus = {g1, g2}
  DefaultDraw = {1}
  DefaultFields = {2, 3}
  CpuPercent = 3
  Cores = {0, 1}
  GridCores <- MCGridCores
  RowCount = 3
  Own = 1
  U64 = 16
  GridWidths = {37, 80, 163, 200}
SPECIFICATION MCSpec
INVARIANTS SeriesMatchLegend OptionsInSync CursorInRange RestartKeepsOptions UsageOfItsCore GridFits RowsInOrder
PROPERTIES CursorStays
SYMMETRY Alike
