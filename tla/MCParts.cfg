CONSTANTS
  buffer_size = 4
  UINT = 16
  Values = {v1, v2}
  Unwritten = garbage
  devices_count = 3
  Terminals <- MCTerminals
  HeaderRows = 3
  HeaderCols = 40
  StatsRows = 5
  LinesPerPlot = 2
  MaxModifier = 3
  Vendors = {"nvidia", "enflame", "ixml", "metax", "ascend", "tpu", "tenstorrent", "qualcomm", "rockchip", "amdgpu", "radeon", "intel", "v3d", "msm", "panfrost", "panthor"}
  MaxCards = 2
  Devices <- MCDeviceOrder
  Precise = {"amd"}
  Files = {"a1", "m1"}
  Owner <- MCOwner
  Telling = {"a1"}
  Lax = {"amd"}
  Pids = {1, 2}
  Permitted = {1}
  MaxFds = 3
  NoFile = "none"
  OtherFile = "other"
SPECIFICATION MCSpec
INVARIANTS SeriesWritten WindowsFit EveryMetricPlotted ReleasedOnce DevicesBacked ShownIsFresh CountedOnce GrowthSinceLastSweep
PROPERTIES HistorySpec
\* The program ends.
CHECK_DEADLOCK FALSE
