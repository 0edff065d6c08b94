CONSTANTS
  NumItems = 2
  PageSize = 1
  Overlap = 1
  FullInterval = 3
  MaxTime = 4
  MaxEdits = 2
  MaxRemovals = 1
  MaxPlays = 1
  MaxEnds = 1
  MaxFaults = 1
SPECIFICATION Spec
INVARIANTS WatermarkCovers CursorCovers HistoryCovers RemovedRetire
CHECK_DEADLOCK FALSE
