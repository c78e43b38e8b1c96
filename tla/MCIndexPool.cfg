SPECIFICATION Spec
CONSTANTS
  Total = 5
  Cores = 2
  Every = 2
INVARIANTS CountersTally MilestonesReportedOnce
PROPERTIES RefinesSweep IndexingEnds
CHECK_DEADLOCK FALSE
