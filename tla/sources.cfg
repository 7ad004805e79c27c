SPECIFICATION FairSources
CHECK_DEADLOCK FALSE
CONSTANTS
  n1 = n1
  m1 = m1
  m2 = m2
  Nodes <- MCNodes
  Metrics <- MCMetrics
  SparkTags <- MCSparkTags
  Layouts <- MCLayouts
  Drivers <- MCDrivers
  NTags = 2
  Cap = 2
  MaxSent = 3
  MaxRunning = 2
  MaxBreaks = 1
INVARIANTS
  WrongTagNeedsDisorder
PROPERTIES
  ValuesArrive OutageIsMarked ReadableArrives
