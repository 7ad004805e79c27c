SPECIFICATION FairSpec
CONSTANTS
  Values <- LowValues
  Limits <- HighOrShelved
  Span = 4
  Percent = 4
  OnCritical = 1
  OnDefault = 2
  ClearDelay = 2
  Lifetime = 2
  MaxFaults = 1
INVARIANTS RowMatchesBelief
PROPERTIES NoEarlyRaise NoEarlyClear HeldRaises CalmClears
