SPECIFICATION FairCalc
CHECK_DEADLOCK FALSE
CONSTANTS
  SourceOrder <- MCOrder
  Assays <- MCAssays
  Unheard <- AtMostOne
  VirtualTags = {"epsilon", "balance_err", "q_collector", "gamma"}
  Qualities = {"good", "bad", "offline"}
  MaxReadings = 2
  MaxFailures = 1
INVARIANTS
  PlausibleAndMeasured
PROPERTIES
  BalanceReturns
