SPECIFICATION FairSpec
CONSTANTS
  Full = 5
  Half = 2
  Unit = 2
  FactorMin = 1
  FactorMax = 8
  TuneMin = 1
  TuneMax = 10
  Designs <- BothLoops
  Bands <- OneBand
  Seeds = {0}
  SPs <- Setpoints
  PVs <- Values
  Indicators <- Offsets
  Temps <- Offsets
  Flows <- Offsets
PROPERTIES
  LeavesUpperStopAtOnce PersistentErrorSaturates BumplessInStep
