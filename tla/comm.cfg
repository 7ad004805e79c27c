SPECIFICATION FairSpec
CONSTANTS
  Assets = {a1, a2}
  LossAfter = 2
  MaxFaults = 1
INVARIANTS
  RowMatchesMark
PROPERTIES
  SilenceAnnounced RecoveryClears
