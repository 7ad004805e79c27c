SPECIFICATION FairSpec
CONSTANTS
  N = 1
  Kind <- PH
  OutMin <- Low1
  OutMax <- High1
  Seed <- Low1
  Slew = 1
  Operators = {o1}
  MaxFaults = 1
PROPERTY ManualIsKept
