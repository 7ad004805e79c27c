SPECIFICATION FairSpec
CONSTANTS
  N = 1
  Kind <- PH
  OutMin <- Low1
  OutMax <- High1
  Seed <- Low1
  Slew = 1
  Operators = {o1, o2}
  MaxFaults = 1
PROPERTIES
  BadPVFreezes AlarmClearsInAuto
