SPECIFICATION FairSpec
CONSTANTS
  N = 1
  Kind <- Standard
  OutMin <- Low401
  OutMax <- High401
  Seed <- Low1
  Slew = 1
  Operators = {o1}
  MaxFaults = 1
PROPERTY StepClamps
