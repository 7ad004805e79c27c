SPECIFICATION FieldFairSpec
CONSTANTS
  N = 1
  Kind <- Temp
  OutMin <- Low1
  OutMax <- High1
  Seed <- Low1
  Slew = 1
  Operators = {o1}
  MaxFaults = 1
INVARIANTS
  StateFitsMode AbnormalAnnounced
PROPERTIES
  InterlockExit ManualStays HotTrips CoolReleases ValveFollowsAuto
