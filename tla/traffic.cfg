SPECIFICATION FairTraffic
CHECK_DEADLOCK FALSE
CONSTANTS
  MaxMishaps = 2
  Dashboards = {d1, d2}
  Broadcasters = {b1, b2}
  Room = 1
  N = 4
  Bad = {2}
  MaxBatch = 2
  Limits = {1, 2}
  Requests = {r1, r2}
  MaxFaults = 2
  Actuators = {a1, a2}
  Values = {0, 1}
  Rest = 0
  MaxSeq = 2
  MaxFailures = 2
INVARIANTS
  NoSendOnClosed StoredOnce StoredInOrder SeqOrder
PROPERTIES
  ConnectedShowsOnline NobodyWaits
  StoreAndForward QueueDrains
  CommandArrives
