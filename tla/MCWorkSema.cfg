\* Two clients, three items: enough for a notification at every point of a wait.
CONSTANTS
  Clients = {ee, vu}
  Waiter = ee
  MaxWork = 3
  MaxNotify = 4
SPECIFICATION FairSpec
INVARIANTS
  TypeOK
  NoLostWakeup
  EmptyMeansEmpty
  TokensHaveTakers
PROPERTIES
  ImplementsWorkEvent
  WaitsEnd
CHECK_DEADLOCK FALSE
