SPECIFICATION FairSpec

CONSTANTS
  Docs = {d1}
  Writers = {w1, w2}
  Readers = {r1}
  Clients = {}
  NoDoc = NoDoc
  PoolSize = 1
  MaxCrashes = 0
  AckLost = FALSE
  ApplyFails = FALSE
  LoadFails = FALSE

PROPERTIES
  DispatchReturns

CHECK_DEADLOCK FALSE
