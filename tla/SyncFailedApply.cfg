SPECIFICATION FairSpec

CONSTANTS
  Docs = {d1}
  Writers = {w1, w2}
  Readers = {}
  Clients = {}
  NoDoc = NoDoc
  PoolSize = 1
  MaxCrashes = 0
  AckLost = FALSE
  ApplyFails = TRUE
  LoadFails = FALSE

PROPERTIES
  FailedApplyHeals
