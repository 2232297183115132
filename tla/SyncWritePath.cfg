SPECIFICATION FairSpec

CONSTANTS
  Docs = {d1}
  Writers = {w1, w2}
  Readers = {r1}
  Clients = {c1}
  NoDoc = NoDoc
  PoolSize = 3
  MaxCrashes = 1
  AckLost = TRUE
  ApplyFails = TRUE
  LoadFails = TRUE

INVARIANTS
  IInv
  WatermarkContiguous
  CloneComplete
  SeqGapFree
  CommittedOnly
  StagedIsResident

PROPERTIES
  ReadYourWrites
  ImplementsSerialLog
  DispatchReturns
  ClientsConverge
