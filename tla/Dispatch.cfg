SPECIFICATION FairSpec

CONSTANTS
  Calls = {k1, k2, k3}
  Objects = {o1}
  NoObject = NoObject
  PoolSize = 2
  DbFails = TRUE
  AckLost = TRUE
  MaxCrashes = 1

INVARIANTS
  ReplayFaithful
  EventsFollowState
  ReplyIsAudited

PROPERTIES
  CallsAreAnswered
