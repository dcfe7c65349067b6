CONSTANTS
  None = None
  Seeds = {h}
  f1 = f1
  f2 = f2
  f3 = f3
  f4 = f4
  Database <- Listed
  MaxTus = 3
  BatchSize = 2
  Quiescence = 2
  DrainCap = 4
  MaxShards = 3
  MaxInbox = 2
  MaxAbandoned = 1
SPECIFICATION FairSpec
INVARIANT TypeOK
INVARIANT OnlyTheDeadAreCharged
INVARIANT DocumentsBounded
INVARIANT NoFileAdded
PROPERTY ReturnsIfSpokenTo
PROPERTY ShutdownKillsTheTalking
