CONSTANTS
  None = None
  Null = Null
  Questions = {q1, q2}
  RetryBudget = 2
  ServerAsks = TRUE
  MaxIndex = 1
  MaxInbox = 2
  MaxAbandoned = 1
SPECIFICATION FairSpec
INVARIANT TypeOK
INVARIANT NoForeignAnswer
INVARIANT NoDoubleAsk
PROPERTY ReturnsIfSpokenTo
