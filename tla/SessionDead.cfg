CONSTANTS
  None = None
  Null = Null
  Questions = {q1, q2}
  RetryBudget = 2
  ServerAsks = FALSE
  MaxIndex = 1
  MaxInbox = 2
  MaxAbandoned = 1
SPECIFICATION FairSpec
PROPERTY DeadIsReplaced
