CONSTANTS
  None = None
  Slots = {1, 2}
  Workers = {w1, w2}
  Branches = {b1, b2}
  Commits = {}
  EditKinds = {"untracked"}
  Serial = FALSE
  DetachedAcquire = FALSE
  CarefulCallers = FALSE
  WorkDuringRelease = FALSE
  ForceRelease = FALSE
  HoldersRelease = FALSE
SPECIFICATION FairSpec
INVARIANT TypeOK
INVARIANT Exclusive
INVARIANT OwnerKeepsBranch
PROPERTY LeaseRefined
PROPERTY LockFreed
