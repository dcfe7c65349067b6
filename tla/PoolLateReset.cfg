CONSTANTS
  None = None
  Slots = {1, 2}
  Workers = {w1, w2}
  Branches = {b1, b2}
  Commits = {c1}
  EditKinds = {"untracked"}
  Serial = FALSE
  DetachedAcquire = FALSE
  CarefulCallers = FALSE
  WorkDuringRelease = FALSE
  ForceRelease = FALSE
  HoldersRelease = TRUE
SPECIFICATION Spec
SYMMETRY Symmetry
INVARIANT GrantAtBase
