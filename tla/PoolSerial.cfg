CONSTANTS
  None = None
  Slots = {1, 2}
  Workers = {w1, w2}
  Branches = {b1, b2}
  Commits = {c1, c2}
  EditKinds = {"tracked", "untracked", "cargo"}
  Serial = TRUE
  DetachedAcquire = TRUE
  CarefulCallers = TRUE
  WorkDuringRelease = FALSE
  ForceRelease = TRUE
  HoldersRelease = TRUE
SPECIFICATION Spec
SYMMETRY Symmetry
INVARIANT GrantAtBase
PROPERTY NoSilentLoss
PROPERTY FilesGate
