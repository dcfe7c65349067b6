CONSTANTS
  None = None
  ModelText = ModelText
  Changes = {edit, file}
  NewFiles = {file}
  MaxCommits = 2
  MaxChunks = 2
  PipeSize = 1
SPECIFICATION FairSpec
INVARIANT TypeOK
INVARIANT NoneMeansUntouched
INVARIANT ShownIsCommitted
INVARIANT MessageIsOwn
PROPERTY ReturnsUnlessJammed
