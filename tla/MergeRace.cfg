CONSTANTS
  None = None
  Worker = Worker
  Servers = {p1}
  Branches = {b1}
  Changes = {doc, code}
  Carveout = {doc}
  Reviewers = {r1}
  WhileMerging = TRUE
  Preamble = 1
  Footer = 1
  Documents <- MCDocuments
  Required <- MCRequired
  VerdictWords = {"PROCEED", "BLOCK"}
  Leases = {"clean", "out-of-scope", "not-applicable"}
  NoValue = NoValue
  Rejected = Rejected
  Files <- MCFiles
SPECIFICATION Spec
SYMMETRY Symmetry
PROPERTY LandedAsSigned
