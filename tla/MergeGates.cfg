CONSTANTS
  None = None
  Worker = Worker
  Servers = {p1, p2}
  Branches = {b1, b2}
  Changes = {doc, code}
  Carveout = {doc}
  Reviewers = {r1}
  WhileMerging = FALSE
  Preamble = 1
  Footer = 1
  Documents <- MCDocuments
  Required <- MCRequired
  VerdictWords = {"PROCEED", "BLOCK"}
  Leases = {"clean", "out-of-scope", "not-applicable"}
  NoValue = NoValue
  Rejected = Rejected
  Files <- MCFiles
SPECIFICATION Spec
SYMMETRY Symmetry
INVARIANT TypeOK
 
INVARIANT VerdictsReadAsWritten
PROPERTY LandedAsSigned
PROPERTY NoneOutOfScope
 
