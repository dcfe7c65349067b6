CONSTANTS
  None = None
  Slots = {s1, s2}
  Tasks = {t1}
  Asked = {s1, "worktree_list"}
  Emitters = {}
  Failure = Failure
  LeaseIgnored = TRUE
  TTL = 1
  MaxCompute = 1
  Chars = {"a", "b", "*", "-", "!"}
  NoTime = NoTime
  Patterns <- MCPatterns
  Paths <- MCPaths
  Years <- MCYears
  Workers = {"codex"}
  FirstChars = {"a"}
  NextChars = {"a", "-"}
  MaxId = 3
  NoBranch = NoBranch
  NotAnArray = NotAnArray
  NotAString = NotAString
  NoComplaint = NoComplaint
  BadTimes <- MCBadTimes
  EmitRequests <- MCEmitRequests
  Unattributed = Unattributed
  NoTool = NoTool
  Known <- MCKnown
  Now = 4
  Cutoff = 2
  Scans <- MCScans
SPECIFICATION Spec
INVARIANT TypeOK
INVARIANT AnswersFresh
INVARIANT LeaseRulesMean
INVARIANT AgentsSeen
