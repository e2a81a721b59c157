CONSTANTS
  Proc = {p1, p2}
  Candidate = {c1, c2}
  Alias = {hazard}
  None = None
  Inherited <- MCInherited
  MaxRevision = 3
  PlannedCommits = 3
  GateNames = {"integration"}
  Releases = {"patch"}
  Unmet = {"none", "mitAuthenticated", "policy", "coordinator"}
  Runs <- MCRuns
  Answers = {"passed", "timeout"}
  MaxRuns = 2
  MaxTip = 2
SYMMETRY Symmetry
SPECIFICATION ProgressSpec
INVARIANTS ProgressIInv StoredReadable CompletedAsReviewed PlanIsEarned MergedIsEarned
PROPERTIES OnlyAppends MissingStaysMissing
CHECK_DEADLOCK FALSE
