CONSTANTS
  Proc = {p1}
  Candidate = {c1}
  Alias = {}
  None = None
  Inherited <- MCInherited
  MaxRevision = 2
SPECIFICATION Spec
PROPERTY NeverReset
CHECK_DEADLOCK FALSE
