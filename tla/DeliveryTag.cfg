CONSTANTS
  Clone = {c1}
  Editing = {c1}
  Runner = {}
  Kinds <- MCKinds
  Env = {e1}
  Nothing = Nothing
  Required = {e1}
  MaxVersion = 1
  MaxCommits = 2
SPECIFICATION Spec
INVARIANT EvidenceOfTagged
CHECK_DEADLOCK FALSE
