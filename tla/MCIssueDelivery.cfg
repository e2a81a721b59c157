CONSTANTS
  Proc = {p1, p2}
  Mortal = {p1, p2}
  Session = {s1, s2}
  None = None
  Versions = {"stable", "mine", "other"}
  Inherited <- MCAborted
  MaxRelation = 1
  MaxTip = 0
  MaxLocked = 1
  Rec = {r1, r2}
  Team <- MCTeam
  Hosted <- MCHosted
  Racing <- MCRacing
  Repeating <- MCRepeating
SYMMETRY Symmetry
SPECIFICATION IssueSpec
INVARIANTS IssueIInv EffectsInOrder ReplayIsQuiet ReportedIsStarted EvidenceKept SuccessMeansUntouched TagIsTested OutcomeOnBranch TagIsEvidence AnswerIsTrue
PROPERTY NothingOverwritten
CHECK_DEADLOCK FALSE
