CONSTANTS
  Proc = {p1, p2}
  Mortal = {p1}
  Session = {s1}
  None = None
  Versions = {"stable", "mine", "other"}
  Inherited <- MCInherited
  MaxRelation = 1
  MaxTip = 1
  MaxLocked = 2
SPECIFICATION FairSpec
PROPERTIES FinishesUnlessObstructed
CHECK_DEADLOCK FALSE
