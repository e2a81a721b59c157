CONSTANTS
  Proc = {p1, p2}
  Mortal = {p1}
  Session = {s1, s2}
  None = None
  Versions = {"stable"}
  Inherited <- MCFresh
  MaxRelation = 0
  MaxTip = 0
  MaxLocked = 1
SPECIFICATION FairSpec
PROPERTIES UnlockedFinishes
CHECK_DEADLOCK FALSE
