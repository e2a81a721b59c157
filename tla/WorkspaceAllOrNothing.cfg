CONSTANTS
  Proc = {p1, p2}
  Mortal = {}
  Worker = {alice, bob}
  Session = {s1}
  None = None
  MaxRevision = 1
SPECIFICATION Spec
INVARIANTS AllOrNothing
CHECK_DEADLOCK FALSE
