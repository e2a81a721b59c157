CONSTANTS
  t1 = t1
  t2 = t2
  shared = shared
  own1 = own1
  own2 = own2
  None = None
  Txn = {t1, t2}
  Member = {shared, own1, own2}
  ReadSet <- MCReadSet
  WriteSet <- MCWriteSet
  Proc = {p1, p2}
  Mortal = {}
  Outside = {}
  MaxOutside = 0
SPECIFICATION Spec
PROPERTIES CommitReadsCurrent
CHECK_DEADLOCK FALSE
