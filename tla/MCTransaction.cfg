CONSTANTS
  t1 = t1
  t2 = t2
  shared = shared
  own1 = own1
  own2 = own2
  None = None
  Txn = {t1, t2}
  Member = {shared, own1, own2}
  ReadSet <- MCReadSet
  WriteSet <- MCWriteSet
  Proc = {p1, p2}
  Mortal = {p1}
  Outside = {shared}
  MaxOutside = 1
SPECIFICATION FairSpec
INVARIANTS IInv NoConflictingPrepared OnlyCommittedApplied
PROPERTIES DecidedOnce CommittedIsMaterialized
CHECK_DEADLOCK FALSE
