CONSTANTS
  Proc = {p1, p2, p3}
  Mortal = {p1, p2}
  Key = {k1}
  Value = {v1, v2}
  None = None
  MaxRevision = 1
  Holder = {h1, h2}
  MortalHolder = {h2}
  Worker = {alice, bob}
  Session = {s1}
  MaxClaim = 2
SPECIFICATION StoresSpec
INVARIANTS IInv OneWinnerPerRevision WorkspaceIInv ClaimedIsComplete
PROPERTIES RevisionChain ImplementsCasRegister LockReleased CallReturns ImplementsClaim
CHECK_DEADLOCK FALSE
