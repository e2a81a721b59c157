CONSTANTS
  Issue = {1, 2}
  old = old
  new = new
  p1 = p1
  p2 = p2
  NoRow = NoRow
  Title = {old, new}
  Proc = {p2}
  Mortal = {}
  FirstTickets <- BothRows
  FirstServer <- MCFirstServer
  MaxLife <- MCMaxLife
  Runs <- PushOnly
  Edits = {}
SPECIFICATION Spec
INVARIANT UnreplacedAreUnchanged
CHECK_DEADLOCK FALSE
