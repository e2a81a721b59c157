CONSTANTS
  Issue = {1, 2}
  old = old
  new = new
  p1 = p1
  p2 = p2
  NoRow = NoRow
  Title = {old, new}
  Proc = {p1, p2}
  Mortal = {p1}
  FirstTickets <- MCFirstTickets
  FirstServer <- MCFirstServer
  MaxLife <- MCMaxLife
  Runs <- MCRuns
  Merging <- MCMerging
  Showing <- MCShowing
  Edits <- MCEdits
SPECIFICATION GraphSpec
INVARIANTS GraphIInv GraphStaysValid LanesAreTrue
PROPERTIES OnlyOwnRows ProjectionForward MergeKeepsBoth
CHECK_DEADLOCK FALSE
