SPECIFICATION Spec
CONSTANTS
  c1 = c1
  c2 = c2
  old = old
  new = new
  Client = {c1, c2}
  Server = server
  Paths <- TwoDirs
  Sub <- Slashes
  Content = {old, new}
  Empty = old
  Dir = Dir
  None = None
  ServerTree <- Nothing
  MaxOps = 2
  MaxFaults = 0
  Meeting <- Unstaged
CHECK_DEADLOCK FALSE
INVARIANT
  DifferencesOnTheWay
