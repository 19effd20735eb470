SPECIFICATION Spec
CONSTANTS
  c1 = c1
  c2 = c2
  old = old
  new = new
  Client = {c1, c2}
  Server = server
  Paths <- DirsAndFile
  Sub <- Slashes
  Content = {old, new}
  Empty = old
  Dir = Dir
  None = None
  ServerTree <- OneFile
  MaxOps = 2
  MaxFaults = 0
  Meeting <- Mixing
CHECK_DEADLOCK FALSE
INVARIANT
  NotStuck
