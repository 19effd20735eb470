SPECIFICATION Spec
CONSTANTS
  Change = {c1, c2}
  Connection = {ml}
  Background = bg
  Meeting <- AtWork
  MaxClock = 3
  MaxKills = 0
  NoFile = NoFile
  Garbage = Garbage
PROPERTIES
  PublishedFrozen
