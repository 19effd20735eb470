SPECIFICATION FairSpec
CONSTANTS
  Change = {c1, c2}
  Connection = {ml}
  Background = bg
  Meeting <- Apart
  MaxClock = 4
  MaxKills = 1
  NoFile = NoFile
  Garbage = Garbage
INVARIANTS
  TypeOK
  StampForward
PROPERTIES
  PublishedFrozen
  ImplementsChangeFeed
  PassPublishes
