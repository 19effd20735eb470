SPECIFICATION Spec
CONSTANTS
  NB = 1
  k1 = k1
  k2 = k2
  empty = empty
  v1 = v1
  v2 = v2
  vEmpty = vEmpty
  Thread = {t1, t2}
  Key = {empty, k1, k2}
  UserKey = {k1, k2}
  EmptyKey = empty
  BucketOf <- OneBucket
  CStr <- TextKeys
  Torn <- TornEmpty
  Value = {v1}
  VLen <- Lengths
  VStr <- TextValues
  EmptyValue = vEmpty
  GarbageOffset = {0}
  ChunkRecords = 2
  MaxSession = 2
  WriteSession = {1}
  KillIn <- KillClosing
  IOFail = FALSE
  NoFile = NoFile
  NoLoc = NoLoc
  NoThread = NoThread
  NoValue = NoValue
  Garbage = Garbage
INVARIANTS
  OpenSucceeds
