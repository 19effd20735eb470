SPECIFICATION Spec
CONSTANTS
  p1 = p1
  p2 = p2
  t1 = t1
  t2 = t2
  Process = {p1, p2}
  Thread = {t1, t2}
  HostOf <- Hosts
  UserKey = {1, 2, 3}
  Byte <- Bytes
  Value <- OneOrTwoBytes
  StrHash <- Hashes
  kMaxDoorCnt = 2
  kSingleFileSize = 2
  MaxCalls = 3
  Meeting = {}
  NoProcess = NoProcess
  NoThread = NoThread
  NoKey = NoKey
  NoValue = NoValue
INVARIANTS
  TypeOK
  TableIsReachable
  ReadEnds
  RangeAgrees
PROPERTIES
  ImplementsKVStore
  WriteReturns
