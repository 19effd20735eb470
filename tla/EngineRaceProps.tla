-------------------------- MODULE EngineRaceProps --------------------------
(* What EngineRace should guarantee, and the abstract store it implements. *)
EXTENDS EngineRace

FileOf(C) == Seq(C) \cup {NoFile}
TypeOK ==
  /\ base \in [Bucket -> FileOf(Field)]
  /\ tmp \in [Bucket -> FileOf(Record)]
  /\ data \in [Bucket -> FileOf(Cell)]
  /\ index \in [Bucket -> [Key -> Loc \cup {NoLoc}]]
  /\ nextOff \in [Bucket -> Nat]
  /\ fdpos \in [Bucket -> Nat]
  /\ mu \in [Bucket -> Thread \cup {NoThread}]
  /\ pc \in [Thread -> {"idle", "data", "size", "key", "loc", "miss", "read"}]
  /\ op \in [Thread -> [key : UserKey \cup {EmptyKey}, val : Value \cup {NoValue}]]
  /\ phase \in {"down", "opening", "open", "closing"}
  /\ cur \in Bucket
  /\ ostep \in {"look", "mkdata", "retmp", "map", "save"}
  /\ ret \in {"none", "kSucc", "kIOError"}
  /\ session \in 0..MaxSession
  /\ todo \in Seq(Key)
  /\ fld \in {"size", "key", "loc"}
  /\ wpos \in Nat
  /\ acked \in [UserKey -> Value \cup {NoValue}]
  /\ saved \in [UserKey -> Loc \cup {NoLoc}]

Writing(t) == pc[t] \in {"data", "size", "key", "loc"}
\* no Write of bucket b is between the size and the end of the location
Settled(b) == \A t \in Thread : pc[t] \in {"key", "loc"} => BucketOf[op[t].key] # b
\* no other key is read back as k
ReadBackAlone(k) == CStr[k] = k /\ \A j \in Key : CStr[j] = k => j = k

NoIndex == [c \in Key |-> NoLoc]

\* index_i.tmp is the log of the session: while the engine is open, and until the
\* destructor has saved the bucket, a kill -9 between two Writes finds in it the location
\* of the last acknowledged Write of every key, whatever threads wrote it and whatever
\* else is in flight.
AckedInTmp ==
  \A k \in UserKey :
    LET b == BucketOf[k] IN
    /\ phase = "open" \/ (phase = "closing" /\ tmp[b] # NoFile)
    /\ saved[k] # NoLoc
    /\ Settled(b)
    /\ ReadBackAlone(k)
    => tmp[b] # NoFile /\ Load(NoIndex, tmp[b])[k] = saved[k]

\* the map a Read uses agrees with that log when nobody writes in the bucket
IndexMatchesTmp ==
  \A k \in UserKey :
    phase = "open" /\ mu[BucketOf[k]] = NoThread /\ saved[k] # NoLoc
      => index[BucketOf[k]][k] = saved[k]

\* two keys written in one session never share bytes of a data file
NoSharedBytes ==
  \A j, k \in UserKey :
    j # k /\ BucketOf[j] = BucketOf[k] /\ saved[j] # NoLoc /\ saved[k] # NoLoc
      => \/ saved[j].off + saved[j].len <= saved[k].off
         \/ saved[k].off + saved[k].len <= saved[j].off

\* what Open would load for bucket b from the files as they are
LoadFiles(f, log) ==
  LET old == IF f = NoFile THEN NoIndex ELSE Load(NoIndex, Records(f))
  IN  IF log = NoFile THEN old ELSE Load(old, log)
OnDisk(b) == LoadFiles(base[b], tmp[b])

\* a key acknowledged in this session is found on disk at any time, during the
\* destructor's save and after it too (if a crash did not leave a torn key behind)
AckedOnDisk ==
  phase \in {"open", "closing"} =>
    \A k \in UserKey : saved[k] # NoLoc /\ Settled(BucketOf[k]) /\ ReadBackAlone(k)
                         => OnDisk(BucketOf[k])[k] = saved[k]

\* when the destructor is done with a bucket, index_i holds the index and no stale entry
SavedIsIndex ==
  phase = "closing" =>
    \A b \in Bucket : b < cur => /\ ~CutOff(base[b])
                                  /\ \A k \in Key : ReadBackAlone(k)
                                       => OnDisk(b)[k] = index[b][k]

\* every acknowledged value is readable whenever the engine is open: through a kill -9,
\* a merge, a close and a re-open (in the scenario of WritesOnce and NextLocStartsAtZero)
AckedReadable ==
  phase = "open" =>
    \A k \in UserKey :
      LET b == BucketOf[k] IN
      mu[b] = NoThread /\ acked[k] # NoValue
        => index[b][k] # NoLoc /\ ReadValue(data[b], index[b][k]) = VStr[acked[k]]

\* a Read returns the last value acknowledged for its key: not so of the code where nextLoc
\* starts at another offset than 0 (engine_race.h:65)
ReadReturnsLast ==
  [][\A t \in Thread : pc[t] = "read" /\ pc'[t] = "idle" /\ phase' = "open"
                            /\ acked[op[t].key] # NoValue
       => Result(t) = VStr[acked[op[t].key]]]_vars

\* a Write never changes bytes that are in the data file, it appends
WriteAppends ==
  [][\A b \in Bucket : data[b] # NoFile =>
       /\ Len(data'[b]) >= Len(data[b])
       /\ SubSeq(data'[b], 1, Len(data[b])) = data[b]]_vars

\* Open never returns an error
OpenSucceeds == ret # "kIOError"
\* Open returns, and a mutex that was taken is released
OpenReturns == phase = "opening" ~> phase # "opening"
LockReleased == \A b \in Bucket : mu[b] # NoThread ~> mu[b] = NoThread

-----------------------------------------------------------------------------
(* The engine as a store (KVStore): the value of a key is read from the files, or from *)
(* memory once Open has loaded the bucket and while no Write is at work on the key.    *)
Loaded(b) == \/ phase \in {"open", "closing"}
             \/ phase = "opening" /\ (b < cur \/ (b = cur /\ ostep \in {"retmp", "map"}))
\* index_i.tmp without the record that a Write has not finished
FinishedTmp(b) == IF Settled(b) \/ tmp[b] = NoFile THEN tmp[b]
                  ELSE SubSeq(tmp[b], 1, Len(tmp[b]) - 1)
Location(k) ==
  LET b == BucketOf[k] IN
  IF Loaded(b) /\ \A t \in Thread : ~(Writing(t) /\ op[t].key = k)
  THEN index[b][k]
  ELSE LoadFiles(base[b], FinishedTmp(b))[k]
Stored(k) == IF Location(k) = NoLoc THEN NoValue ELSE ReadValue(data[BucketOf[k]], Location(k))
InFlight(t) == IF Writing(t) THEN op[t] ELSE NoOp

KV == INSTANCE KVStore WITH
        NoKey <- EmptyKey, store <- [k \in UserKey |-> Stored(k)],
        pending <- [t \in Thread |-> InFlight(t)]
\* The engine is a key-value store whose Writes take effect in one step, or not at all if a
\* kill -9 comes first, and whose contents nothing else changes: not Open, not a merge of
\* index_i.tmp, not a kill between two Writes, not the destructor (in the scenario of
\* WritesOnce and NextLocStartsAtZero).
ImplementsKVStore == KV!Spec

-----------------------------------------------------------------------------
(* The inductive invariant: which files are there while Open and the destructor move  *)
(* over the buckets, who holds a mutex, and where in index_i.tmp an acknowledged      *)
(* location stands.                                                                   *)
LoopInv ==
  /\ phase = "open" => /\ ostep = "look"
                       /\ \A b \in Bucket : tmp[b] # NoFile /\ data[b] # NoFile
  /\ phase = "opening" =>
       /\ \A b \in Bucket : b < cur => tmp[b] # NoFile /\ data[b] # NoFile
       /\ ostep \in {"retmp", "map"} => data[cur] # NoFile
       /\ ostep \in {"mkdata", "map"} => tmp[cur] # NoFile
       /\ \A b \in Bucket : fdpos[b] = 0
       /\ \A k \in UserKey : saved[k] = NoLoc
  /\ phase = "closing" /\ ostep = "save" /\ todo # <<>> =>
       /\ base[cur] # NoFile /\ wpos <= Len(base[cur])
       /\ \A i \in 1..Len(todo) : index[cur][todo[i]] # NoLoc

ThreadInv ==
  /\ \A t \in Thread : pc[t] # "idle" =>
       /\ phase = "open"
       /\ op[t].key \in UserKey
       /\ mu[BucketOf[op[t].key]] = t
       /\ Writing(t) => op[t].val \in Value
  /\ phase = "open" => \A b \in Bucket :
       \/ fdpos[b] <= Len(data[b])
       \/ \E t \in Thread : pc[t] = "read" /\ BucketOf[op[t].key] = b

\* the record at the end of index_i.tmp belongs to a Write that has not returned
Unfinished(b, i) ==
  i = Len(tmp[b]) /\ \E t \in Thread : pc[t] \in {"key", "loc"} /\ BucketOf[op[t].key] = b
LoggedAt(k, i) ==
  LET b == BucketOf[k] IN
  /\ i \in 1..Len(tmp[b]) /\ ~Unfinished(b, i)
  /\ tmp[b][i] = [key |-> k, loc |-> saved[k]]
  /\ \A j \in 1..Len(tmp[b]) : j > i /\ ~Unfinished(b, j) => tmp[b][j].key # k

WriterInv(t) ==
  LET b == BucketOf[op[t].key] IN
  /\ Writing(t) => index[b][op[t].key] = [off |-> nextOff[b], len |-> VLen[op[t].val]]
  /\ pc[t] \in {"key", "loc"} => Len(tmp[b]) > 0
  /\ pc[t] = "loc" => tmp[b][Len(tmp[b])].key = op[t].key

LogInv ==
  /\ \A t \in Thread : WriterInv(t)
  /\ \A k \in UserKey :
       /\ phase = "open" \/ (phase = "closing" /\ tmp[BucketOf[k]] # NoFile)
       /\ saved[k] # NoLoc
       => \E i \in 1..Len(tmp[BucketOf[k]]) : LoggedAt(k, i)
  /\ phase = "open" => \A k \in UserKey : saved[k] # NoLoc =>
       /\ saved[k].off + saved[k].len <= nextOff[BucketOf[k]]
       /\ (\A t \in Thread : Writing(t) => op[t].key # k) => index[BucketOf[k]][k] = saved[k]
  /\ NoSharedBytes

IndInv == TypeOK /\ LoopInv /\ ThreadInv /\ LogInv

-----------------------------------------------------------------------------
(* When the process ends only between records, what is on disk can be relied on: DiskInv *)
(* says of the files what LogInv says of the log.                                         *)

\* no call fails, keys have no NUL byte, kill -9 comes while callers use the engine
Undisturbed == /\ ~IOFail
               /\ \A k \in Key : CStr[k] = k
               /\ \A p \in KillIn : p[2] = "running"

\* the process does not end while a Write is between the size and the end of the location
EndsBetweenRecords ==
  [][phase = "open" /\ phase' = "down" => \A t \in Thread : pc[t] \notin {"key", "loc"}]_vars

\* every log has room for one more record
RoomInLogs == \A b \in Bucket : tmp[b] # NoFile => Len(tmp[b]) < ChunkRecords

\* the first n records of index_i are whole and each has a key of its own
NameAt(f, j) == f[3 * j - 1].rec.key
Complete(f, n) ==
  /\ 3 * n <= Len(f)
  /\ \A j \in 1..n : /\ f[3 * j - 2] = [part |-> "size", rec |-> f[3 * j - 1].rec]
                     /\ f[3 * j - 1].part = "key" /\ NameAt(f, j) # EmptyKey
                     /\ f[3 * j] = [part |-> "loc", rec |-> f[3 * j - 1].rec]
  /\ \A i, j \in 1..n : NameAt(f, i) = NameAt(f, j) => i = j
\* they hold what the index has for their keys
Agrees(f, n, idx) ==
  \A j \in 1..n : idx[NameAt(f, j)] # NoLoc /\ f[3 * j].rec.loc = idx[NameAt(f, j)]

Saving(b) == phase = "closing" /\ b = cur /\ ostep = "save"

\* index_i is n records; the index has them all once it is loaded, and what is saved is the index
BaseIs(b, n) ==
  /\ Len(base[b]) = 3 * n /\ Complete(base[b], n)
  /\ Loaded(b) => \A j \in 1..n : index[b][NameAt(base[b], j)] # NoLoc
  /\ phase = "closing" /\ b < cur =>
       /\ Agrees(base[b], n, index[b])
       /\ \A k \in Key : index[b][k] # NoLoc => \E j \in 1..n : NameAt(base[b], j) = k

\* n records are saved, of the next one what comes before fld; the rest of the file is old
SavedSoFar(n) ==
  LET f == base[cur]
      rec == [key |-> Head(todo), loc |-> index[cur][Head(todo)]]
  IN
  /\ wpos = 3 * n + (CASE fld = "size" -> 0 [] fld = "key" -> 1 [] fld = "loc" -> 2)
  /\ Complete(f, n) /\ Agrees(f, n, index[cur])
  /\ Len(f) <= 3 * (n + Len(todo))
  /\ fld # "size" => todo # <<>> /\ f[3 * n + 1] = [part |-> "size", rec |-> rec]
  /\ fld = "loc" => f[3 * n + 2] = [part |-> "key", rec |-> rec]
  /\ \A k \in Key : index[cur][k] # NoLoc =>
       (\E j \in 1..n : NameAt(f, j) = k) \/ (\E i \in 1..Len(todo) : todo[i] = k)
  /\ \A i \in 1..Len(todo) : /\ \A j \in 1..n : todo[i] # NameAt(f, j)
                             /\ \A j \in 1..Len(todo) : todo[i] = todo[j] => i = j

\* data_i is there before anything names it, and the empty key is nowhere
Making(b) == phase = "opening" /\ b = cur /\ ostep = "mkdata"
FilesAt(b) ==
  /\ index[b][EmptyKey] = NoLoc
  /\ tmp[b] # NoFile \/ base[b] # NoFile => data[b] # NoFile \/ Making(b)
  /\ Making(b) => base[b] = NoFile
  /\ tmp[b] # NoFile =>
       \A i \in 1..Len(tmp[b]) : Unfinished(b, i) \/ tmp[b][i].key # EmptyKey
ClosingInv ==
  phase = "closing" =>
    /\ ostep \in {"look", "save"}
    /\ \A b \in Bucket : tmp[b] # NoFile <=> b >= cur
    /\ \A b \in Bucket : b < cur => base[b] # NoFile
    /\ \A k \in UserKey : saved[k] # NoLoc => index[BucketOf[k]][k] = saved[k]

DiskInv ==
  /\ OpenSucceeds
  /\ ClosingInv
  /\ \A b \in Bucket :
       /\ FilesAt(b)
       /\ base[b] # NoFile /\ ~Saving(b) => \E n \in 0..Len(base[b]) : BaseIs(b, n)
  /\ Saving(cur) => base[cur] # NoFile /\ \E n \in 0..Len(base[cur]) : SavedSoFar(n)

-----------------------------------------------------------------------------
(* When only the first session writes, only it may be killed and nextLoc happens to start *)
(* at 0 in it, the engine is the store: StoreInv says where the value of a key is.        *)

\* Undisturbed, later sessions read and close, values have no NUL byte
WritesOnce == /\ Undisturbed
              /\ WriteSession \subseteq {1}
              /\ \A p \in KillIn : p[1] = 1
              /\ \A v \in Value : VStr[v] = v /\ (VLen[v] = 0 => v = EmptyValue)

\* nextLoc, which nothing initialises (engine_race.h:65), is found to be 0 by the first Open
NextLocStartsAtZero ==
  [][phase = "down" /\ phase' = "opening" /\ session' = 1
       => \A b \in Bucket : nextOff'[b] = 0]_vars

Appended(t) == pc[t] \in {"size", "key", "loc"}
\* the bytes of v are in file f from off on
Holds(f, off, v) == /\ off + VLen[v] <= Len(f)
                    /\ \A i \in 1..VLen[v] : f[off + i] = <<v, i>>

\* the bucket of a session that is the first: everything goes to the end of data_i
AppendInv(b) ==
  /\ base[b] = NoFile
  /\ (\A t \in Thread : pc[t] = "read" => BucketOf[op[t].key] # b) => fdpos[b] = Len(data[b])
  /\ (\A t \in Thread : Appended(t) => BucketOf[op[t].key] # b) => nextOff[b] = Len(data[b])
AppendedInv(t) ==
  LET b == BucketOf[op[t].key] IN
  Appended(t) => /\ Len(data[b]) = nextOff[b] + VLen[op[t].val]
                 /\ Holds(data[b], nextOff[b], op[t].val)
KeyInv(k) ==
  LET b == BucketOf[k] IN
  /\ acked[k] = NoValue <=> saved[k] = NoLoc
  /\ saved[k] # NoLoc => saved[k].len = VLen[acked[k]] /\ Holds(data[b], saved[k].off, acked[k])
  /\ saved[k] = NoLoc =>
       /\ \A i \in 1..Len(tmp[b]) : Unfinished(b, i) \/ tmp[b][i].key # k
       /\ (\A t \in Thread : Writing(t) => op[t].key # k) => index[b][k] = NoLoc

StoredInv == \A k \in UserKey : Stored(k) = acked[k]
\* a bucket that is not loaded has an empty index, and its first index_i.tmp is empty
UnloadedInv ==
  \A b \in Bucket :
    /\ ~Loaded(b) => \A k \in Key : index[b][k] = NoLoc
    /\ Making(b) => tmp[b] = <<>>
Unused(b) == base[b] = NoFile /\ tmp[b] = NoFile /\ data[b] = NoFile
FirstInv ==
  /\ session = 0 => phase = "down" /\ \A b \in Bucket : Unused(b)
  /\ session = 1 /\ phase = "opening" => \A b \in Bucket :
       /\ base[b] = NoFile /\ tmp[b] \in {NoFile, <<>>} /\ data[b] \in {NoFile, <<>>}
       /\ nextOff[b] = 0 /\ \A k \in Key : index[b][k] = NoLoc
  /\ session = 1 /\ phase = "open" => /\ \A b \in Bucket : AppendInv(b)
                                      /\ \A t \in Thread : AppendedInv(t)
                                      /\ \A k \in UserKey : KeyInv(k)
CallersInv ==
  \A t \in Thread :
    /\ Writing(t) => session = 1
    /\ pc[t] = "read" => LET l == index[BucketOf[op[t].key]][op[t].key]
                         IN  l # NoLoc /\ fdpos[BucketOf[op[t].key]] = l.off

StoreInv == StoredInv /\ UnloadedInv /\ FirstInv /\ CallersInv

=============================================================================
