----------------------------- MODULE EngineRace -----------------------------
(***************************************************************************)
(* The key-value engine of src/kv_engine/engine/engine_race: NB buckets,   *)
(* each with one mutex, an in-memory index (key -> location), a data file  *)
(* and two index files:                                                    *)
(*   index_i.tmp  memory-mapped, one record added per Write, so that an    *)
(*                index survives kill -9 (tmp below);                      *)
(*   index_i      saved by the destructor, without duplicates (base).      *)
(* A step is what kill -9 may separate from the next one: one file or      *)
(* directory operation, or one memcpy into the mapping.                    *)
(*                                                                         *)
(* Abstractions.  A key or a value is an element of a small set; CStr and  *)
(* VStr say what is left of it when it is read back as a C string, Torn    *)
(* what a key that was copied in part is read back as.  tmp is a sequence  *)
(* of records and base one of fields (the destructor writes a record with  *)
(* three appends); the keys of a bucket have one length, so an interrupted *)
(* save overlays whole fields.                                             *)
(***************************************************************************)
EXTENDS Naturals, Sequences, FiniteSets

CONSTANTS
  NB,              \* number of buckets (thread_cnt in the code)
  Thread,          \* caller threads
  Key, UserKey,    \* all keys an index may hold; those that callers use
  EmptyKey,        \* the key ""
  BucketOf,        \* hash of a key modulo NB
  CStr, Torn,      \* what a key, and a partly copied key, are read back as
  Value, VLen, VStr, EmptyValue,
  GarbageOffset,   \* the values nextLoc[i].offset may hold: it is not initialised
  ChunkRecords,    \* records that fit in the mapping (chunckSize)
  MaxSession,      \* bound: how often the engine is opened
  WriteSession,    \* the sessions in which callers call Write
  KillIn,          \* where kill -9 may hit: pairs <<session, KillPoint>>
  IOFail,          \* TRUE: open, read, posix_fallocate, mmap and write may fail; what
                   \* fails goes on failing until that Open, or that save of a bucket, ends
  NoFile, NoLoc, NoThread, NoValue, Garbage

Bucket == 1..NB
Loc == [off : Nat, len : Nat]
ZeroLoc == [off |-> 0, len |-> 0]
Record == [key : Key, loc : Loc]
Field == [part : {"size", "key", "loc"}, rec : Record]
Cell == Value \X (Nat \ {0})

ASSUME ConstantsAssumption ==
  /\ NB \in Nat \ {0}
  /\ UserKey \subseteq Key \ {EmptyKey}
  /\ EmptyKey \in Key /\ IsFiniteSet(Key)
  /\ BucketOf \in [UserKey -> Bucket]
  /\ CStr \in [Key -> Key]
  /\ CStr[EmptyKey] = EmptyKey
  /\ Torn \in [UserKey -> SUBSET Key]
  /\ VLen \in [Value -> Nat]
  /\ VStr \in [Value -> Value]
  /\ GarbageOffset \subseteq Nat
  /\ ChunkRecords \in Nat \ {0}
  /\ MaxSession \in Nat
  /\ IOFail \in BOOLEAN

ASSUME SentinelsAssumption ==
  /\ NoThread \notin Thread
  /\ NoLoc \notin Loc
  /\ NoValue \notin Value
  /\ NoFile \notin Seq(Record)
  /\ NoFile \notin Seq(Field)
  /\ NoFile \notin Seq(Cell)

VARIABLES
  base, tmp, data,     \* the files: index_i, index_i.tmp, data_i
  index,               \* memory: the hash map of each bucket
  nextOff,             \* memory: nextLoc[i].offset
  fdpos,               \* memory: file position of fd_data[i]
  mu,                  \* memory: holder of mu_[i]
  pc, op,              \* each caller thread: its next step, its operation
  phase, cur, ostep,   \* Open and ~EngineRace: progress over the buckets
  todo, fld, wpos,     \* ~EngineRace: keys still to save, next field, file position
  ret,                 \* what the last Open returned
  session,             \* number of the present session
  acked, saved         \* history: last acknowledged value of a key, and the
                       \* location acknowledged in this session

files == <<base, tmp, data>>
mem == <<index, nextOff, fdpos, mu>>
threads == <<pc, op>>
saving == <<todo, fld, wpos>>
loop == <<phase, cur, ostep, ret, session>>
hist == <<acked, saved>>
vars == <<files, mem, threads, saving, loop, hist>>

-----------------------------------------------------------------------------
(* Files *)

\* mutant: a reader that keeps the record it has
LastOfKeepsFirst(recs, c) == CHOOSE i \in 1..Len(recs) :
                               /\ CStr[recs[i].key] = c
                               /\ \A j \in 1..Len(recs) : CStr[recs[j].key] = c => i <= j
\* read_index_file on records: a later record of a key replaces an earlier one
LastOf(recs, c) == CHOOSE i \in 1..Len(recs) :
                     /\ CStr[recs[i].key] = c
                     /\ \A j \in 1..Len(recs) : CStr[recs[j].key] = c => j <= i
Found(recs, c) == \E i \in 1..Len(recs) : CStr[recs[i].key] = c
Load(idx, recs) == [c \in Key |-> IF Found(recs, c) THEN recs[LastOf(recs, c)].loc
                                                    ELSE idx[c]]

\* the bytes of index_i as records: the reader stops at the end, at a size of 0,
\* or with an error at a record that is cut off
Whole(f, j) == /\ 3 * j <= Len(f)
               /\ f[3 * j - 2].part = "size" /\ f[3 * j - 2].rec.key # EmptyKey
               /\ f[3 * j - 1].part = "key"
               /\ f[3 * j].part = "loc"
WholeCount(f) == CHOOSE n \in 0..Len(f) : /\ \A j \in 1..n : Whole(f, j)
                                          /\ ~Whole(f, n + 1)
Records(f) == [j \in 1..WholeCount(f) |->
                 [key |-> f[3 * j - 1].rec.key, loc |-> f[3 * j].rec.loc]]
CutOff(f) == LET p == 3 * WholeCount(f) + 1
             IN  p <= Len(f) /\ ~(f[p].part = "size" /\ f[p].rec.key = EmptyKey)

\* write(2) of cells c at position p of file f, and what a location holds
Overlay(f, p, c) ==
  [i \in 1..(IF Len(f) > p + Len(c) THEN Len(f) ELSE p + Len(c)) |->
     IF i > p /\ i <= p + Len(c) THEN c[i - p] ELSE f[i]]
Cells(v) == [i \in 1..VLen[v] |-> <<v, i>>]
ReadValue(f, loc) ==
  IF loc.len = 0 THEN EmptyValue
  ELSE IF \E v \in Value : /\ VLen[v] = loc.len
                           /\ loc.off + loc.len <= Len(f)
                           /\ SubSeq(f, loc.off + 1, loc.off + loc.len) = Cells(v)
       THEN VStr[CHOOSE v \in Value :
                   SubSeq(f, loc.off + 1, loc.off + loc.len) = Cells(v)]
       ELSE Garbage

-----------------------------------------------------------------------------
NoOp == [key |-> EmptyKey, val |-> NoValue]
EmptyIndex == [b \in Bucket |-> [k \in Key |-> NoLoc]]

Init ==
  /\ base = [b \in Bucket |-> NoFile]
  /\ tmp  = [b \in Bucket |-> NoFile]
  /\ data = [b \in Bucket |-> NoFile]
  /\ index = EmptyIndex
  /\ nextOff = [b \in Bucket |-> 0]
  /\ fdpos = [b \in Bucket |-> 0]
  /\ mu = [b \in Bucket |-> NoThread]
  /\ pc = [t \in Thread |-> "idle"]
  /\ op = [t \in Thread |-> NoOp]
  /\ phase = "down" /\ cur = 1 /\ ostep = "look" /\ ret = "none" /\ session = 0
  /\ todo = <<>> /\ fld = "size" /\ wpos = 0
  /\ acked = [k \in UserKey |-> NoValue]
  /\ saved = [k \in UserKey |-> NoLoc]

(* Open: a new object, then every bucket in turn. *)
OpenStart ==
  /\ phase = "down"
  /\ session < MaxSession
  /\ phase' = "opening" /\ cur' = 1 /\ ostep' = "look" /\ session' = session + 1
  /\ ret' = "none"
  /\ nextOff' \in [Bucket -> GarbageOffset]
  /\ fdpos' = [b \in Bucket |-> 0]
  /\ saved' = [k \in UserKey |-> NoLoc]
  /\ UNCHANGED <<files, index, mu, threads, saving, acked>>

\* the directory is not there and cannot be made: no file of the engine exists
OpenNoDirectory ==
  /\ phase = "down" /\ IOFail
  /\ session < MaxSession
  /\ \A b \in Bucket : base[b] = NoFile /\ tmp[b] = NoFile
  /\ ret' = "kIOError" /\ session' = session + 1
  /\ UNCHANGED <<files, mem, threads, saving, phase, cur, ostep, hist>>

\* the object is gone; where it was not deleted (leaked) nobody can use it either
Forget ==
  /\ phase' = "down" /\ cur' = 1 /\ ostep' = "look"
  /\ index' = EmptyIndex
  /\ mu' = [b \in Bucket |-> NoThread]
  /\ pc' = [t \in Thread |-> "idle"]
  /\ op' = [t \in Thread |-> NoOp]
  /\ todo' = <<>> /\ fld' = "size" /\ wpos' = 0
  /\ UNCHANGED <<nextOff, fdpos, session, hist>>

\* "delete engine_race; return ...": the destructor runs over all the buckets,
\* those that were not opened included
DeleteEngine ==
  /\ phase' = "closing" /\ cur' = 1 /\ ostep' = "look" /\ ret' = "kIOError"
  /\ UNCHANGED <<nextOff, fdpos, mu, threads, saving, session, hist>>

\* no index_i.tmp, and index_i is not there or cannot be opened: an empty path;
\* index_i.tmp is created first
OpenFresh ==
  /\ phase = "opening" /\ ostep = "look"
  /\ tmp[cur] = NoFile
  /\ base[cur] = NoFile \/ IOFail
  /\ tmp' = [tmp EXCEPT ![cur] = <<>>]
  /\ ostep' = "mkdata"
  /\ UNCHANGED <<base, data, mem, threads, saving, phase, cur, ret, session, hist>>

\* only index_i: the last closing was successful
LoadClean == index' = [index EXCEPT ![cur] = Load(@, Records(base[cur]))]
\* a read that fails stops it after some records
LoadPart == \E n \in 0..Len(Records(base[cur])) :
              index' = [index EXCEPT ![cur] = Load(@, SubSeq(Records(base[cur]), 1, n))]
OpenClean ==
  /\ phase = "opening" /\ ostep = "look"
  /\ tmp[cur] = NoFile /\ base[cur] # NoFile /\ ~CutOff(base[cur])
  /\ data[cur] # NoFile
  /\ LoadClean
  /\ tmp' = [tmp EXCEPT ![cur] = <<>>]
  /\ ostep' = "map"
  /\ UNCHANGED <<base, data, nextOff, fdpos, mu, threads, saving, phase, cur, ret, session, hist>>
\* an index_i.tmp that is there but cannot be opened is taken for none, and not created
OpenCleanFails ==
  /\ phase = "opening" /\ ostep = "look"
  /\ tmp[cur] = NoFile \/ IOFail
  /\ base[cur] # NoFile
  /\ CutOff(base[cur]) \/ data[cur] = NoFile \/ IOFail
  /\ LoadClean \/ (IOFail /\ LoadPart)
  /\ DeleteEngine
  /\ UNCHANGED files

\* index_i.tmp is there: read index_i if there is one that can be opened, then index_i.tmp
\* over it, and remove index_i.tmp; the result is in memory only
LoadTmp(idx) == index' = [index EXCEPT ![cur] = Load(idx, tmp[cur])]
LoadMerged ==
  \/ /\ base[cur] = NoFile \/ IOFail
     /\ LoadTmp(index[cur])
  \/ /\ base[cur] # NoFile /\ ~CutOff(base[cur])
     /\ LoadTmp(Load(index[cur], Records(base[cur])))
OpenMerge ==
  /\ phase = "opening" /\ ostep = "look"
  /\ tmp[cur] # NoFile
  /\ data[cur] # NoFile
  /\ LoadMerged
  /\ tmp' = [tmp EXCEPT ![cur] = NoFile]
  /\ ostep' = "retmp"
  /\ UNCHANGED <<base, data, nextOff, fdpos, mu, threads, saving, phase, cur, ret, session, hist>>
OpenMergeFails ==
  /\ phase = "opening" /\ ostep = "look"
  /\ tmp[cur] # NoFile
  /\ data[cur] = NoFile \/ IOFail
  /\ LoadMerged
  /\ DeleteEngine
  /\ UNCHANGED files
\* the error returns of the merge, without delete: a cut-off index_i, or a read that fails
OpenMergeReturns ==
  /\ phase = "opening" /\ ostep = "look"
  /\ tmp[cur] # NoFile
  /\ IOFail \/ (base[cur] # NoFile /\ CutOff(base[cur]))
  /\ ret' = "kIOError"
  /\ Forget
  /\ UNCHANGED files

\* create data_i, after index_i.tmp of a fresh bucket
OpenMakeData ==
  /\ phase = "opening" /\ ostep = "mkdata"
  /\ data' = [data EXCEPT ![cur] = IF @ = NoFile THEN <<>> ELSE @]
  /\ ostep' = "map"
  /\ UNCHANGED <<base, tmp, mem, threads, saving, phase, cur, ret, session, hist>>
\* create index_i.tmp, after the merged one was removed
OpenMakeTmp ==
  /\ phase = "opening" /\ ostep = "retmp"
  /\ tmp' = [tmp EXCEPT ![cur] = <<>>]
  /\ ostep' = "map"
  /\ UNCHANGED <<base, data, mem, threads, saving, phase, cur, ret, session, hist>>
\* one of these, or the first index_i.tmp, cannot be created
OpenMakeFails ==
  /\ phase = "opening" /\ ostep \in {"look", "mkdata", "retmp"} /\ IOFail
  /\ DeleteEngine
  /\ UNCHANGED <<files, index>>

\* mutants: the loop over the buckets runs once too often; it does not advance
OpenMapOneTooMany ==
  /\ phase = "opening" /\ ostep = "map"
  /\ IF cur <= NB
     THEN cur' = cur + 1 /\ UNCHANGED <<phase, ret>>
     ELSE cur' = 1 /\ phase' = "open" /\ ret' = "kSucc"
  /\ ostep' = "look"
  /\ UNCHANGED <<files, mem, threads, saving, session, hist>>
OpenMapSameBucket ==
  /\ phase = "opening" /\ ostep = "map"
  /\ ostep' = "look"
  /\ UNCHANGED <<files, mem, threads, saving, phase, cur, ret, session, hist>>
\* posix_fallocate, mmap and memset; after the last bucket Open returns
OpenMap ==
  /\ phase = "opening" /\ ostep = "map"
  /\ IF cur < NB
     THEN cur' = cur + 1 /\ UNCHANGED <<phase, ret>>
     ELSE cur' = 1 /\ phase' = "open" /\ ret' = "kSucc"
  /\ ostep' = "look"
  /\ UNCHANGED <<files, mem, threads, saving, session, hist>>
OpenMapReturns ==
  /\ phase = "opening" /\ ostep = "map" /\ IOFail
  /\ ret' = "kIOError"
  /\ Forget
  /\ UNCHANGED files

-----------------------------------------------------------------------------
(* Write: the mutex of the bucket is held from the first step to the last. *)

WriteIndex(t, k, v) ==
  LET b == BucketOf[k] IN
  /\ phase = "open" /\ session \in WriteSession
  /\ pc[t] = "idle" /\ mu[b] = NoThread
  /\ mu' = [mu EXCEPT ![b] = t]
  /\ op' = [op EXCEPT ![t] = [key |-> k, val |-> v]]
  /\ index' = [index EXCEPT ![b][k] = [off |-> nextOff[b], len |-> VLen[v]]]
  /\ pc' = [pc EXCEPT ![t] = "data"]
  /\ UNCHANGED <<files, nextOff, fdpos, saving, loop, hist>>

\* FileAppend at the file position, which is the end of the file only if something
\* moved it there; it may stop after n bytes, and its return value is ignored
WriteData(t) ==
  LET b == BucketOf[op[t].key]
      c == Cells(op[t].val)
  IN
  /\ pc[t] = "data"
  /\ pc' = [pc EXCEPT ![t] = "size"]
  /\ \E n \in 0..Len(c) :
       /\ n < Len(c) => IOFail
       /\ data' = [data EXCEPT ![b] = Overlay(@, fdpos[b], SubSeq(c, 1, n))]
       /\ fdpos' = [fdpos EXCEPT ![b] = @ + n]
  /\ UNCHANGED <<base, tmp, index, nextOff, mu, op, saving, loop, hist>>

\* memcpy of the size: from here on the reader sees a record, with a key that is copied
\* in part or not at all and a location of zeros
WriteSize(t) ==
  LET b == BucketOf[op[t].key] IN
  /\ pc[t] = "size"
  /\ Len(tmp[b]) < ChunkRecords
  /\ \E k \in Torn[op[t].key] :
       tmp' = [tmp EXCEPT ![b] = Append(@, [key |-> k, loc |-> ZeroLoc])]
  /\ pc' = [pc EXCEPT ![t] = "key"]
  /\ UNCHANGED <<base, data, mem, op, saving, loop, hist>>

\* mutant: the mutex is given back before the record is complete
WriteKeyUnlocks(t) ==
  LET b == BucketOf[op[t].key] IN
  /\ pc[t] = "key"
  /\ tmp' = [tmp EXCEPT ![b][Len(tmp[b])].key = op[t].key]
  /\ mu' = [mu EXCEPT ![b] = NoThread]
  /\ pc' = [pc EXCEPT ![t] = "loc"]
  /\ UNCHANGED <<base, data, index, nextOff, fdpos, op, saving, loop, hist>>
WriteKey(t) ==
  LET b == BucketOf[op[t].key] IN
  /\ pc[t] = "key"
  /\ tmp' = [tmp EXCEPT ![b][Len(tmp[b])].key = op[t].key]
  /\ pc' = [pc EXCEPT ![t] = "loc"]
  /\ UNCHANGED <<base, data, mem, op, saving, loop, hist>>

\* mutant: nextLoc does not move
WriteLocSameOffset(t) ==
  LET b == BucketOf[op[t].key]
      n == VLen[op[t].val]
  IN
  /\ pc[t] = "loc"
  /\ tmp' = [tmp EXCEPT ![b][Len(tmp[b])].loc = [off |-> nextOff[b], len |-> n]]
  /\ mu' = [mu EXCEPT ![b] = NoThread]
  /\ pc' = [pc EXCEPT ![t] = "idle"]
  /\ op' = [op EXCEPT ![t] = NoOp]
  /\ acked' = [acked EXCEPT ![op[t].key] = op[t].val]
  /\ saved' = [saved EXCEPT ![op[t].key] = [off |-> nextOff[b], len |-> n]]
  /\ UNCHANGED <<base, data, index, nextOff, fdpos, saving, loop>>
\* memcpy of the location, unlock, return kSucc
WriteLoc(t) ==
  LET b == BucketOf[op[t].key]
      n == VLen[op[t].val]
  IN
  /\ pc[t] = "loc"
  /\ tmp' = [tmp EXCEPT ![b][Len(tmp[b])].loc = [off |-> nextOff[b], len |-> n]]
  /\ nextOff' = [nextOff EXCEPT ![b] = @ + n]
  /\ mu' = [mu EXCEPT ![b] = NoThread]
  /\ pc' = [pc EXCEPT ![t] = "idle"]
  /\ op' = [op EXCEPT ![t] = NoOp]
  /\ acked' = [acked EXCEPT ![op[t].key] = op[t].val]
  /\ saved' = [saved EXCEPT ![op[t].key] = [off |-> nextOff[b], len |-> n]]
  /\ UNCHANGED <<base, data, index, fdpos, saving, loop>>

\* the record does not fit: memcpy runs off the mapping and the process dies
WriteOverflow(t) ==
  LET b == BucketOf[op[t].key] IN
  /\ pc[t] = "size"
  /\ Len(tmp[b]) >= ChunkRecords
  /\ Forget
  /\ UNCHANGED <<files, ret>>

(* Read: find; a key that is not there only takes and releases the mutex. Otherwise lseek *)
(* to the location; then read, lseek to the end, unlock.                                  *)
ReadMiss(t, k) ==
  LET b == BucketOf[k] IN
  /\ phase = "open"
  /\ pc[t] = "idle" /\ mu[b] = NoThread
  /\ index[b][k] = NoLoc
  /\ mu' = [mu EXCEPT ![b] = t]
  /\ op' = [op EXCEPT ![t] = [key |-> k, val |-> NoValue]]
  /\ pc' = [pc EXCEPT ![t] = "miss"]
  /\ UNCHANGED <<files, index, nextOff, fdpos, saving, loop, hist>>
\* mutant: return kNotFound without the unlock
ReadMissedLocked(t) ==
  /\ pc[t] = "miss"
  /\ pc' = [pc EXCEPT ![t] = "idle"]
  /\ op' = [op EXCEPT ![t] = NoOp]
  /\ UNCHANGED <<files, mem, saving, loop, hist>>
\* unlock, return kNotFound
ReadMissed(t) ==
  /\ pc[t] = "miss"
  /\ mu' = [mu EXCEPT ![BucketOf[op[t].key]] = NoThread]
  /\ pc' = [pc EXCEPT ![t] = "idle"]
  /\ op' = [op EXCEPT ![t] = NoOp]
  /\ UNCHANGED <<files, index, nextOff, fdpos, saving, loop, hist>>
ReadSeek(t, k) ==
  LET b == BucketOf[k] IN
  /\ phase = "open"
  /\ pc[t] = "idle" /\ mu[b] = NoThread
  /\ index[b][k] # NoLoc
  /\ mu' = [mu EXCEPT ![b] = t]
  /\ op' = [op EXCEPT ![t] = [key |-> k, val |-> NoValue]]
  /\ fdpos' = [fdpos EXCEPT ![b] = index[b][k].off]
  /\ pc' = [pc EXCEPT ![t] = "read"]
  /\ UNCHANGED <<files, index, nextOff, saving, loop, hist>>

\* what a Read that is at its second step returns
Result(t) ==
  LET b == BucketOf[op[t].key]
  IN  ReadValue(data[b], [off |-> fdpos[b], len |-> index[b][op[t].key].len])

\* mutant: the file position is left behind what was read
ReadFinishNoSeekEnd(t) ==
  LET b == BucketOf[op[t].key] IN
  /\ pc[t] = "read"
  /\ fdpos' = [fdpos EXCEPT ![b] = @ + index[b][op[t].key].len]
  /\ mu' = [mu EXCEPT ![b] = NoThread]
  /\ pc' = [pc EXCEPT ![t] = "idle"]
  /\ op' = [op EXCEPT ![t] = NoOp]
  /\ UNCHANGED <<files, index, nextOff, saving, loop, hist>>
ReadFinish(t) ==
  LET b == BucketOf[op[t].key] IN
  /\ pc[t] = "read"
  /\ fdpos' = [fdpos EXCEPT ![b] = Len(data[b])]
  /\ mu' = [mu EXCEPT ![b] = NoThread]
  /\ pc' = [pc EXCEPT ![t] = "idle"]
  /\ op' = [op EXCEPT ![t] = NoOp]
  /\ UNCHANGED <<files, index, nextOff, saving, loop, hist>>

-----------------------------------------------------------------------------
(* ~EngineRace: per bucket, save the index over index_i (it is not truncated), then *)
(* remove index_i.tmp.                                                              *)
\* mutant: a location at offset 0 is taken for none
SavedNotAtZero(idx) == {k \in Key : idx[k] # NoLoc /\ idx[k] # [ZeroLoc EXCEPT !.len = 1]}
Saved(idx) == {k \in Key : idx[k] # NoLoc}
Orders(S) == {o \in [1..Cardinality(S) -> S] : \A i, j \in DOMAIN o : o[i] = o[j] => i = j}

\* mutant: the destructor does not wait for the callers
CloseInUse ==
  /\ phase = "open"
  /\ phase' = "closing" /\ cur' = 1
  /\ UNCHANGED <<files, mem, threads, saving, ostep, ret, session, hist>>
\* callers do not delete an engine that is in use
Close ==
  /\ phase = "open"
  /\ \A t \in Thread : pc[t] = "idle"
  /\ phase' = "closing" /\ cur' = 1
  /\ UNCHANGED <<files, mem, threads, saving, ostep, ret, session, hist>>

\* mutant: index_i.tmp is removed before the index is saved
SaveOpenRemovesFirst ==
  /\ phase = "closing" /\ ostep = "look"
  /\ base' = [base EXCEPT ![cur] = IF @ = NoFile THEN <<>> ELSE @]
  /\ tmp' = [tmp EXCEPT ![cur] = NoFile]
  /\ todo' \in Orders(Saved(index[cur]))
  /\ fld' = "size" /\ wpos' = 0
  /\ ostep' = "save"
  /\ UNCHANGED <<data, mem, threads, phase, cur, ret, session, hist>>
\* open with O_CREAT; the hash map's order of iteration is not specified
SaveOpen ==
  /\ phase = "closing" /\ ostep = "look"
  /\ base' = [base EXCEPT ![cur] = IF @ = NoFile THEN <<>> ELSE @]
  /\ todo' \in Orders(Saved(index[cur]))
  /\ fld' = "size" /\ wpos' = 0
  /\ ostep' = "save"
  /\ UNCHANGED <<tmp, data, mem, threads, phase, cur, ret, session, hist>>
\* index_i cannot be opened: no append succeeds, and index_i.tmp is removed all the same
SaveOpenFails ==
  /\ phase = "closing" /\ ostep = "look" /\ IOFail
  /\ todo' = <<>> /\ fld' = "size" /\ wpos' = 0
  /\ ostep' = "save"
  /\ UNCHANGED <<files, mem, threads, phase, cur, ret, session, hist>>

\* mutant: the location of the last key is not appended
SaveFieldShort ==
  LET k == Head(todo)
      f == [part |-> fld, rec |-> [key |-> k, loc |-> index[cur][k]]]
      last == fld = "loc" \/ (fld = "key" /\ Len(todo) = 1)
  IN
  /\ phase = "closing" /\ ostep = "save" /\ todo # <<>>
  /\ base' = [base EXCEPT ![cur] = Overlay(@, wpos, <<f>>)]
  /\ wpos' = wpos + 1
  /\ fld' = CASE fld = "size" -> IF k = EmptyKey THEN "loc" ELSE "key"
              [] fld = "key" -> "loc"
              [] fld = "loc" -> "size"
  /\ todo' = IF last THEN Tail(todo) ELSE todo
  /\ UNCHANGED <<tmp, data, mem, threads, loop, hist>>
\* one FileAppend; of the empty key there is nothing to append
SaveField ==
  LET k == Head(todo)
      f == [part |-> fld, rec |-> [key |-> k, loc |-> index[cur][k]]]
  IN
  /\ phase = "closing" /\ ostep = "save" /\ todo # <<>>
  /\ base' = [base EXCEPT ![cur] = Overlay(@, wpos, <<f>>)]
  /\ wpos' = wpos + 1
  /\ fld' = CASE fld = "size" -> IF k = EmptyKey THEN "loc" ELSE "key"
              [] fld = "key" -> "loc"
              [] fld = "loc" -> "size"
  /\ todo' = IF fld = "loc" THEN Tail(todo) ELSE todo
  /\ UNCHANGED <<tmp, data, mem, threads, loop, hist>>
\* an append fails, and so do the others of this bucket
SaveFieldFails ==
  /\ phase = "closing" /\ ostep = "save" /\ todo # <<>> /\ IOFail
  /\ todo' = <<>>
  /\ UNCHANGED <<files, mem, threads, fld, wpos, loop, hist>>

SaveDone ==
  /\ phase = "closing" /\ ostep = "save" /\ todo = <<>>
  /\ tmp' = [tmp EXCEPT ![cur] = NoFile]
  /\ UNCHANGED <<base, data, ret>>
  /\ \/ /\ cur < NB
        /\ cur' = cur + 1 /\ ostep' = "look"
        /\ UNCHANGED <<mem, threads, saving, phase, session, hist>>
     \/ /\ cur = NB
        /\ Forget

-----------------------------------------------------------------------------
(* kill -9; a mapping that is MAP_SHARED and the page cache survive it. *)
KillPoint ==
  IF phase = "open"
  THEN IF \E t \in Thread : pc[t] \in {"key", "loc"} THEN "torn" ELSE "running"
  ELSE phase

Kill ==
  /\ phase # "down"
  /\ <<session, KillPoint>> \in KillIn
  /\ Forget
  /\ UNCHANGED <<files, ret>>

\* the last session is over
Done == phase = "down" /\ session = MaxSession /\ UNCHANGED vars

ReadStep(t) == ReadMissed(t) \/ ReadFinish(t)
OpenStep == OpenFresh \/ OpenClean \/ OpenCleanFails
              \/ OpenMerge \/ OpenMergeFails \/ OpenMergeReturns
              \/ OpenMakeData \/ OpenMakeTmp \/ OpenMakeFails
              \/ OpenMap \/ OpenMapReturns
CloseStep == SaveOpen \/ SaveOpenFails \/ SaveField \/ SaveFieldFails \/ SaveDone
WriteStep(t) == WriteData(t) \/ WriteSize(t) \/ WriteKey(t) \/ WriteLoc(t) \/ WriteOverflow(t)

Next ==
  \/ OpenStart \/ OpenNoDirectory \/ OpenStep
  \/ Close \/ CloseStep
  \/ \E t \in Thread, k \in UserKey :
       ReadMiss(t, k) \/ ReadSeek(t, k) \/ \E v \in Value : WriteIndex(t, k, v)
  \/ \E t \in Thread : WriteStep(t) \/ ReadStep(t)
  \/ Kill
  \/ Done

Spec == Init /\ [][Next]_vars

\* a call that has begun goes on (the threads, Open and the destructor run); nobody has to
\* open, close, read or write
Fairness == /\ \A t \in Thread : WF_vars(WriteStep(t) \/ ReadStep(t))
            /\ WF_vars(OpenStep)
            /\ WF_vars(CloseStep)
FairSpec == Spec /\ Fairness

=============================================================================
