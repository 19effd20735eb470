------------------------ MODULE EngineRaceDiskProofs ------------------------
(* Theorems about what the files of EngineRace hold, for every value of its constants. *)
EXTENDS EngineRaceProofs

-----------------------------------------------------------------------------
(* Reading index_i *)

\* The reader of a file of n whole records, each of a key of its own, takes these records.
LEMMA CompleteRecords ==
  ASSUME NEW f \in Seq(Field), NEW n \in Nat, Len(f) = 3 * n, Complete(f, n)
  PROVE  /\ ~CutOff(f)
         /\ Records(f) \in Seq(Record) /\ Len(Records(f)) = n
         /\ \A j \in 1..n : /\ Records(f)[j].key = NameAt(f, j)
                            /\ Records(f)[j].loc = f[3 * j].rec.loc
<1>1. Len(f) \in Nat
  OBVIOUS
<1>2. ASSUME NEW j \in 1..n PROVE Whole(f, j)
  <2>1. 3 * j <= Len(f)
    BY <1>1
  <2>2. /\ f[3 * j - 2] = [part |-> "size", rec |-> f[3 * j - 1].rec]
        /\ f[3 * j - 1].part = "key" /\ f[3 * j - 1].rec.key # EmptyKey
        /\ f[3 * j] = [part |-> "loc", rec |-> f[3 * j - 1].rec]
    BY DEF Complete, NameAt
  <2>3. f[3 * j - 2].part = "size" /\ f[3 * j - 2].rec = f[3 * j - 1].rec /\ f[3 * j].part = "loc"
    BY <2>2
  <2> QED BY <2>1, <2>2, <2>3 DEF Whole
<1>3. ~Whole(f, n + 1)
  BY <1>1 DEF Whole
<1>4. /\ WholeCount(f) \in Nat
      /\ \A j \in 1..WholeCount(f) : Whole(f, j)
      /\ ~Whole(f, WholeCount(f) + 1)
  BY WholeCountDefined
<1>5. WholeCount(f) = n
  <2> DEFINE w == WholeCount(f)
  <2>1. w \in Nat /\ (\A j \in 1..w : Whole(f, j)) /\ ~Whole(f, w + 1)
    BY <1>4
  <2> HIDE DEF w
  <2>2. ASSUME w < n PROVE FALSE
    <3>1. w + 1 \in 1..n
      BY <2>1, <2>2
    <3> QED BY <1>2, <2>1, <3>1
  <2>3. ASSUME w > n PROVE FALSE
    <3>1. n + 1 \in 1..w
      BY <2>1, <2>3
    <3> QED BY <1>3, <2>1, <3>1
  <2>4. w = n
    BY <2>1, <2>2, <2>3
  <2> QED BY <2>4 DEF w
<1>6. ~CutOff(f)
  <2>1. ~(3 * n + 1 <= Len(f))
    BY <1>1
  <2> DEFINE p == 3 * n + 1
  <2> HIDE DEF p
  <2>2. CutOff(f) <=> p <= Len(f) /\ ~(f[p].part = "size" /\ f[p].rec.key = EmptyKey)
    BY <1>5, Zenon DEF CutOff, p
  <2>3. ~(p <= Len(f))
    BY <2>1 DEF p
  <2> QED BY <2>2, <2>3, Zenon
<1>7. Records(f) = [j \in 1..n |-> [key |-> f[3 * j - 1].rec.key, loc |-> f[3 * j].rec.loc]]
  BY <1>5 DEF Records
<1>8. Records(f) \in Seq(Record)
  BY RecordsType
<1> QED BY <1>6, <1>7, <1>8 DEF NameAt

\* The names in a file of whole records are keys.
LEMMA NamesAreKeys ==
  ASSUME NEW f \in Seq(Field), NEW n \in Nat, Complete(f, n)
  PROVE  \A j \in 1..n : NameAt(f, j) \in Key /\ f[3 * j].rec.loc \in Loc
<1> SUFFICES ASSUME NEW j \in 1..n PROVE NameAt(f, j) \in Key /\ f[3 * j].rec.loc \in Loc
  OBVIOUS
<1>1. 3 * n <= Len(f) /\ Len(f) \in Nat
  BY DEF Complete
<1>2. 3 * j - 1 \in 1..Len(f) /\ 3 * j \in 1..Len(f)
  BY <1>1
<1>3. f[3 * j - 1] \in Field /\ f[3 * j] \in Field
  BY <1>2, ElementOfSeq
<1> QED BY <1>3 DEF NameAt, Field, Record

\* What is loaded from records of which each has a key of its own.
LEMMA LoadDistinct ==
  ASSUME NEW idx, NEW recs \in Seq(Record), \A k \in Key : CStr[k] = k,
         \A i, j \in 1..Len(recs) : recs[i].key = recs[j].key => i = j
  PROVE  /\ \A j \in 1..Len(recs) : Load(idx, recs)[recs[j].key] = recs[j].loc
         /\ \A k \in Key : (\A j \in 1..Len(recs) : recs[j].key # k) => Load(idx, recs)[k] = idx[k]
<1>1. \A j \in 1..Len(recs) : recs[j].key \in Key /\ CStr[recs[j].key] = recs[j].key
  <2>1. \A j \in 1..Len(recs) : recs[j] \in Record
    BY ElementOfSeq
  <2> QED BY <2>1 DEF Record
<1>2. ASSUME NEW j \in 1..Len(recs) PROVE Load(idx, recs)[recs[j].key] = recs[j].loc
  <2>1. \A i \in 1..Len(recs) : i > j => CStr[recs[i].key] # recs[j].key
    BY <1>1
  <2> QED BY <1>1, <2>1, LoadLast
<1>3. ASSUME NEW k \in Key, \A j \in 1..Len(recs) : recs[j].key # k
      PROVE  Load(idx, recs)[k] = idx[k]
  BY <1>1, <1>3 DEF Load, Found
<1> QED BY <1>2, <1>3

\* The same for a file.
LEMMA LoadComplete ==
  ASSUME NEW idx, NEW f \in Seq(Field), NEW n \in Nat, Len(f) = 3 * n, Complete(f, n),
         \A k \in Key : CStr[k] = k
  PROVE  /\ \A j \in 1..n : Load(idx, Records(f))[NameAt(f, j)] = f[3 * j].rec.loc
         /\ \A k \in Key : (\A j \in 1..n : NameAt(f, j) # k) => Load(idx, Records(f))[k] = idx[k]
<1> DEFINE recs == Records(f)
<1>1. /\ recs \in Seq(Record) /\ Len(recs) = n
      /\ \A j \in 1..n : recs[j].key = NameAt(f, j) /\ recs[j].loc = f[3 * j].rec.loc
  BY CompleteRecords
<1>2. \A i, j \in 1..n : NameAt(f, i) = NameAt(f, j) => i = j
  BY DEF Complete
<1> HIDE DEF recs
<1>3. \A i, j \in 1..Len(recs) : recs[i].key = recs[j].key => i = j
  BY <1>1, <1>2
<1>4. /\ \A j \in 1..Len(recs) : Load(idx, recs)[recs[j].key] = recs[j].loc
      /\ \A k \in Key : (\A j \in 1..Len(recs) : recs[j].key # k) => Load(idx, recs)[k] = idx[k]
  BY <1>1, <1>3, LoadDistinct
<1>5. /\ \A j \in 1..n : Load(idx, recs)[NameAt(f, j)] = f[3 * j].rec.loc
      /\ \A k \in Key : (\A j \in 1..n : NameAt(f, j) # k) => Load(idx, recs)[k] = idx[k]
  BY <1>1, <1>4
<1> QED BY <1>5 DEF recs

-----------------------------------------------------------------------------
(* Saving *)

\* An order in which the destructor saves has every key once.
LEMMA OrderOfAll ==
  ASSUME NEW S \in SUBSET Key, NEW o \in Orders(S)
  PROVE  /\ Len(o) = Cardinality(S) /\ Len(o) \in Nat
         /\ \A i, j \in 1..Len(o) : o[i] = o[j] => i = j
         /\ \A k \in S : \E i \in 1..Len(o) : o[i] = k
<1>1. IsFiniteSet(S) /\ Cardinality(S) \in Nat
  BY FS_Subset, FS_CardinalityType, ConstantsAssumption
<1>2. o \in [1..Cardinality(S) -> S] /\ \A i, j \in DOMAIN o : o[i] = o[j] => i = j
  BY DEF Orders
<1>3. o \in Injection(1..Cardinality(S), S)
  BY <1>2 DEF Injection, IsInjective
<1>4. IsFiniteSet(1..Cardinality(S)) /\ Cardinality(1..Cardinality(S)) = Cardinality(S)
  BY <1>1, FS_Interval
<1>5. o \in Surjection(1..Cardinality(S), S)
  BY <1>1, <1>3, <1>4, FS_Injection
<1>6. \A k \in S : \E i \in 1..Cardinality(S) : o[i] = k
  BY <1>5 DEF Surjection
<1>7. Len(o) = Cardinality(S)
  BY <1>1, <1>2
<1> QED BY <1>1, <1>2, <1>6, <1>7

\* A file has no more records with keys of their own than there are keys.
LEMMA NotMoreThanKeys ==
  ASSUME NEW S \in SUBSET Key, NEW f, NEW n \in Nat,
         \A j \in 1..n : NameAt(f, j) \in S,
         \A i, j \in 1..n : NameAt(f, i) = NameAt(f, j) => i = j
  PROVE  n <= Cardinality(S)
<1> DEFINE g == [j \in 1..n |-> NameAt(f, j)]
<1>1. IsFiniteSet(S)
  BY FS_Subset, ConstantsAssumption
<1>2. g \in Injection(1..n, S)
  BY DEF Injection, IsInjective
<1>3. Cardinality(1..n) <= Cardinality(S)
  BY <1>1, <1>2, FS_Injection
<1>4. Cardinality(1..n) = n
  BY FS_Interval
<1> QED BY <1>3, <1>4

\* One field written at or before the end of a file.
LEMMA OverlayOne ==
  ASSUME NEW f \in Seq(Field), NEW p \in Nat, p <= Len(f), NEW x \in Field
  PROVE  LET g == Overlay(f, p, <<x>>) IN
         /\ g \in Seq(Field) /\ g[p + 1] = x
         /\ \A i \in 1..Len(f) : i # p + 1 => g[i] = f[i]
         /\ Len(g) = IF p < Len(f) THEN Len(f) ELSE p + 1
<1> DEFINE m == IF Len(f) > p + 1 THEN Len(f) ELSE p + 1
           g == [i \in 1..m |-> IF i > p /\ i <= p + 1 THEN <<x>>[i - p] ELSE f[i]]
<1>1. Len(f) \in Nat /\ m \in Nat /\ p + 1 \in 1..m /\ \A i \in 1..Len(f) : i \in 1..m
  OBVIOUS
<1>2. Overlay(f, p, <<x>>) = g
  BY DEF Overlay
<1>3. g \in Seq(Field)
  BY <1>2, OverlayType
<1>4. Len(g) = m
  BY <1>1
<1>5. g[p + 1] = x
  BY <1>1
<1>6. \A i \in 1..Len(f) : i # p + 1 => g[i] = f[i]
  BY <1>1
<1>7. m = IF p < Len(f) THEN Len(f) ELSE p + 1
  BY <1>1
<1> HIDE DEF m, g
<1> QED BY <1>2, <1>3, <1>4, <1>5, <1>6, <1>7

-----------------------------------------------------------------------------
(* What a step leaves alone *)

\* A bucket whose index_i nobody writes keeps its records.
LEMMA BaseFrame ==
  ASSUME NEW b \in Bucket, base'[b] = base[b], base[b] \in Seq(Field),
         Loaded(b)' => Loaded(b) /\ \A k \in Key : index[b][k] # NoLoc => index'[b][k] # NoLoc,
         (phase = "closing" /\ b < cur)' => phase = "closing" /\ b < cur /\ index'[b] = index[b],
         \E n \in 0..Len(base[b]) : BaseIs(b, n)
  PROVE  \E n \in 0..Len(base[b]) : BaseIs(b, n)'
<1>1. PICK n \in 0..Len(base[b]) : BaseIs(b, n)
  OBVIOUS
<1>2. Len(base'[b]) = 3 * n /\ Complete(base'[b], n)
  BY <1>1 DEF BaseIs
<1>3. \A j \in 1..n : NameAt(base[b], j) \in Key
  BY <1>1, NamesAreKeys DEF BaseIs
<1>4. Loaded(b)' => \A j \in 1..n : index'[b][NameAt(base'[b], j)] # NoLoc
  BY <1>1, <1>3 DEF BaseIs
<1>5. (phase = "closing" /\ b < cur)' =>
         /\ Agrees(base'[b], n, index'[b])
         /\ \A k \in Key : index'[b][k] # NoLoc => \E j \in 1..n : NameAt(base'[b], j) = k
  BY <1>1 DEF BaseIs
<1>6. BaseIs(b, n)'
  BY <1>2, <1>4, <1>5 DEF BaseIs
<1> QED BY <1>6

\* A bucket whose index_i.tmp nobody writes keeps its part of the invariant.
LEMMA FilesFrame ==
  ASSUME NEW b \in Bucket, FilesAt(b), tmp'[b] = tmp[b],
         index'[b][EmptyKey] = NoLoc,
         base'[b] # NoFile => base[b] # NoFile,
         data[b] # NoFile => data'[b] # NoFile,
         Making(b) => Making(b)' \/ data'[b] # NoFile,
         Making(b)' => base'[b] = NoFile,
         \A i : Unfinished(b, i) => Unfinished(b, i)'
  PROVE  FilesAt(b)'
BY DEF FilesAt

\* While nobody is inside a call no record is unfinished.
LEMMA NoneUnfinished ==
  ASSUME \A t \in Thread : pc[t] \notin {"key", "loc"}
  PROVE  \A b, i : ~Unfinished(b, i)
BY DEF Unfinished

\* Loading records keeps what is there.
LEMMA LoadKeeps ==
  ASSUME NEW idx, NEW recs \in Seq(Record), NEW k \in Key, \A c \in Key : CStr[c] = c
  PROVE  /\ idx[k] # NoLoc => Load(idx, recs)[k] # NoLoc
         /\ (\A i \in 1..Len(recs) : recs[i].key # k) => Load(idx, recs)[k] = idx[k]
<1>1. \A j \in 1..Len(recs) : recs[j].key \in Key /\ recs[j].loc \in Loc
  <2>1. \A j \in 1..Len(recs) : recs[j] \in Record
    BY ElementOfSeq
  <2> QED BY <2>1 DEF Record
<1>2. Load(idx, recs)[k] = IF Found(recs, k) THEN recs[LastOf(recs, k)].loc ELSE idx[k]
  BY DEF Load
<1>3. Found(recs, k) => recs[LastOf(recs, k)].loc # NoLoc
  BY <1>1, LastOfIsLast, SentinelsAssumption
<1>4. Found(recs, k) => \E i \in 1..Len(recs) : recs[i].key = k
  BY <1>1 DEF Found
<1> QED BY <1>2, <1>3, <1>4, Zenon

-----------------------------------------------------------------------------
(* Open *)

\* No step of Open can fail: no call does, and the files are what it expects.
LEMMA OpenFailsNever ==
  ASSUME Undisturbed, ControlInv, DiskInv,
         OpenCleanFails \/ OpenMergeFails \/ OpenMergeReturns \/ OpenMakeFails \/ OpenMapReturns
           \/ OpenNoDirectory
  PROVE  FALSE
<1>1. ~IOFail
  BY DEF Undisturbed
<1>2. CASE OpenCleanFails \/ OpenMergeFails \/ OpenMergeReturns
  <2>1. phase = "opening" /\ ostep = "look" /\ cur \in Bucket /\ (tmp[cur] # NoFile \/ base[cur] # NoFile)
    BY <1>2 DEF OpenCleanFails, OpenMergeFails, OpenMergeReturns, ControlInv, TypeOK
  <2>2. data[cur] # NoFile
    BY <2>1 DEF DiskInv, FilesAt, Making
  <2>3. base[cur] # NoFile => ~CutOff(base[cur])
    <3> SUFFICES ASSUME base[cur] # NoFile PROVE ~CutOff(base[cur])
      OBVIOUS
    <3>1. PICK n \in 0..Len(base[cur]) : BaseIs(cur, n)
      BY <2>1 DEF DiskInv, Saving
    <3>2. base[cur] \in Seq(Field)
      BY <2>1 DEF ControlInv, TypeOK, FileOf
    <3>3. n \in Nat /\ Len(base[cur]) = 3 * n /\ Complete(base[cur], n)
      BY <3>1, <3>2 DEF BaseIs
    <3> QED BY <3>2, <3>3, CompleteRecords
  <2> QED BY <1>1, <1>2, <2>1, <2>2, <2>3 DEF OpenCleanFails, OpenMergeFails, OpenMergeReturns
<1>3. CASE OpenMakeFails \/ OpenMapReturns \/ OpenNoDirectory
  BY <1>1, <1>3 DEF OpenMakeFails, OpenMapReturns, OpenNoDirectory
<1> QED BY <1>2, <1>3

\* What is loaded from index_i: everything that it names, and not the empty key.
LEMMA BaseLoaded ==
  ASSUME NEW b \in Bucket, base[b] \in Seq(Field), NEW n \in Nat, BaseIs(b, n), NEW idx,
         \A k \in Key : CStr[k] = k
  PROVE  /\ \A j \in 1..n : Load(idx, Records(base[b]))[NameAt(base[b], j)] # NoLoc
         /\ Load(idx, Records(base[b]))[EmptyKey] = idx[EmptyKey]
<1>1. Len(base[b]) = 3 * n /\ Complete(base[b], n)
  BY DEF BaseIs
<1>2. /\ \A j \in 1..n : Load(idx, Records(base[b]))[NameAt(base[b], j)] = base[b][3 * j].rec.loc
      /\ \A k \in Key : (\A j \in 1..n : NameAt(base[b], j) # k) => Load(idx, Records(base[b]))[k] = idx[k]
  BY <1>1, LoadComplete
<1>3. \A j \in 1..n : base[b][3 * j].rec.loc # NoLoc
  BY <1>1, NamesAreKeys, SentinelsAssumption
<1>4. EmptyKey \in Key /\ \A j \in 1..n : NameAt(base[b], j) # EmptyKey
  BY <1>1, ConstantsAssumption DEF Complete
<1> QED BY <1>2, <1>3, <1>4, Zenon

\* What a step of Open that does not fail has to establish.
LEMMA OpenFrame ==
  ASSUME ControlInv, DiskInv, phase \in {"down", "opening"}, phase' \in {"opening", "open"},
         ret' # "kIOError", UNCHANGED base,
         \A b \in Bucket : FilesAt(b)',
         \A b \in Bucket : base[b] # NoFile /\ Loaded(b)' =>
           \/ Loaded(b) /\ index'[b] = index[b]
           \/ \A n \in Nat, j \in Nat : BaseIs(b, n) /\ j \in 1..n
                                          => index'[b][NameAt(base[b], j)] # NoLoc
  PROVE  DiskInv'
<1>1. OpenSucceeds' /\ ClosingInv' /\ ~Saving(cur)' /\ \A b \in Bucket : ~Saving(b)'
  BY DEF OpenSucceeds, ClosingInv, Saving
<1>2. ASSUME NEW b \in Bucket, base[b] # NoFile PROVE \E n \in 0..Len(base'[b]) : BaseIs(b, n)'
  <2>1. PICK n \in 0..Len(base[b]) : BaseIs(b, n)
    BY <1>2 DEF DiskInv, Saving
  <2>2. base[b] \in Seq(Field) /\ n \in Nat
    BY <1>2 DEF ControlInv, TypeOK, FileOf
  <2>3. ASSUME Loaded(b)', NEW j \in 1..n PROVE index'[b][NameAt(base[b], j)] # NoLoc
    <3>1. CASE Loaded(b) /\ index'[b] = index[b]
      BY <2>1, <3>1 DEF BaseIs
    <3> QED BY <1>2, <2>1, <2>2, <2>3, <3>1
  <2>4. BaseIs(b, n)'
    BY <2>1, <2>3 DEF BaseIs
  <2> QED BY <2>1, <2>4
<1> QED BY <1>1, <1>2 DEF DiskInv

\* A step of Open preserves the invariant of the files.
LEMMA OpenDisk ==
  ASSUME Undisturbed, ControlInv, DiskInv, OpenStart \/ OpenNoDirectory \/ OpenStep
  PROVE  DiskInv'
<1>0. /\ phase \in {"down", "opening"} /\ \A t \in Thread : pc[t] = "idle"
      /\ \A b \in Bucket : FilesAt(b)
      /\ cur \in Bucket /\ 1 \in Bucket /\ Bucket \subseteq Nat
  <2>1. phase \in {"down", "opening"}
    BY DEF OpenStart, OpenNoDirectory, OpenStep, OpenFresh, OpenClean, OpenCleanFails, OpenMerge,
       OpenMergeFails, OpenMergeReturns, OpenMakeData, OpenMakeTmp, OpenMakeFails, OpenMap,
       OpenMapReturns
  <2>2. \A t \in Thread : pc[t] = "idle"
    BY <2>1, NobodyOutside
  <2>3. \A b \in Bucket : FilesAt(b)
    BY DEF DiskInv
  <2>4. cur \in Bucket /\ 1 \in Bucket /\ Bucket \subseteq Nat
    BY ConstantsAssumption DEF ControlInv, TypeOK, Bucket
  <2> QED BY <2>1, <2>2, <2>3, <2>4
<1>1. ~(OpenCleanFails \/ OpenMergeFails \/ OpenMergeReturns \/ OpenMakeFails \/ OpenMapReturns
          \/ OpenNoDirectory)
  BY OpenFailsNever
<1>2. \A b, i : ~Unfinished(b, i)
  BY <1>0, NoneUnfinished
<1>3. <<>> # NoFile /\ Len(<<>>) = 0
  BY SentinelsAssumption, EmptySeq
<1>4. CASE OpenStart
  <2>1. /\ phase = "down" /\ phase' = "opening" /\ cur' = 1 /\ ostep' = "look" /\ ret' = "none"
        /\ UNCHANGED <<base, tmp, data, index>>
    BY <1>4 DEF OpenStart, files
  <2>2. ASSUME NEW b \in Bucket PROVE FilesAt(b)'
    <3>1. FilesAt(b) /\ index[b][EmptyKey] = NoLoc
      BY <1>0 DEF FilesAt
    <3> QED BY <1>2, <2>1, <3>1, FilesFrame DEF Making
  <2>3. \A b \in Bucket : ~Loaded(b)'
    BY <2>1 DEF Loaded, Bucket
  <2> QED BY <1>0, <2>1, <2>2, <2>3, OpenFrame
<1>5. CASE OpenFresh
  <2>1. /\ phase = "opening" /\ ostep = "look" /\ tmp' = [tmp EXCEPT ![cur] = <<>>]
        /\ base[cur] = NoFile /\ ostep' = "mkdata" /\ UNCHANGED <<base, data, index, phase, cur, ret>>
    BY <1>5 DEF OpenFresh, mem, Undisturbed
  <2>2. ASSUME NEW b \in Bucket PROVE FilesAt(b)'
    <3>0. FilesAt(b) /\ index'[b][EmptyKey] = NoLoc
      BY <1>0, <2>1 DEF FilesAt
    <3>1. CASE b = cur
      <4>1. tmp'[b] = <<>>
        BY <2>1, <3>1 DEF ControlInv, TypeOK
      <4> QED BY <1>3, <2>1, <3>0, <3>1, <4>1 DEF FilesAt, Making
    <3>2. CASE b # cur
      <4>1. tmp'[b] = tmp[b]
        BY <2>1, <3>2
      <4> QED BY <1>2, <2>1, <3>0, <3>2, <4>1, FilesFrame DEF Making
    <3> QED BY <3>1, <3>2
  <2>3. \A b \in Bucket : Loaded(b)' => Loaded(b)
    BY <2>1 DEF Loaded
  <2>4. ret' # "kIOError" /\ phase' = "opening"
    BY <2>1 DEF DiskInv, OpenSucceeds
  <2> QED BY <1>0, <2>1, <2>2, <2>3, <2>4, OpenFrame
<1>6. CASE OpenMakeData
  <2>1. /\ phase = "opening" /\ ostep = "mkdata" /\ ostep' = "map"
        /\ data' = [data EXCEPT ![cur] = IF @ = NoFile THEN <<>> ELSE @]
        /\ UNCHANGED <<base, tmp, index, phase, cur, ret>>
    BY <1>6 DEF OpenMakeData, mem
  <2>2. ASSUME NEW b \in Bucket PROVE FilesAt(b)'
    <3>0. FilesAt(b) /\ index'[b][EmptyKey] = NoLoc
      BY <1>0, <2>1 DEF FilesAt
    <3>1. data[b] # NoFile \/ b = cur => data'[b] # NoFile
      <4>1. NoFile \notin Seq(Cell) /\ <<>> \in Seq(Cell)
        BY SentinelsAssumption, EmptySeq
      <4> QED BY <2>1, <4>1 DEF ControlInv, TypeOK
    <3> QED BY <1>2, <2>1, <3>0, <3>1, FilesFrame DEF Making
  <2>3. \A b \in Bucket : Loaded(b)' => Loaded(b) \/ b = cur
    BY <2>1 DEF Loaded
  <2>4. ret' # "kIOError" /\ phase' = "opening"
    BY <2>1 DEF DiskInv, OpenSucceeds
  <2>5. base[cur] = NoFile
    BY <1>0, <2>1 DEF FilesAt, Making
  <2> QED BY <1>0, <2>1, <2>2, <2>3, <2>4, <2>5, OpenFrame
<1>7. CASE OpenMakeTmp
  <2>1. /\ phase = "opening" /\ ostep = "retmp" /\ ostep' = "map"
        /\ tmp' = [tmp EXCEPT ![cur] = <<>>]
        /\ UNCHANGED <<base, data, index, phase, cur, ret>>
    BY <1>7 DEF OpenMakeTmp, mem
  <2>2. ASSUME NEW b \in Bucket PROVE FilesAt(b)'
    <3>0. FilesAt(b) /\ index'[b][EmptyKey] = NoLoc
      BY <1>0, <2>1 DEF FilesAt
    <3>1. CASE b = cur
      <4>1. tmp'[b] = <<>> /\ data[b] # NoFile
        BY <2>1, <3>1 DEF ControlInv, TypeOK, LoopInv
      <4> QED BY <1>3, <2>1, <3>0, <3>1, <4>1 DEF FilesAt, Making
    <3>2. CASE b # cur
      <4>1. tmp'[b] = tmp[b]
        BY <2>1, <3>2
      <4> QED BY <1>2, <2>1, <3>0, <3>2, <4>1, FilesFrame DEF Making
    <3> QED BY <3>1, <3>2
  <2>3. \A b \in Bucket : Loaded(b)' => Loaded(b)
    BY <2>1 DEF Loaded
  <2>4. ret' # "kIOError" /\ phase' = "opening"
    BY <2>1 DEF DiskInv, OpenSucceeds
  <2> QED BY <1>0, <2>1, <2>2, <2>3, <2>4, OpenFrame
<1>8. CASE OpenMap
  <2>1. /\ phase = "opening" /\ ostep = "map" /\ ostep' = "look"
        /\ \/ cur < NB /\ cur' = cur + 1 /\ UNCHANGED <<phase, ret>>
           \/ cur >= NB /\ cur' = 1 /\ phase' = "open" /\ ret' = "kSucc"
        /\ UNCHANGED <<base, tmp, data, index>>
    <3>1. cur < NB \/ cur >= NB
      BY <1>0, ConstantsAssumption DEF Bucket
    <3> QED BY <1>8, <3>1 DEF OpenMap, mem, files
  <2>2. ASSUME NEW b \in Bucket PROVE FilesAt(b)'
    <3>0. FilesAt(b) /\ index'[b][EmptyKey] = NoLoc
      BY <1>0, <2>1 DEF FilesAt
    <3> QED BY <1>2, <2>1, <3>0, FilesFrame DEF Making
  <2>3. \A b \in Bucket : Loaded(b)' => Loaded(b)
    <3>1. \A b \in Bucket : b < cur \/ b = cur \/ b >= cur + 1
      BY <1>0 DEF Bucket
    <3>2. cur >= NB => \A b \in Bucket : b <= cur
      BY <1>0, ConstantsAssumption DEF Bucket
    <3>3. \A b \in Bucket : ~(b < cur /\ b >= cur + 1) /\ (b < cur + 1 => b <= cur)
      BY <1>0 DEF Bucket
    <3>4. \A b \in Bucket : b <= cur => Loaded(b)
      BY <1>0, <2>1 DEF Loaded, Bucket
    <3>5. \A b \in Bucket : Loaded(b)' => b <= cur
      BY <2>1, <3>2, <3>3 DEF Loaded
    <3> QED BY <3>4, <3>5
  <2>4. ret' # "kIOError" /\ phase' \in {"opening", "open"}
    BY <2>1 DEF DiskInv, OpenSucceeds
  <2> QED BY <1>0, <2>1, <2>2, <2>3, <2>4, OpenFrame
<1>9. CASE OpenClean
  <2>1. /\ phase = "opening" /\ ostep = "look" /\ ostep' = "map" /\ base[cur] # NoFile
        /\ data[cur] # NoFile /\ tmp' = [tmp EXCEPT ![cur] = <<>>]
        /\ index' = [index EXCEPT ![cur] = Load(@, Records(base[cur]))]
        /\ UNCHANGED <<base, data, phase, cur, ret>>
    BY <1>9 DEF OpenClean, LoadClean
  <2>2. base[cur] \in Seq(Field) /\ index'[cur] = Load(index[cur], Records(base[cur]))
    BY <2>1 DEF ControlInv, TypeOK, FileOf
  <2>3. PICK n \in 0..Len(base[cur]) : BaseIs(cur, n)
    BY <1>0, <2>1 DEF DiskInv, Saving
  <2>4. index'[cur][EmptyKey] = NoLoc
    BY <1>0, <2>2, <2>3, BaseLoaded DEF Undisturbed, FilesAt
  <2>5. ASSUME NEW b \in Bucket PROVE FilesAt(b)'
    <3>0. FilesAt(b) /\ index'[b][EmptyKey] = NoLoc
      BY <1>0, <2>1, <2>4 DEF FilesAt, ControlInv, TypeOK
    <3>1. CASE b = cur
      <4>1. tmp'[b] = <<>>
        BY <2>1, <3>1 DEF ControlInv, TypeOK
      <4> QED BY <1>3, <2>1, <3>0, <3>1, <4>1 DEF FilesAt, Making
    <3>2. CASE b # cur
      <4>1. tmp'[b] = tmp[b]
        BY <2>1, <3>2
      <4> QED BY <1>2, <2>1, <3>0, <3>2, <4>1, FilesFrame DEF Making
    <3> QED BY <3>1, <3>2
  <2>6. ASSUME NEW m \in Nat, NEW j \in 1..m, BaseIs(cur, m)
        PROVE  index'[cur][NameAt(base[cur], j)] # NoLoc
    <3>1. \A k \in Key : CStr[k] = k
      BY DEF Undisturbed
    <3>2. cur \in Bucket /\ base[cur] \in Seq(Field)
      BY <1>0, <2>2
    <3>3. Load(index[cur], Records(base[cur]))[NameAt(base[cur], j)] # NoLoc
      BY <2>6, <3>1, <3>2, BaseLoaded
    <3> QED BY <2>2, <3>3
  <2>7. \A b \in Bucket : b # cur /\ Loaded(b)' => Loaded(b) /\ index'[b] = index[b]
    BY <2>1 DEF Loaded
  <2>8. ret' # "kIOError" /\ phase' = "opening"
    BY <2>1 DEF DiskInv, OpenSucceeds
  <2> QED BY <1>0, <2>1, <2>5, <2>6, <2>7, <2>8, OpenFrame
<1>10. CASE OpenMerge
  <2> DEFINE old == IF base[cur] = NoFile THEN index[cur] ELSE Load(index[cur], Records(base[cur]))
  <2>1. /\ phase = "opening" /\ ostep = "look" /\ ostep' = "retmp" /\ tmp[cur] # NoFile
        /\ data[cur] # NoFile /\ tmp' = [tmp EXCEPT ![cur] = NoFile]
        /\ index' = [index EXCEPT ![cur] = Load(old, tmp[cur])]
        /\ UNCHANGED <<base, data, phase, cur, ret>>
    BY <1>10 DEF OpenMerge, LoadMerged, LoadTmp, Undisturbed
  <2>2. /\ tmp[cur] \in Seq(Record) /\ base[cur] \in Seq(Field) \cup {NoFile}
        /\ index'[cur] = Load(old, tmp[cur])
    BY <1>0, <2>1 DEF ControlInv, TypeOK, FileOf
  <2>3. \A k \in Key : CStr[k] = k
    BY DEF Undisturbed
  <2>4. old[EmptyKey] = NoLoc
    <3>1. index[cur][EmptyKey] = NoLoc
      BY <1>0 DEF FilesAt
    <3>2. ASSUME base[cur] # NoFile PROVE Load(index[cur], Records(base[cur]))[EmptyKey] = NoLoc
      <4>1. PICK n \in 0..Len(base[cur]) : BaseIs(cur, n)
        BY <1>0, <2>1, <3>2 DEF DiskInv, Saving
      <4>2. base[cur] \in Seq(Field) /\ n \in Nat
        BY <2>2, <3>2
      <4> QED BY <1>0, <2>3, <3>1, <4>1, <4>2, BaseLoaded
    <3> QED BY <3>1, <3>2
  <2>5. index'[cur][EmptyKey] = NoLoc
    <3>1. \A i \in 1..Len(tmp[cur]) : tmp[cur][i].key # EmptyKey
      BY <1>0, <1>2, <2>1 DEF FilesAt
    <3>2. EmptyKey \in Key
      BY ConstantsAssumption
    <3> HIDE DEF old
    <3>3. Load(old, tmp[cur])[EmptyKey] = old[EmptyKey]
      BY <2>2, <2>3, <3>1, <3>2, LoadKeeps
    <3> QED BY <2>2, <2>4, <3>3
  <2>6. ASSUME NEW b \in Bucket PROVE FilesAt(b)'
    <3>0. FilesAt(b) /\ index'[b][EmptyKey] = NoLoc
      BY <1>0, <2>1, <2>5 DEF FilesAt, ControlInv, TypeOK
    <3>1. CASE b = cur
      <4>1. tmp'[b] = NoFile
        BY <2>1, <3>1 DEF ControlInv, TypeOK
      <4> QED BY <2>1, <3>0, <3>1, <4>1 DEF FilesAt, Making
    <3>2. CASE b # cur
      <4>1. tmp'[b] = tmp[b]
        BY <2>1, <3>2
      <4> QED BY <1>2, <2>1, <3>0, <3>2, <4>1, FilesFrame DEF Making
    <3> QED BY <3>1, <3>2
  <2>7. ASSUME base[cur] # NoFile, NEW m \in Nat, NEW j \in 1..m, BaseIs(cur, m)
        PROVE  index'[cur][NameAt(base[cur], j)] # NoLoc
    <3>1. base[cur] \in Seq(Field)
      BY <2>2, <2>7
    <3>2. old[NameAt(base[cur], j)] # NoLoc
      BY <1>0, <2>3, <2>7, <3>1, BaseLoaded
    <3>3. NameAt(base[cur], j) \in Key
      BY <2>7, <3>1, NamesAreKeys DEF BaseIs
    <3> HIDE DEF old
    <3> QED BY <2>2, <2>3, <3>2, <3>3, LoadKeeps
  <2>8. \A b \in Bucket : b # cur /\ Loaded(b)' => Loaded(b) /\ index'[b] = index[b]
    BY <2>1 DEF Loaded
  <2>9. ret' # "kIOError" /\ phase' = "opening"
    BY <2>1 DEF DiskInv, OpenSucceeds
  <2> QED BY <1>0, <2>1, <2>6, <2>7, <2>8, <2>9, OpenFrame
<1> QED BY <1>1, <1>4, <1>5, <1>6, <1>7, <1>8, <1>9, <1>10 DEF OpenStep

-----------------------------------------------------------------------------
(* Read and Write *)

\* What a step of a call has to establish: index_i is not touched while callers use the engine.
LEMMA CallFrame ==
  ASSUME ControlInv, DiskInv, phase = "open", phase' = "open", UNCHANGED <<base, ret>>,
         \A b \in Bucket : FilesAt(b)',
         \A b \in Bucket, k \in Key : index[b][k] # NoLoc => index'[b][k] # NoLoc
  PROVE  DiskInv'
<1>1. OpenSucceeds' /\ ClosingInv' /\ ~Saving(cur)' /\ \A b \in Bucket : ~Saving(b)'
  BY DEF DiskInv, OpenSucceeds, ClosingInv, Saving
<1>2. ASSUME NEW b \in Bucket, base'[b] # NoFile PROVE \E n \in 0..Len(base'[b]) : BaseIs(b, n)'
  <2>1. base[b] # NoFile /\ base'[b] = base[b] /\ base[b] \in Seq(Field)
    BY <1>2 DEF ControlInv, TypeOK, FileOf
  <2>2. \E n \in 0..Len(base[b]) : BaseIs(b, n)
    BY <2>1 DEF DiskInv, Saving
  <2>3. Loaded(b) /\ ~(phase = "closing" /\ b < cur)'
    BY DEF Loaded
  <2> QED BY <2>1, <2>2, <2>3, BaseFrame
<1> QED BY <1>1, <1>2 DEF DiskInv

\* A call that touches neither index_i.tmp nor data_i.
LEMMA QuietCall ==
  ASSUME ControlInv, DiskInv, phase = "open", UNCHANGED <<base, tmp, phase, ret>>,
         \A b \in Bucket : data[b] # NoFile => data'[b] # NoFile,
         \A b \in Bucket, k \in Key : index[b][k] # NoLoc => index'[b][k] # NoLoc,
         \A b \in Bucket : index'[b][EmptyKey] = index[b][EmptyKey],
         \A s \in Thread : pc[s] \in {"key", "loc"} => pc'[s] = pc[s] /\ op'[s] = op[s]
  PROVE  DiskInv'
<1>1. ASSUME NEW b \in Bucket PROVE FilesAt(b)'
  <2>1. FilesAt(b) /\ index'[b][EmptyKey] = NoLoc /\ ~Making(b)'
    BY DEF DiskInv, FilesAt, Making
  <2>2. \A i : Unfinished(b, i) => Unfinished(b, i)'
    BY DEF Unfinished
  <2> QED BY <2>1, <2>2, FilesFrame DEF Making
<1> QED BY <1>1, CallFrame

\* A step of Read preserves the invariant of the files.
LEMMA ReadDisk ==
  ASSUME ControlInv, DiskInv, NEW t \in Thread, ReadStep(t) \/ \E k \in UserKey : ReadMiss(t, k) \/ ReadSeek(t, k)
  PROVE  DiskInv'
<1>1. /\ phase = "open" /\ UNCHANGED <<base, tmp, data, index, phase, ret>>
      /\ pc[t] \notin {"key", "loc"}
      /\ \A s \in Thread : s # t => pc'[s] = pc[s] /\ op'[s] = op[s]
  BY DEF ReadStep, ReadMissed, ReadFinish, ReadMiss, ReadSeek, ControlInv, TypeOK, ThreadInv, files, loop
<1> QED BY <1>1, QuietCall

\* A step of Write that touches index_i.tmp touches that of its bucket.
LEMMA LoggingStep ==
  ASSUME ControlInv, DiskInv, NEW t \in Thread, pc[t] # "idle",
         NEW b \in Bucket, b = BucketOf[op[t].key],
         UNCHANGED <<base, data, index, phase, ret>>,
         \A s \in Thread : s # t => pc'[s] = pc[s] /\ op'[s] = op[s],
         \A d \in Bucket : d # b => tmp'[d] = tmp[d],
         \A i \in 1..Len(tmp'[b]) : Unfinished(b, i)' \/ tmp'[b][i].key # EmptyKey
  PROVE  DiskInv'
<1>1. phase = "open" /\ b \in Bucket
  BY InsideCall
<1>2. ASSUME NEW d \in Bucket PROVE FilesAt(d)'
  <2>1. FilesAt(d) /\ index'[d][EmptyKey] = NoLoc /\ ~Making(d) /\ ~Making(d)'
    BY <1>1 DEF DiskInv, FilesAt, Making
  <2>2. CASE d = b
    <3>1. tmp[d] # NoFile
      BY <1>1, <2>2 DEF ControlInv, LoopInv
    <3>2. data[d] # NoFile
      BY <2>1, <3>1 DEF FilesAt
    <3> QED BY <2>1, <2>2, <3>2 DEF FilesAt
  <2>3. CASE d # b
    <3>1. ASSUME NEW i, Unfinished(d, i) PROVE Unfinished(d, i)'
      BY <2>3, <3>1 DEF Unfinished
    <3> QED BY <2>1, <2>3, <3>1, FilesFrame
  <2> QED BY <2>2, <2>3
<1> QED BY <1>1, <1>2, CallFrame

\* The three copies into index_i.tmp preserve the invariant of the files.
LEMMA LoggingDisk ==
  ASSUME ControlInv, LogInv, DiskInv, NEW t \in Thread, NEW b \in Bucket, b = BucketOf[op[t].key],
         WriteSize(t) \/ WriteKey(t) \/ WriteLoc(t)
  PROVE  DiskInv'
<1>1. CASE WriteSize(t)
  <2>0. /\ b \in Bucket /\ phase = "open" /\ tmp[b] \in Seq(Record) /\ tmp[b] # NoFile
        /\ Len(tmp[b]) \in Nat
        /\ \A s \in Thread : s # t /\ pc[s] # "idle" => BucketOf[op[s].key] # b
    <3>1. pc[t] # "idle"
      BY <1>1 DEF WriteSize
    <3>2. /\ b \in Bucket /\ phase = "open" /\ tmp[b] \in Seq(Record)
          /\ \A s \in Thread : s # t /\ pc[s] # "idle" => BucketOf[op[s].key] # b
      BY <3>1, InsideCall
    <3> QED BY <3>2, SentinelsAssumption
  <2>1. PICK r : tmp' = [tmp EXCEPT ![b] = Append(@, r)]
    BY <1>1 DEF WriteSize
  <2>2. /\ pc[t] = "size" /\ pc' = [pc EXCEPT ![t] = "key"]
        /\ UNCHANGED <<base, data, index, op, phase, ret>>
    BY <1>1 DEF WriteSize, mem, loop
  <2>3. \A s \in Thread : pc'[s] = IF s = t THEN "key" ELSE pc[s]
    BY <2>2 DEF ControlInv, TypeOK
  <2>4. tmp'[b] = Append(tmp[b], r) /\ \A d \in Bucket : d # b => tmp'[d] = tmp[d]
    BY <2>0, <2>1 DEF ControlInv, TypeOK
  <2>5. Len(tmp'[b]) = Len(tmp[b]) + 1 /\ \A i \in 1..Len(tmp[b]) : tmp'[b][i] = tmp[b][i]
    BY <2>0, <2>4
  <2>6. \A i : ~Unfinished(b, i)
    BY <2>0, <2>2 DEF Unfinished
  <2>7. \A i \in 1..Len(tmp[b]) : tmp[b][i].key # EmptyKey
    BY <2>0, <2>6 DEF DiskInv, FilesAt
  <2>8. \A i : i = Len(tmp'[b]) => Unfinished(b, i)'
    BY <2>2, <2>3 DEF Unfinished
  <2>9. \A i \in 1..Len(tmp'[b]) : Unfinished(b, i)' \/ tmp'[b][i].key # EmptyKey
    BY <2>0, <2>5, <2>7, <2>8
  <2>10. /\ pc[t] # "idle" /\ UNCHANGED <<base, data, index, phase, ret>>
         /\ \A s \in Thread : s # t => pc'[s] = pc[s] /\ op'[s] = op[s]
    BY <2>2, <2>3
  <2> QED BY <2>4, <2>9, <2>10, LoggingStep
<1>2. CASE WriteKey(t)
  <2>0. /\ b \in Bucket /\ phase = "open" /\ tmp[b] \in Seq(Record) /\ tmp[b] # NoFile
        /\ op[t].key \in Key /\ Len(tmp[b]) > 0 /\ Len(tmp[b]) \in Nat
    <3>1. pc[t] = "key" /\ WriterInv(t)
      BY <1>2 DEF WriteKey, LogInv
    <3> QED BY <3>1, InsideCall, SentinelsAssumption DEF WriterInv
  <2>1. /\ tmp' = [tmp EXCEPT ![b][Len(tmp[b])].key = op[t].key]
        /\ pc[t] = "key" /\ pc' = [pc EXCEPT ![t] = "loc"]
        /\ UNCHANGED <<base, data, index, op, phase, ret>>
    BY <1>2 DEF WriteKey, mem, loop
  <2>2. /\ tmp'[b] = [tmp[b] EXCEPT ![Len(tmp[b])].key = op[t].key]
        /\ \A d \in Bucket : d # b => tmp'[d] = tmp[d]
    BY <2>0, <2>1 DEF ControlInv, TypeOK
  <2>3. Len(tmp'[b]) = Len(tmp[b]) /\ \A i \in 1..Len(tmp[b]) : i # Len(tmp[b]) => tmp'[b][i] = tmp[b][i]
    <3> DEFINE recs == tmp[b]
    <3>1. recs \in Seq(Record) /\ Len(recs) > 0 /\ op[t].key \in Key
      BY <2>0
    <3> HIDE DEF recs
    <3>2. LET q == [recs EXCEPT ![Len(recs)].key = op[t].key] IN
          Len(q) = Len(recs) /\ \A i \in 1..Len(recs) : i # Len(recs) => q[i] = recs[i]
      BY <3>1, CompleteKey
    <3> QED BY <2>2, <3>2 DEF recs
  <2>4. \A s \in Thread : pc'[s] = IF s = t THEN "loc" ELSE pc[s]
    BY <2>1 DEF ControlInv, TypeOK
  <2>5. \A i : i = Len(tmp'[b]) => Unfinished(b, i)'
    BY <2>1, <2>4 DEF Unfinished
  <2>6. \A i \in 1..Len(tmp[b]) : i # Len(tmp[b]) => tmp[b][i].key # EmptyKey
    BY <2>0 DEF DiskInv, FilesAt, Unfinished
  <2>7. \A i \in 1..Len(tmp'[b]) : Unfinished(b, i)' \/ tmp'[b][i].key # EmptyKey
    BY <2>3, <2>5, <2>6
  <2>8. /\ pc[t] # "idle" /\ UNCHANGED <<base, data, index, phase, ret>>
        /\ \A s \in Thread : s # t => pc'[s] = pc[s] /\ op'[s] = op[s]
    BY <2>1, <2>4
  <2> QED BY <2>2, <2>7, <2>8, LoggingStep, Zenon
<1>3. CASE WriteLoc(t)
  <2> DEFINE l == [off |-> nextOff[b], len |-> VLen[op[t].val]]
  <2>0. /\ b \in Bucket /\ phase = "open" /\ tmp[b] \in Seq(Record) /\ tmp[b] # NoFile
        /\ op[t].key \in UserKey /\ Len(tmp[b]) > 0 /\ tmp[b][Len(tmp[b])].key = op[t].key /\ l \in Loc
    <3>1. pc[t] = "loc" /\ WriterInv(t)
      BY <1>3 DEF WriteLoc, LogInv
    <3>2. Writing(t)
      BY <3>1 DEF Writing
    <3> QED BY <3>1, <3>2, InsideCall, SentinelsAssumption DEF WriterInv, ControlInv, TypeOK, Loc
  <2>1. /\ tmp' = [tmp EXCEPT ![b][Len(tmp[b])].loc = l]
        /\ pc[t] = "loc" /\ pc' = [pc EXCEPT ![t] = "idle"] /\ op' = [op EXCEPT ![t] = NoOp]
        /\ UNCHANGED <<base, data, index, phase, ret>>
    BY <1>3 DEF WriteLoc, loop
  <2> HIDE DEF l
  <2>2. /\ tmp'[b] = [tmp[b] EXCEPT ![Len(tmp[b])].loc = l]
        /\ \A d \in Bucket : d # b => tmp'[d] = tmp[d]
    BY <2>0, <2>1 DEF ControlInv, TypeOK
  <2>3. /\ Len(tmp'[b]) = Len(tmp[b]) /\ \A i \in 1..Len(tmp[b]) : i # Len(tmp[b]) => tmp'[b][i] = tmp[b][i]
        /\ tmp'[b][Len(tmp[b])] = [key |-> op[t].key, loc |-> l]
    <3> DEFINE recs == tmp[b]
    <3>1. recs \in Seq(Record) /\ Len(recs) > 0 /\ l \in Loc /\ recs[Len(recs)].key = op[t].key
      BY <2>0
    <3> HIDE DEF recs
    <3>2. LET q == [recs EXCEPT ![Len(recs)].loc = l] IN
          /\ Len(q) = Len(recs) /\ \A i \in 1..Len(recs) : i # Len(recs) => q[i] = recs[i]
          /\ q[Len(recs)] = [key |-> op[t].key, loc |-> l]
      BY <3>1, CompleteLoc
    <3> QED BY <2>2, <3>2 DEF recs
  <2>4. \A s \in Thread : s # t => pc'[s] = pc[s] /\ op'[s] = op[s]
    BY <2>1 DEF ControlInv, TypeOK
  <2>5. op[t].key # EmptyKey
    BY <2>0, ConstantsAssumption
  <2>6. \A i \in 1..Len(tmp[b]) : i # Len(tmp[b]) => tmp[b][i].key # EmptyKey
    BY <2>0 DEF DiskInv, FilesAt, Unfinished
  <2>7. \A i \in 1..Len(tmp'[b]) : tmp'[b][i].key # EmptyKey
    <3>1. ASSUME NEW i \in 1..Len(tmp[b]), i = Len(tmp[b]) PROVE tmp'[b][i].key # EmptyKey
      <4>1. tmp'[b][i] = [key |-> op[t].key, loc |-> l]
        BY <2>3, <3>1, Zenon
      <4> QED BY <2>5, <4>1
    <3>2. ASSUME NEW i \in 1..Len(tmp[b]), i # Len(tmp[b]) PROVE tmp'[b][i].key # EmptyKey
      <4>1. tmp'[b][i] = tmp[b][i]
        BY <2>3, <3>2, Zenon
      <4> QED BY <2>6, <3>2, <4>1, Zenon
    <3>3. 1..Len(tmp'[b]) = 1..Len(tmp[b])
      BY <2>3, Zenon
    <3> QED BY <3>1, <3>2, <3>3, Zenon
  <2>8. \A i \in 1..Len(tmp'[b]) : Unfinished(b, i)' \/ tmp'[b][i].key # EmptyKey
    BY <2>7
  <2>9. pc[t] # "idle" /\ UNCHANGED <<base, data, index, phase, ret>>
    BY <2>1
  <2> QED BY <2>2, <2>4, <2>8, <2>9, LoggingStep, Zenon
<1> QED BY <1>1, <1>2, <1>3

\* A step of Write preserves the invariant of the files.
LEMMA WriteDisk ==
  ASSUME ControlInv, LogInv, DiskInv, NEW t \in Thread,
         WriteStep(t) \/ \E k \in UserKey, v \in Value : WriteIndex(t, k, v),
         ~WriteOverflow(t)
  PROVE  DiskInv'
<1> DEFINE b == BucketOf[op[t].key]
<1>1. ASSUME NEW k \in UserKey, NEW v \in Value, WriteIndex(t, k, v) PROVE DiskInv'
  <2>1. /\ phase = "open" /\ pc[t] = "idle" /\ UNCHANGED <<base, tmp, data, phase, ret>>
        /\ pc' = [pc EXCEPT ![t] = "data"] /\ op' = [op EXCEPT ![t] = [key |-> k, val |-> v]]
        /\ index' = [index EXCEPT ![BucketOf[k]][k] = [off |-> nextOff[BucketOf[k]], len |-> VLen[v]]]
    BY <1>1 DEF WriteIndex, files, loop
  <2>2. k # EmptyKey /\ k \in Key /\ EmptyKey \in Key /\ BucketOf[k] \in Bucket /\ VLen[v] \in Nat
    BY ConstantsAssumption
  <2>3. [off |-> nextOff[BucketOf[k]], len |-> VLen[v]] # NoLoc
    BY <2>2, SentinelsAssumption DEF ControlInv, TypeOK, Loc
  <2>4. \A d \in Bucket : index'[d][EmptyKey] = index[d][EmptyKey]
    BY <2>1, <2>2 DEF ControlInv, TypeOK
  <2>5. \A d \in Bucket, j \in Key : index[d][j] # NoLoc => index'[d][j] # NoLoc
    BY <2>1, <2>2, <2>3 DEF ControlInv, TypeOK
  <2>6. \A s \in Thread : pc[s] \in {"key", "loc"} => pc'[s] = pc[s] /\ op'[s] = op[s]
    BY <2>1 DEF ControlInv, TypeOK
  <2> QED BY <2>1, <2>4, <2>5, <2>6, QuietCall
<1>2. CASE WriteData(t)
  <2>1. /\ pc[t] = "data" /\ pc' = [pc EXCEPT ![t] = "size"]
        /\ UNCHANGED <<base, tmp, index, op, phase, ret>>
        /\ \E f : data' = [data EXCEPT ![b] = f] /\ f # NoFile
    <3>1. /\ pc[t] = "data" /\ pc' = [pc EXCEPT ![t] = "size"]
          /\ UNCHANGED <<base, tmp, index, op, phase, ret>>
          /\ \E n \in 0..Len(Cells(op[t].val)) :
               data' = [data EXCEPT ![b] = Overlay(@, fdpos[b], SubSeq(Cells(op[t].val), 1, n))]
      BY <1>2 DEF WriteData, loop
    <3>2. data' \in [Bucket -> FileOf(Cell)] /\ phase = "open" /\ b \in Bucket
      BY <1>2, <3>1, WriteControl, InsideCall DEF WriteStep, ControlInv, TypeOK
    <3>3. LoopInv'
      BY <1>2, WriteControl DEF WriteStep, ControlInv
    <3>4. data'[b] # NoFile
      BY <3>1, <3>2, <3>3 DEF LoopInv
    <3> QED BY <3>1, <3>2, <3>4 DEF ControlInv, TypeOK
  <2>2. phase = "open"
    BY <2>1, InsideCall
  <2>3. \A d \in Bucket : data[d] # NoFile => data'[d] # NoFile
    BY <2>1 DEF ControlInv, TypeOK
  <2>4. \A s \in Thread : pc[s] \in {"key", "loc"} => pc'[s] = pc[s] /\ op'[s] = op[s]
    BY <2>1 DEF ControlInv, TypeOK
  <2> QED BY <2>1, <2>2, <2>3, <2>4, QuietCall
<1>3. CASE WriteSize(t) \/ WriteKey(t) \/ WriteLoc(t)
  <2>1. pc[t] # "idle"
    BY <1>3 DEF WriteSize, WriteKey, WriteLoc
  <2>2. PICK d \in Bucket : d = BucketOf[op[t].key]
    BY <2>1, InsideCall
  <2> QED BY <1>3, <2>2, LoggingDisk
<1> QED BY <1>1, <1>2, <1>3 DEF WriteStep

-----------------------------------------------------------------------------
(* The end of a session *)

\* The process ends between two records: what is on disk is what was there.
LEMMA DownDisk ==
  ASSUME ControlInv, DiskInv, Forget, UNCHANGED <<files, ret>>, phase = "open",
         \A t \in Thread : pc[t] \notin {"key", "loc"}
  PROVE  DiskInv'
<1>1. /\ phase' = "down" /\ index' = EmptyIndex /\ UNCHANGED <<base, tmp, data, ret>>
      /\ \A t \in Thread : pc'[t] \notin {"key", "loc"}
  BY DEF Forget, files
<1>2. OpenSucceeds' /\ ClosingInv' /\ ~Saving(cur)' /\ \A b \in Bucket : ~Saving(b)'
  BY <1>1 DEF DiskInv, OpenSucceeds, ClosingInv, Saving
<1>3. ASSUME NEW b \in Bucket PROVE FilesAt(b)'
  <2>1. FilesAt(b) /\ index'[b][EmptyKey] = NoLoc
    BY <1>1, ConstantsAssumption DEF DiskInv, EmptyIndex
  <2>2. \A i : ~Unfinished(b, i)
    BY NoneUnfinished
  <2> QED BY <1>1, <2>1, <2>2, FilesFrame DEF Making
<1>4. ASSUME NEW b \in Bucket, base'[b] # NoFile PROVE \E n \in 0..Len(base'[b]) : BaseIs(b, n)'
  <2>1. base'[b] = base[b] /\ base[b] \in Seq(Field)
    BY <1>1, <1>4 DEF ControlInv, TypeOK, FileOf
  <2>2. \E n \in 0..Len(base[b]) : BaseIs(b, n)
    BY <1>4, <2>1 DEF DiskInv, Saving
  <2>3. ~Loaded(b)' /\ ~(phase = "closing" /\ b < cur)'
    BY <1>1 DEF Loaded
  <2> QED BY <2>1, <2>2, <2>3, BaseFrame
<1> QED BY <1>2, <1>3, <1>4 DEF DiskInv

\* The destructor begins: every bucket has its index_i.tmp, and the index is that of the session.
LEMMA CloseDisk ==
  ASSUME ControlInv, LogInv, DiskInv, Close
  PROVE  DiskInv'
<1>1. /\ phase = "open" /\ phase' = "closing" /\ cur' = 1
      /\ UNCHANGED <<base, tmp, data, index, ostep, ret, saved>>
      /\ \A t \in Thread : pc[t] = "idle"
  BY DEF Close, files, mem, hist
<1>2. ostep' = "look" /\ \A b \in Bucket : tmp'[b] # NoFile /\ b >= 1 /\ ~(b < 1)
  BY <1>1 DEF ControlInv, LoopInv, Bucket
<1>3. \A k \in UserKey : saved'[k] # NoLoc => index'[BucketOf[k]][k] = saved'[k]
  BY <1>1 DEF LogInv, Writing
<1>4. OpenSucceeds' /\ ClosingInv' /\ ~Saving(cur)' /\ \A b \in Bucket : ~Saving(b)'
  BY <1>1, <1>2, <1>3 DEF DiskInv, OpenSucceeds, ClosingInv, Saving
<1>5. ASSUME NEW b \in Bucket PROVE FilesAt(b)'
  <2>1. FilesAt(b) /\ index'[b][EmptyKey] = NoLoc
    BY <1>1 DEF DiskInv, FilesAt
  <2>2. \A i : ~Unfinished(b, i)
    BY <1>1, NoneUnfinished
  <2> QED BY <1>1, <2>1, <2>2, FilesFrame DEF Making
<1>6. ASSUME NEW b \in Bucket, base'[b] # NoFile PROVE \E n \in 0..Len(base'[b]) : BaseIs(b, n)'
  <2>1. base'[b] = base[b] /\ base[b] \in Seq(Field)
    BY <1>1, <1>6 DEF ControlInv, TypeOK, FileOf
  <2>2. \E n \in 0..Len(base[b]) : BaseIs(b, n)
    BY <1>1, <1>6, <2>1 DEF DiskInv, Saving
  <2>3. Loaded(b) /\ index' = index /\ ~(phase = "closing" /\ b < cur)'
    BY <1>1, <1>2 DEF Loaded
  <2> QED BY <2>1, <2>2, <2>3, BaseFrame
<1> QED BY <1>4, <1>5, <1>6 DEF DiskInv

\* While the destructor works on a bucket, the others stay as they are.
LEMMA SavingFrame ==
  ASSUME ControlInv, DiskInv, phase = "closing", ostep' = "save",
         UNCHANGED <<tmp, data, index, phase, cur, ret, saved, pc>>,
         base'[cur] # NoFile,
         \A b \in Bucket : b # cur => base'[b] = base[b],
         \E n \in 0..Len(base'[cur]) : SavedSoFar(n)'
  PROVE  DiskInv'
<1>1. cur \in Bucket /\ \A t \in Thread : pc[t] = "idle"
  BY NobodyOutside DEF ControlInv, TypeOK
<1>2. OpenSucceeds' /\ ClosingInv'
  BY DEF DiskInv, OpenSucceeds, ClosingInv
<1>3. \A b \in Bucket : tmp[b] # NoFile \/ base[b] # NoFile
  BY <1>1 DEF DiskInv, ClosingInv, Bucket
<1>4. ASSUME NEW b \in Bucket PROVE FilesAt(b)'
  <2>1. FilesAt(b) /\ data[b] # NoFile
    BY <1>3 DEF DiskInv, FilesAt, Making
  <2>2. \A i : ~Unfinished(b, i)
    BY <1>1, NoneUnfinished
  <2> QED BY <2>1, <2>2 DEF FilesAt, Making
<1>5. ASSUME NEW b \in Bucket, base'[b] # NoFile, ~Saving(b)'
      PROVE  \E n \in 0..Len(base'[b]) : BaseIs(b, n)'
  <2>1. b # cur /\ base'[b] = base[b] /\ base[b] \in Seq(Field)
    BY <1>5 DEF Saving, ControlInv, TypeOK, FileOf
  <2>2. \E n \in 0..Len(base[b]) : BaseIs(b, n)
    BY <1>5, <2>1 DEF DiskInv, Saving
  <2>3. Loaded(b) /\ index' = index /\ phase = "closing"
    BY DEF Loaded
  <2> QED BY <2>1, <2>2, <2>3, BaseFrame
<1> QED BY <1>2, <1>4, <1>5 DEF DiskInv

\* The destructor opens index_i: what is in it names keys of the index only, so all of it will
\* be written over.
LEMMA SaveOpenDisk ==
  ASSUME ControlInv, DiskInv, SaveOpen
  PROVE  DiskInv'
<1>1. /\ phase = "closing" /\ ostep = "look" /\ ostep' = "save" /\ fld' = "size" /\ wpos' = 0
      /\ base' = [base EXCEPT ![cur] = IF @ = NoFile THEN <<>> ELSE @]
      /\ todo' \in Orders(Saved(index[cur]))
      /\ UNCHANGED <<tmp, data, index, phase, cur, ret, saved, pc>>
  BY DEF SaveOpen, mem, threads, hist
<1>2. cur \in Bucket
  BY DEF ControlInv, TypeOK
<1>3. /\ base'[cur] = IF base[cur] = NoFile THEN <<>> ELSE base[cur]
      /\ \A b \in Bucket : b # cur => base'[b] = base[b]
  BY <1>1, <1>2 DEF ControlInv, TypeOK
<1>4. base'[cur] \in Seq(Field) /\ base'[cur] # NoFile /\ Len(base'[cur]) \in Nat
  <2>1. <<>> \in Seq(Field) /\ NoFile \notin Seq(Field)
    BY EmptySeq, SentinelsAssumption
  <2>2. base[cur] \in Seq(Field) \cup {NoFile}
    BY <1>2 DEF ControlInv, TypeOK, FileOf
  <2>3. base'[cur] \in Seq(Field)
    BY <1>3, <2>1, <2>2
  <2> QED BY <2>1, <2>3
<1>5. Saved(index[cur]) \in SUBSET Key
  BY DEF Saved
<1>6. /\ Len(todo') = Cardinality(Saved(index[cur])) /\ Len(todo') \in Nat
      /\ \A i, j \in 1..Len(todo') : todo'[i] = todo'[j] => i = j
      /\ \A k \in Saved(index[cur]) : \E i \in 1..Len(todo') : todo'[i] = k
  BY <1>1, <1>5, OrderOfAll
<1>7. Len(base'[cur]) <= 3 * Len(todo')
  <2>1. CASE base[cur] = NoFile
    BY <1>3, <1>6, <2>1, EmptySeq
  <2>2. CASE base[cur] # NoFile
    <3>1. PICK n \in 0..Len(base[cur]) : BaseIs(cur, n)
      BY <1>1, <1>2, <2>2 DEF DiskInv, Saving
    <3>2. base[cur] \in Seq(Field) /\ n \in Nat /\ base'[cur] = base[cur]
      BY <1>3, <1>4, <2>2
    <3>3. Len(base[cur]) = 3 * n /\ Complete(base[cur], n)
          /\ \A j \in 1..n : index[cur][NameAt(base[cur], j)] # NoLoc
      BY <1>1, <3>1 DEF BaseIs, Loaded
    <3>4. \A j \in 1..n : NameAt(base[cur], j) \in Saved(index[cur])
      BY <3>2, <3>3, NamesAreKeys DEF Saved
    <3>5. \A i, j \in 1..n : NameAt(base[cur], i) = NameAt(base[cur], j) => i = j
      BY <3>3 DEF Complete
    <3>6. n <= Cardinality(Saved(index[cur]))
      BY <1>5, <3>2, <3>4, <3>5, NotMoreThanKeys
    <3> QED BY <1>6, <3>2, <3>3, <3>6
  <2> QED BY <2>1, <2>2
<1>8. SavedSoFar(0)'
  <2>1. Complete(base'[cur], 0) /\ Agrees(base'[cur], 0, index'[cur])
    BY <1>4 DEF Complete, Agrees
  <2>2. \A k \in Key : index'[cur][k] # NoLoc => \E i \in 1..Len(todo') : todo'[i] = k
    BY <1>1, <1>6 DEF Saved
  <2>3. wpos' = 3 * 0 + 0 /\ Len(base'[cur]) <= 3 * (0 + Len(todo')) /\ \A j \in 1..0 : FALSE
    BY <1>1, <1>6, <1>7
  <2>4. cur' = cur /\ fld' = "size"
    BY <1>1
  <2>5. \A i, j \in 1..Len(todo') : todo'[i] = todo'[j] => i = j
    BY <1>6
  <2> QED BY <2>1, <2>2, <2>3, <2>4, <2>5 DEF SavedSoFar
<1>9. 0 \in 0..Len(base'[cur])
  BY <1>4
<1> QED BY <1>1, <1>3, <1>4, <1>8, <1>9, SavingFrame

\* The destructor leaves a bucket: the records are all of the index, and nothing follows them.
LEMMA SaveDoneDisk ==
  ASSUME ControlInv, DiskInv, SaveDone
  PROVE  DiskInv'
<1>1. /\ phase = "closing" /\ ostep = "save" /\ todo = <<>>
      /\ tmp' = [tmp EXCEPT ![cur] = NoFile] /\ UNCHANGED <<base, data, ret>>
      /\ cur \in Bucket /\ Bucket \subseteq Nat /\ NB \in Nat
      /\ \A t \in Thread : pc[t] = "idle"
  BY NobodyOutside, ConstantsAssumption DEF SaveDone, ControlInv, TypeOK, Bucket
<1>2. base[cur] \in Seq(Field) /\ base[cur] # NoFile /\ Len(base[cur]) \in Nat
  BY <1>1 DEF ControlInv, TypeOK, FileOf, DiskInv, Saving
<1>3. PICK n \in 0..Len(base[cur]) : SavedSoFar(n)
  BY <1>1 DEF DiskInv, Saving
<1>4. /\ Len(base[cur]) = 3 * n /\ Complete(base[cur], n) /\ Agrees(base[cur], n, index[cur])
      /\ \A k \in Key : index[cur][k] # NoLoc => \E j \in 1..n : NameAt(base[cur], j) = k
  <2>1. Len(todo) = 0
    BY <1>1, EmptySeq
  <2>2. /\ Complete(base[cur], n) /\ Agrees(base[cur], n, index[cur])
        /\ Len(base[cur]) <= 3 * (n + Len(todo))
        /\ \A k \in Key : index[cur][k] # NoLoc =>
             (\E j \in 1..n : NameAt(base[cur], j) = k) \/ (\E i \in 1..Len(todo) : todo[i] = k)
    BY <1>3 DEF SavedSoFar
  <2>3. 3 * n <= Len(base[cur])
    BY <2>2 DEF Complete
  <2>4. Len(base[cur]) = 3 * n
    BY <1>2, <2>1, <2>2, <2>3
  <2>5. \A i \in 1..Len(todo) : FALSE
    BY <2>1
  <2> QED BY <2>2, <2>4, <2>5
<1>5. BaseIs(cur, n)
  BY <1>1, <1>4 DEF BaseIs, Agrees
<1>6. \A b \in Bucket : base[b] # NoFile => \E m \in 0..Len(base[b]) : BaseIs(b, m)
  BY <1>1, <1>5 DEF DiskInv, Saving
<1>7. \A b \in Bucket : /\ FilesAt(b) /\ data[b] # NoFile
                        /\ tmp'[b] # NoFile => b # cur /\ tmp'[b] = tmp[b]
  <2>1. \A b \in Bucket : tmp[b] # NoFile \/ base[b] # NoFile
    BY <1>1 DEF DiskInv, ClosingInv, Bucket
  <2> QED BY <1>1, <2>1 DEF DiskInv, FilesAt, Making, ControlInv, TypeOK
<1>8. \A b, i : ~Unfinished(b, i)
  BY <1>1, NoneUnfinished
<1>9. \A b \in Bucket : index'[b][EmptyKey] = NoLoc => FilesAt(b)'
  <2>1. ~(phase = "opening")'
    BY <1>1 DEF SaveDone, Forget
  <2> QED BY <1>1, <1>7, <1>8, <2>1 DEF FilesAt, Making
<1>10. CASE Forget
  <2>1. phase' = "down" /\ index' = EmptyIndex
    BY <1>10 DEF Forget
  <2>2. OpenSucceeds' /\ ClosingInv' /\ ~Saving(cur)' /\ \A b \in Bucket : ~Saving(b)'
    BY <1>1, <2>1 DEF DiskInv, OpenSucceeds, ClosingInv, Saving
  <2>3. \A b \in Bucket : FilesAt(b)'
    BY <1>9, <2>1, ConstantsAssumption DEF EmptyIndex
  <2>4. ASSUME NEW b \in Bucket, base'[b] # NoFile PROVE \E m \in 0..Len(base'[b]) : BaseIs(b, m)'
    <3>1. base'[b] = base[b] /\ base[b] \in Seq(Field)
      BY <1>1, <2>4 DEF ControlInv, TypeOK, FileOf
    <3>2. ~Loaded(b)' /\ ~(phase = "closing" /\ b < cur)'
      BY <2>1 DEF Loaded
    <3> QED BY <1>6, <2>4, <3>1, <3>2, BaseFrame
  <2> QED BY <2>2, <2>3, <2>4 DEF DiskInv
<1>11. CASE /\ cur < NB /\ cur' = cur + 1 /\ ostep' = "look"
            /\ UNCHANGED <<mem, threads, saving, phase, session, hist>>
  <2>1. UNCHANGED <<index, phase, pc, op, saved>>
    BY <1>11 DEF mem, threads, hist
  <2>2. OpenSucceeds' /\ ~Saving(cur)' /\ \A b \in Bucket : ~Saving(b)'
    BY <1>1, <1>11 DEF DiskInv, OpenSucceeds, Saving
  <2>3. ClosingInv'
    <3>1. /\ \A b \in Bucket : tmp[b] # NoFile <=> b >= cur
          /\ \A b \in Bucket : b < cur => base[b] # NoFile
          /\ \A k \in UserKey : saved[k] # NoLoc => index[BucketOf[k]][k] = saved[k]
      BY <1>1 DEF DiskInv, ClosingInv
    <3>2. \A b \in Bucket : tmp'[b] # NoFile <=> b >= cur + 1
      <4>1. \A b \in Bucket : tmp'[b] = IF b = cur THEN NoFile ELSE tmp[b]
        BY <1>1 DEF ControlInv, TypeOK
      <4>2. \A b \in Bucket : b >= cur + 1 <=> b >= cur /\ b # cur
        BY <1>1
      <4> QED BY <3>1, <4>1, <4>2
    <3>3. \A b \in Bucket : b < cur + 1 => base[b] # NoFile
      <4>1. \A b \in Bucket : b < cur + 1 => b < cur \/ b = cur
        BY <1>1
      <4> QED BY <1>2, <3>1, <4>1
    <3> QED BY <1>1, <1>11, <2>1, <3>1, <3>2, <3>3 DEF ClosingInv
  <2>4. \A b \in Bucket : FilesAt(b)'
    BY <1>7, <1>9, <2>1 DEF FilesAt
  <2>5. ASSUME NEW b \in Bucket, base'[b] # NoFile PROVE \E m \in 0..Len(base'[b]) : BaseIs(b, m)'
    <3>1. base'[b] = base[b] /\ base[b] \in Seq(Field)
      BY <1>1, <2>5 DEF ControlInv, TypeOK, FileOf
    <3>2. CASE b = cur
      <4>1. BaseIs(b, n)'
        BY <1>1, <1>4, <2>1, <3>1, <3>2 DEF BaseIs, Agrees
      <4> QED BY <3>1, <3>2, <4>1
    <3>3. CASE b # cur
      <4>1. b < cur + 1 => b < cur
        BY <1>1, <3>3
      <4>2. Loaded(b)
        BY <1>1 DEF Loaded
      <4> QED BY <1>1, <1>6, <1>11, <2>1, <2>5, <3>1, <4>1, <4>2, BaseFrame
    <3> QED BY <3>2, <3>3
  <2> QED BY <2>2, <2>3, <2>4, <2>5 DEF DiskInv
<1> QED BY <1>10, <1>11 DEF SaveDone

\* Bytes behind the first n records do not change these records.
LEMMA CompleteKept ==
  ASSUME NEW f \in Seq(Field), NEW g \in Seq(Field), NEW n \in Nat, NEW idx,
         Complete(f, n), Agrees(f, n, idx), Len(f) <= Len(g), \A i \in 1..(3 * n) : g[i] = f[i]
  PROVE  /\ Complete(g, n) /\ Agrees(g, n, idx)
         /\ \A j \in 1..n : NameAt(g, j) = NameAt(f, j)
<1>1. \A j \in 1..n : g[3 * j - 2] = f[3 * j - 2] /\ g[3 * j - 1] = f[3 * j - 1] /\ g[3 * j] = f[3 * j]
  <2>1. ASSUME NEW j \in 1..n
        PROVE  g[3 * j - 2] = f[3 * j - 2] /\ g[3 * j - 1] = f[3 * j - 1] /\ g[3 * j] = f[3 * j]
    <3>1. 3 * j - 2 \in 1..(3 * n) /\ 3 * j - 1 \in 1..(3 * n) /\ 3 * j \in 1..(3 * n)
      OBVIOUS
    <3> QED BY <3>1
  <2> QED BY <2>1
<1>2. \A j \in 1..n : NameAt(g, j) = NameAt(f, j)
  BY <1>1 DEF NameAt
<1>3. 3 * n <= Len(g)
  BY DEF Complete
<1>4. Complete(g, n)
  BY <1>1, <1>2, <1>3 DEF Complete
<1>5. Agrees(g, n, idx)
  BY <1>1, <1>2 DEF Agrees
<1> QED BY <1>2, <1>4, <1>5

\* A record behind n records, of a key that they do not name, makes them n + 1.
LEMMA CompleteMore ==
  ASSUME NEW g \in Seq(Field), NEW n \in Nat, NEW idx, NEW rec \in Record,
         Complete(g, n), Agrees(g, n, idx), 3 * n + 3 <= Len(g),
         g[3 * n + 1] = [part |-> "size", rec |-> rec],
         g[3 * n + 2] = [part |-> "key", rec |-> rec],
         g[3 * n + 3] = [part |-> "loc", rec |-> rec],
         rec.key # EmptyKey, idx[rec.key] # NoLoc, rec.loc = idx[rec.key],
         \A j \in 1..n : NameAt(g, j) # rec.key
  PROVE  /\ Complete(g, n + 1) /\ Agrees(g, n + 1, idx)
         /\ NameAt(g, n + 1) = rec.key
<1> DEFINE m == n + 1
<1>0. 3 * m - 2 = 3 * n + 1 /\ 3 * m - 1 = 3 * n + 2 /\ 3 * m = 3 * n + 3
  OBVIOUS
<1>1. \A j \in 1..m : j \in 1..n \/ j = m
  OBVIOUS
<1>2. /\ g[3 * m - 2] = [part |-> "size", rec |-> rec]
      /\ g[3 * m - 1] = [part |-> "key", rec |-> rec]
      /\ g[3 * m] = [part |-> "loc", rec |-> rec]
  BY <1>0
<1>3. 3 * m <= Len(g)
  BY <1>0
<1> HIDE DEF m
<1>4. NameAt(g, m) = rec.key /\ g[3 * m - 1].rec = rec /\ g[3 * m - 1].part = "key" /\ g[3 * m].rec = rec
  BY <1>2 DEF NameAt
<1>5. \A j \in 1..m : /\ g[3 * j - 2] = [part |-> "size", rec |-> g[3 * j - 1].rec]
                      /\ g[3 * j - 1].part = "key" /\ NameAt(g, j) # EmptyKey
                      /\ g[3 * j] = [part |-> "loc", rec |-> g[3 * j - 1].rec]
  <2>1. \A j \in 1..n : /\ g[3 * j - 2] = [part |-> "size", rec |-> g[3 * j - 1].rec]
                        /\ g[3 * j - 1].part = "key" /\ NameAt(g, j) # EmptyKey
                        /\ g[3 * j] = [part |-> "loc", rec |-> g[3 * j - 1].rec]
    BY DEF Complete
  <2>2. /\ g[3 * m - 2] = [part |-> "size", rec |-> g[3 * m - 1].rec]
        /\ g[3 * m - 1].part = "key" /\ NameAt(g, m) # EmptyKey
        /\ g[3 * m] = [part |-> "loc", rec |-> g[3 * m - 1].rec]
    BY <1>2, <1>4
  <2> QED BY <1>1, <2>1, <2>2, Zenon
<1>6. \A i, j \in 1..m : NameAt(g, i) = NameAt(g, j) => i = j
  <2>1. \A i, j \in 1..n : NameAt(g, i) = NameAt(g, j) => i = j
    BY DEF Complete
  <2> QED BY <1>1, <1>4, <2>1
<1>7. \A j \in 1..m : idx[NameAt(g, j)] # NoLoc /\ g[3 * j].rec.loc = idx[NameAt(g, j)]
  <2>1. \A j \in 1..n : idx[NameAt(g, j)] # NoLoc /\ g[3 * j].rec.loc = idx[NameAt(g, j)]
    BY DEF Agrees
  <2> QED BY <1>1, <1>4, <2>1
<1>8. Complete(g, m) /\ Agrees(g, m, idx)
  BY <1>3, <1>5, <1>6, <1>7 DEF Complete, Agrees
<1> QED BY <1>4, <1>8 DEF m

\* The destructor appends a field: the record it belongs to grows, or is whole and another begins.
LEMMA SaveFieldDisk ==
  ASSUME ControlInv, DiskInv, SaveField
  PROVE  DiskInv'
<1> DEFINE k == Head(todo)
           rec == [key |-> k, loc |-> index[cur][k]]
           x == [part |-> fld, rec |-> rec]
           f == base[cur]
           g == base'[cur]
<1>1. /\ phase = "closing" /\ ostep = "save" /\ todo # <<>> /\ wpos' = wpos + 1
      /\ base' = [base EXCEPT ![cur] = Overlay(f, wpos, <<x>>)]
      /\ fld' = CASE fld = "size" -> IF k = EmptyKey THEN "loc" ELSE "key"
                  [] fld = "key" -> "loc"
                  [] fld = "loc" -> "size"
      /\ todo' = IF fld = "loc" THEN Tail(todo) ELSE todo
      /\ UNCHANGED <<tmp, data, index, phase, cur, ostep, ret, saved, pc>>
  BY DEF SaveField, mem, threads, loop, hist
<1>2. cur \in Bucket /\ fld \in {"size", "key", "loc"} /\ wpos \in Nat
  BY DEF ControlInv, TypeOK
<1>3. f \in Seq(Field) /\ Len(f) \in Nat /\ wpos <= Len(f)
  BY <1>1, <1>2 DEF ControlInv, TypeOK, LoopInv, FileOf
<1>4. /\ Len(todo) \in Nat /\ Len(todo) > 0 /\ k = todo[1] /\ k \in Key
      /\ Len(Tail(todo)) = Len(todo) - 1
      /\ \A i \in 1..Len(Tail(todo)) : Tail(todo)[i] = todo[i + 1]
  <2>1. todo \in Seq(Key)
    BY DEF ControlInv, TypeOK
  <2> QED BY <1>1, <2>1, HeadTailProperties, EmptySeq
<1>5. index[cur][k] # NoLoc /\ index[cur][k] \in Loc /\ k # EmptyKey
  <2>1. index[cur][k] # NoLoc
    BY <1>1, <1>4 DEF ControlInv, LoopInv
  <2> QED BY <1>2, <1>4, <2>1 DEF ControlInv, TypeOK, DiskInv, FilesAt
<1>6. x \in Field /\ rec \in Record /\ rec.key = k /\ rec.loc = index[cur][k]
  BY <1>2, <1>4, <1>5 DEF Field, Record
<1>7. PICK n \in 0..Len(f) : SavedSoFar(n)
  BY <1>1 DEF DiskInv, Saving
<1>8. /\ wpos = 3 * n + (CASE fld = "size" -> 0 [] fld = "key" -> 1 [] fld = "loc" -> 2)
      /\ Complete(f, n) /\ Agrees(f, n, index[cur])
      /\ Len(f) <= 3 * (n + Len(todo))
      /\ fld # "size" => f[3 * n + 1] = [part |-> "size", rec |-> rec]
      /\ fld = "loc" => f[3 * n + 2] = [part |-> "key", rec |-> rec]
      /\ \A j \in Key : index[cur][j] # NoLoc =>
           (\E i \in 1..n : NameAt(f, i) = j) \/ (\E i \in 1..Len(todo) : todo[i] = j)
      /\ \A i \in 1..Len(todo) : /\ \A j \in 1..n : todo[i] # NameAt(f, j)
                                 /\ \A j \in 1..Len(todo) : todo[i] = todo[j] => i = j
  BY <1>7 DEF SavedSoFar
<1>9. g = Overlay(f, wpos, <<x>>) /\ \A b \in Bucket : b # cur => base'[b] = base[b]
  BY <1>1, <1>2 DEF ControlInv, TypeOK
<1> HIDE DEF rec, x, f, g, k
<1>10. /\ g \in Seq(Field) /\ g[wpos + 1] = x
       /\ \A i \in 1..Len(f) : i # wpos + 1 => g[i] = f[i]
       /\ Len(g) = IF wpos < Len(f) THEN Len(f) ELSE wpos + 1
  BY <1>2, <1>3, <1>6, <1>9, OverlayOne
<1>11. n \in Nat /\ Len(g) \in Nat /\ Len(f) <= Len(g) /\ wpos + 1 <= Len(g)
  BY <1>2, <1>3, <1>7, <1>10
<1>12. 3 * n <= wpos
  BY <1>2, <1>8, <1>11
<1>13. /\ Complete(g, n) /\ Agrees(g, n, index[cur])
       /\ \A j \in 1..n : NameAt(g, j) = NameAt(f, j)
  <2>1. \A i \in 1..(3 * n) : g[i] = f[i]
    BY <1>2, <1>3, <1>10, <1>11, <1>12
  <2> QED BY <1>3, <1>8, <1>10, <1>11, <2>1, CompleteKept
<1>14. \E m \in 0..Len(g) : SavedSoFar(m)'
  <2>1. CASE fld # "loc"
    <3>1. todo' = todo /\ fld' = IF fld = "size" THEN "key" ELSE "loc"
      BY <1>1, <1>2, <1>5, <2>1
    <3>2. wpos' = 3 * n + (CASE fld' = "size" -> 0 [] fld' = "key" -> 1 [] fld' = "loc" -> 2)
      BY <1>1, <1>2, <1>8, <1>11, <2>1, <3>1
    <3>3. Len(g) <= 3 * (n + Len(todo))
      <4>1. wpos + 1 <= 3 * n + 2
        BY <1>2, <1>8, <1>11, <2>1
      <4> QED BY <1>2, <1>3, <1>4, <1>8, <1>10, <1>11, <4>1
    <3>4. g[3 * n + 1] = [part |-> "size", rec |-> rec]
      <4>1. CASE fld = "size"
        BY <1>8, <1>10, <1>11, <4>1 DEF x
      <4>2. CASE fld = "key"
        <5>1. 3 * n + 1 \in 1..Len(f) /\ 3 * n + 1 # wpos + 1
          BY <1>3, <1>8, <1>11, <4>2
        <5> QED BY <1>8, <1>10, <4>2, <5>1
      <4> QED BY <1>2, <2>1, <4>1, <4>2
    <3>5. fld' = "loc" => g[3 * n + 2] = [part |-> "key", rec |-> rec]
      <4> SUFFICES ASSUME fld = "key" PROVE g[3 * n + 2] = [part |-> "key", rec |-> rec]
        BY <1>2, <2>1, <3>1
      <4>1. wpos + 1 = 3 * n + 2
        BY <1>8, <1>11
      <4> QED BY <1>10, <4>1 DEF x
    <3>6. \A j \in Key : index[cur][j] # NoLoc =>
            (\E i \in 1..n : NameAt(g, i) = j) \/ (\E i \in 1..Len(todo) : todo[i] = j)
      BY <1>8, <1>13
    <3>7. \A i \in 1..Len(todo) : /\ \A j \in 1..n : todo[i] # NameAt(g, j)
                                  /\ \A j \in 1..Len(todo) : todo[i] = todo[j] => i = j
      BY <1>8, <1>13
    <3>8. SavedSoFar(n)'
      <4>1. rec = [key |-> Head(todo'), loc |-> index'[cur'][Head(todo')]] /\ todo' # <<>>
        BY <1>1, <3>1 DEF rec, k
      <4>2. g = base'[cur'] /\ index'[cur'] = index[cur]
        BY <1>1 DEF g
      <4> QED BY <1>13, <3>1, <3>2, <3>3, <3>4, <3>5, <3>6, <3>7, <4>1, <4>2 DEF SavedSoFar
    <3> QED BY <1>3, <1>7, <1>11, <3>8
  <2>2. CASE fld = "loc"
    <3>1. todo' = Tail(todo) /\ fld' = "size" /\ wpos = 3 * n + 2
      BY <1>1, <1>8, <2>2
    <3>2. /\ g[3 * n + 1] = [part |-> "size", rec |-> rec]
          /\ g[3 * n + 2] = [part |-> "key", rec |-> rec]
          /\ g[3 * n + 3] = [part |-> "loc", rec |-> rec]
          /\ 3 * n + 3 <= Len(g)
      <4>1. /\ 3 * n + 1 \in 1..Len(f) /\ 3 * n + 2 \in 1..Len(f)
            /\ 3 * n + 1 # wpos + 1 /\ 3 * n + 2 # wpos + 1 /\ 3 * n + 3 = wpos + 1
        BY <1>3, <1>11, <3>1
      <4>2. g[3 * n + 1] = f[3 * n + 1] /\ g[3 * n + 2] = f[3 * n + 2] /\ g[3 * n + 3] = x
        BY <1>10, <4>1
      <4> QED BY <1>8, <1>11, <2>2, <4>1, <4>2 DEF x
    <3>3. /\ Complete(g, n + 1) /\ Agrees(g, n + 1, index[cur])
          /\ NameAt(g, n + 1) = k
      <4>1. 1 \in 1..Len(todo)
        BY <1>4
      <4>2. \A j \in 1..n : NameAt(g, j) # rec.key
        <5>1. \A j \in 1..n : todo[1] # NameAt(f, j)
          BY <1>8, <4>1
        <5>2. rec.key = todo[1]
          BY <1>4, <1>6
        <5> QED BY <1>13, <5>1, <5>2
      <4>3. rec.key # EmptyKey /\ index[cur][rec.key] # NoLoc /\ rec.loc = index[cur][rec.key]
        BY <1>5, <1>6
      <4>4. /\ Complete(g, n + 1) /\ Agrees(g, n + 1, index[cur])
            /\ NameAt(g, n + 1) = rec.key
        <5>1. g \in Seq(Field) /\ n \in Nat /\ Complete(g, n) /\ Agrees(g, n, index[cur])
          BY <1>10, <1>11, <1>13
        <5>2. rec \in Record
          BY <1>6
        <5> QED BY <3>2, <4>2, <4>3, <5>1, <5>2, CompleteMore
      <4> QED BY <1>6, <4>4
    <3>4. Len(g) <= 3 * ((n + 1) + Len(Tail(todo)))
      BY <1>2, <1>3, <1>4, <1>8, <1>10, <1>11, <3>1
    <3>5. \A j \in Key : index[cur][j] # NoLoc =>
            (\E i \in 1..(n + 1) : NameAt(g, i) = j) \/ (\E i \in 1..Len(Tail(todo)) : Tail(todo)[i] = j)
      <4> SUFFICES ASSUME NEW j \in Key, index[cur][j] # NoLoc
                   PROVE  (\E i \in 1..(n + 1) : NameAt(g, i) = j)
                            \/ (\E i \in 1..Len(Tail(todo)) : Tail(todo)[i] = j)
        OBVIOUS
      <4>1. CASE \E i \in 1..n : NameAt(f, i) = j
        <5>1. PICK i \in 1..n : NameAt(f, i) = j
          BY <4>1
        <5>2. i \in 1..(n + 1) /\ NameAt(g, i) = j
          BY <1>11, <1>13, <5>1
        <5> QED BY <5>2
      <4>2. ASSUME NEW i \in 1..Len(todo), todo[i] = j
            PROVE  (\E m \in 1..(n + 1) : NameAt(g, m) = j)
                     \/ (\E m \in 1..Len(Tail(todo)) : Tail(todo)[m] = j)
        <5>1. CASE i = 1
          <6>1. n + 1 \in 1..(n + 1)
            BY <1>11
          <6>2. NameAt(g, n + 1) = j
            BY <1>4, <3>3, <4>2, <5>1
          <6> QED BY <6>1, <6>2
        <5>2. CASE i # 1
          <6>1. i - 1 \in 1..Len(Tail(todo)) /\ (i - 1) + 1 = i
            BY <1>4, <5>2
          <6>2. Tail(todo)[i - 1] = j
            BY <1>4, <4>2, <6>1
          <6> QED BY <6>1, <6>2
        <5> QED BY <5>1, <5>2
      <4> QED BY <1>8, <4>1, <4>2
    <3>6. ASSUME NEW i \in 1..Len(Tail(todo))
          PROVE  /\ \A j \in 1..(n + 1) : Tail(todo)[i] # NameAt(g, j)
                 /\ \A j \in 1..Len(Tail(todo)) : Tail(todo)[i] = Tail(todo)[j] => i = j
      <4>1. i + 1 \in 1..Len(todo) /\ Tail(todo)[i] = todo[i + 1] /\ 1 \in 1..Len(todo) /\ i + 1 # 1
        BY <1>4
      <4>2. todo[i + 1] # k
        BY <1>4, <1>8, <4>1
      <4>3. ASSUME NEW j \in 1..(n + 1) PROVE Tail(todo)[i] # NameAt(g, j)
        <5>1. j \in 1..n \/ j = n + 1
          BY <1>11
        <5> QED BY <1>8, <1>13, <3>3, <4>1, <4>2, <5>1
      <4>4. ASSUME NEW j \in 1..Len(Tail(todo)), Tail(todo)[i] = Tail(todo)[j] PROVE i = j
        <5>1. j + 1 \in 1..Len(todo) /\ Tail(todo)[j] = todo[j + 1]
          BY <1>4
        <5>2. i + 1 = j + 1
          BY <1>8, <4>1, <4>4, <5>1
        <5> QED BY <5>2
      <4> QED BY <4>3, <4>4
    <3>7. SavedSoFar(n + 1)'
      <4>1. wpos' = 3 * (n + 1) + 0
        BY <1>1, <1>11, <3>1
      <4>2. g = base'[cur'] /\ index'[cur'] = index[cur]
        BY <1>1 DEF g
      <4> QED BY <3>1, <3>3, <3>4, <3>5, <3>6, <4>1, <4>2 DEF SavedSoFar
    <3>8. n + 1 \in 0..Len(g)
      BY <1>11, <3>2
    <3> QED BY <3>7, <3>8
  <2> QED BY <2>1, <2>2
<1>15. g # NoFile
  BY <1>10, SentinelsAssumption
<1> QED BY <1>1, <1>9, <1>14, <1>15, SavingFrame DEF g

-----------------------------------------------------------------------------
(* The invariant of the files, and what follows from it. *)

\* Nothing is there yet.
LEMMA InitDisk == Init => DiskInv
<1> SUFFICES ASSUME Init PROVE DiskInv
  OBVIOUS
<1>1. OpenSucceeds /\ ClosingInv /\ ~Saving(cur)
  BY DEF Init, OpenSucceeds, ClosingInv, Saving
<1>2. \A b \in Bucket : FilesAt(b) /\ base[b] = NoFile
  BY ConstantsAssumption DEF Init, FilesAt, EmptyIndex, Making
<1> QED BY <1>1, <1>2 DEF DiskInv

\* A step of EndsBetweenRecords.
EndsBetween == phase = "open" /\ phase' = "down" => \A t \in Thread : pc[t] \notin {"key", "loc"}

\* The invariant of the files is inductive when nothing disturbs the engine.
LEMMA NextDisk ==
  ASSUME Undisturbed, IndInv, DiskInv, [Next]_vars, EndsBetween
  PROVE  DiskInv'
<1>0. ControlInv /\ LogInv
  BY DEF IndInv, ControlInv
<1>1. CASE UNCHANGED vars
  <2> USE <1>1 DEF vars, files, mem, threads, saving, loop, hist
  <2>1. OpenSucceeds' /\ ClosingInv'
    BY DEF DiskInv, OpenSucceeds, ClosingInv
  <2>2. ASSUME NEW b \in Bucket PROVE FilesAt(b)'
    <3>1. FilesAt(b)
      BY DEF DiskInv
    <3> QED BY <3>1 DEF FilesAt, Making, Unfinished
  <2>3. ASSUME NEW b \in Bucket, base'[b] # NoFile, ~Saving(b)'
        PROVE  \E n \in 0..Len(base'[b]) : BaseIs(b, n)'
    <3>1. PICK n \in 0..Len(base[b]) : BaseIs(b, n)
      BY <2>3 DEF DiskInv, Saving
    <3>2. BaseIs(b, n)'
      BY <3>1 DEF BaseIs, Loaded
    <3> QED BY <3>1, <3>2
  <2>4. ASSUME Saving(cur)' PROVE \E n \in 0..Len(base'[cur']) : SavedSoFar(n)'
    <3>1. PICK n \in 0..Len(base[cur]) : SavedSoFar(n)
      BY <2>4 DEF DiskInv, Saving
    <3>2. SavedSoFar(n)'
      BY <3>1 DEF SavedSoFar
    <3> QED BY <3>1, <3>2
  <2>5. Saving(cur)' => base'[cur'] # NoFile
    BY DEF DiskInv, Saving
  <2> QED BY <2>1, <2>2, <2>3, <2>4, <2>5 DEF DiskInv
<1>2. CASE OpenStart \/ OpenNoDirectory \/ OpenStep
  BY <1>0, <1>2, OpenDisk
<1>3. CASE Close \/ CloseStep
  <2>1. ~SaveOpenFails /\ ~SaveFieldFails
    BY DEF Undisturbed, SaveOpenFails, SaveFieldFails
  <2> QED BY <1>0, <1>3, <2>1, CloseDisk, SaveOpenDisk, SaveFieldDisk, SaveDoneDisk DEF CloseStep
<1>4. ASSUME NEW t \in Thread, WriteStep(t) \/ \E k \in UserKey, v \in Value : WriteIndex(t, k, v)
      PROVE  DiskInv'
  <2>1. CASE WriteOverflow(t)
    <3>1. pc[t] # "idle" /\ phase' = "down" /\ Forget /\ UNCHANGED <<files, ret>>
      BY <2>1 DEF WriteOverflow, Forget
    <3>2. phase = "open"
      BY <1>0, <3>1, InsideCall
    <3> QED BY <1>0, <3>1, <3>2, DownDisk DEF EndsBetween
  <2>2. CASE ~WriteOverflow(t)
    BY <1>0, <1>4, <2>2, WriteDisk
  <2> QED BY <2>1, <2>2
<1>5. ASSUME NEW t \in Thread, ReadStep(t) \/ \E k \in UserKey : ReadMiss(t, k) \/ ReadSeek(t, k)
      PROVE  DiskInv'
  BY <1>0, <1>5, ReadDisk
<1>6. CASE Kill
  <2>1. KillPoint = "running"
    BY <1>6 DEF Kill, Undisturbed
  <2>2. phase = "open" /\ \A t \in Thread : pc[t] \notin {"key", "loc"}
    BY <1>0, <2>1 DEF KillPoint, ControlInv, TypeOK
  <2> QED BY <1>0, <1>6, <2>2, DownDisk DEF Kill
<1>7. CASE Done
  BY <1>1, <1>7 DEF Done
<1> QED BY <1>1, <1>2, <1>3, <1>4, <1>5, <1>6, <1>7 DEF Next

\* When keys are text, kill -9 comes while callers use the engine and the process ends between
\* two records, the files are what DiskInv says.
THEOREM DiskInductive == ASSUME Undisturbed PROVE Spec /\ EndsBetweenRecords => []DiskInv
<1>1. IndInv /\ DiskInv /\ [Next]_vars /\ [EndsBetween]_vars => DiskInv'
  <2> SUFFICES ASSUME IndInv, DiskInv, [Next]_vars, [EndsBetween]_vars PROVE DiskInv'
    OBVIOUS
  <2>1. EndsBetween
    BY DEF EndsBetween, vars, loop
  <2> QED BY <2>1, NextDisk
<1>2. EndsBetweenRecords <=> [][EndsBetween]_vars
  BY DEF EndsBetweenRecords, EndsBetween
<1> QED BY <1>1, <1>2, InitDisk, Inductive, PTL DEF Spec

\* What Open would find in a bucket that the destructor is done with is the index of that bucket.
LEMMA DoneBucket ==
  ASSUME Undisturbed, IndInv, DiskInv, phase = "closing", NEW b \in Bucket, b < cur
  PROVE  /\ tmp[b] = NoFile /\ ~CutOff(base[b])
         /\ \A k \in Key : OnDisk(b)[k] = index[b][k]
<1>1. /\ tmp[b] = NoFile /\ base[b] # NoFile
  <2>1. ~(b >= cur)
    BY DEF IndInv, TypeOK, Bucket
  <2> QED BY <2>1 DEF DiskInv, ClosingInv
<1>2. base[b] \in Seq(Field) /\ ~Saving(b)
  <2>1. base[b] \in Seq(Field)
    BY <1>1 DEF IndInv, TypeOK, FileOf
  <2>2. b # cur
    BY DEF IndInv, TypeOK, Bucket
  <2> QED BY <2>1, <2>2 DEF Saving
<1>3. PICK n \in 0..Len(base[b]) : BaseIs(b, n)
  BY <1>1, <1>2 DEF DiskInv
<1>4. /\ n \in Nat /\ Len(base[b]) = 3 * n /\ Complete(base[b], n) /\ Agrees(base[b], n, index[b])
      /\ \A k \in Key : index[b][k] # NoLoc => \E j \in 1..n : NameAt(base[b], j) = k
  BY <1>2, <1>3 DEF BaseIs
<1>5. ~CutOff(base[b])
  BY <1>2, <1>4, CompleteRecords
<1>6. \A k \in Key : CStr[k] = k
  BY DEF Undisturbed
<1>7. OnDisk(b) = Load(NoIndex, Records(base[b]))
  BY <1>1 DEF OnDisk, LoadFiles
<1>8. ASSUME NEW k \in Key PROVE OnDisk(b)[k] = index[b][k]
  <2>1. CASE index[b][k] # NoLoc
    <3>1. PICK j \in 1..n : NameAt(base[b], j) = k
      BY <1>4, <2>1
    <3>2. Load(NoIndex, Records(base[b]))[k] = base[b][3 * j].rec.loc
      BY <1>2, <1>4, <1>6, <3>1, LoadComplete
    <3>3. base[b][3 * j].rec.loc = index[b][k]
      BY <1>4, <3>1 DEF Agrees
    <3> QED BY <1>7, <3>2, <3>3
  <2>2. CASE index[b][k] = NoLoc
    <3>1. \A j \in 1..n : NameAt(base[b], j) # k
      BY <1>4, <2>2 DEF Agrees
    <3>2. Load(NoIndex, Records(base[b]))[k] = NoIndex[k]
      BY <1>2, <1>4, <1>6, <3>1, LoadComplete
    <3> QED BY <1>7, <2>2, <3>2 DEF NoIndex
  <2> QED BY <2>1, <2>2
<1> QED BY <1>1, <1>5, <1>8

\* Whatever the threads, the buckets, the kills between two Writes and the moment of the
\* destructor: what a Write of this session acknowledged is on disk (engine_race.cc:212-230,
\* 262-271), in index_i.tmp or, once that is removed, in index_i.
THEOREM AcknowledgedOnDisk ==
  ASSUME Undisturbed PROVE Spec /\ EndsBetweenRecords => []AckedOnDisk
<1>1. IndInv /\ DiskInv => AckedOnDisk
  <2> SUFFICES ASSUME IndInv, DiskInv, phase \in {"open", "closing"}, NEW k \in UserKey,
                      saved[k] # NoLoc, Settled(BucketOf[k]), ReadBackAlone(k)
               PROVE  OnDisk(BucketOf[k])[k] = saved[k]
    BY DEF AckedOnDisk
  <2>1. BucketOf[k] \in Bucket /\ k \in Key
    BY ConstantsAssumption
  <2>2. CASE phase = "open" \/ tmp[BucketOf[k]] # NoFile
    <3> DEFINE old == IF base[BucketOf[k]] = NoFile THEN NoIndex
                      ELSE Load(NoIndex, Records(base[BucketOf[k]]))
    <3>1. tmp[BucketOf[k]] # NoFile /\ Load(old, tmp[BucketOf[k]])[k] = saved[k]
      <4> HIDE DEF old
      <4> QED BY <2>2, LogIsLoaded
    <3> QED BY <3>1 DEF OnDisk, LoadFiles
  <2>3. CASE phase = "closing" /\ tmp[BucketOf[k]] = NoFile
    <3>1. BucketOf[k] < cur
      BY <2>1, <2>3 DEF DiskInv, ClosingInv, IndInv, TypeOK, Bucket
    <3>2. OnDisk(BucketOf[k])[k] = index[BucketOf[k]][k]
      BY <2>1, <2>3, <3>1, DoneBucket
    <3>3. index[BucketOf[k]][k] = saved[k]
      BY <2>3 DEF DiskInv, ClosingInv
    <3> QED BY <3>2, <3>3
  <2> QED BY <2>2, <2>3
<1> QED BY <1>1, DiskInductive, Inductive, PTL

\* When the destructor is done with a bucket, index_i is the index, whatever was in that file
\* before it was written over (engine_race.cc:216-225, no O_TRUNC).
THEOREM SavedExactly ==
  ASSUME Undisturbed PROVE Spec /\ EndsBetweenRecords => []SavedIsIndex
<1>1. IndInv /\ DiskInv => SavedIsIndex
  BY DoneBucket DEF SavedIsIndex
<1> QED BY <1>1, DiskInductive, Inductive, PTL

\* Open finds every file that it expects, and none cut off, after any number of sessions and
\* kills between two Writes (engine_race.cc:66-206).
THEOREM OpenAlwaysSucceeds ==
  ASSUME Undisturbed PROVE Spec /\ EndsBetweenRecords => []OpenSucceeds
<1>1. DiskInv => OpenSucceeds
  BY DEF DiskInv
<1> QED BY <1>1, DiskInductive, PTL

\* As long as there is room in the mappings of all buckets, the process ends between two records:
\* only a memcpy that runs off a mapping (engine_race.cc:262) can end it while a Write of another
\* bucket is within its record.
THEOREM RoomEndsBetweenRecords ==
  ASSUME Undisturbed PROVE Spec /\ []RoomInLogs => EndsBetweenRecords
<1>1. IndInv /\ RoomInLogs /\ [Next]_vars => EndsBetween
  <2> SUFFICES ASSUME IndInv, RoomInLogs, [Next]_vars, phase = "open", phase' = "down"
               PROVE  \A t \in Thread : pc[t] \notin {"key", "loc"}
    BY DEF EndsBetween
  <2>1. Kill \/ \E t \in Thread : WriteOverflow(t)
    BY DEF Next, vars, loop, OpenStart, OpenNoDirectory, OpenStep, OpenFresh, OpenClean,
       OpenCleanFails, OpenMerge, OpenMergeFails, OpenMergeReturns, OpenMakeData, OpenMakeTmp,
       OpenMakeFails, OpenMap, OpenMapReturns, Close, CloseStep, SaveOpen, SaveOpenFails, SaveField, SaveFieldFails, SaveDone,
       ReadMiss, ReadSeek, ReadStep, ReadMissed, ReadFinish, WriteIndex, WriteStep, WriteData,
       WriteSize, WriteKey, WriteLoc, Done
  <2>2. CASE Kill
    <3>1. KillPoint = "running"
      BY <2>2 DEF Kill, Undisturbed
    <3> QED BY <3>1 DEF KillPoint
  <2>3. ASSUME NEW t \in Thread, WriteOverflow(t) PROVE FALSE
    <3> DEFINE b == BucketOf[op[t].key]
    <3>1. pc[t] = "size" /\ Len(tmp[b]) >= ChunkRecords
      BY <2>3 DEF WriteOverflow
    <3>2. b \in Bucket /\ tmp[b] \in Seq(Record)
      BY <3>1, InsideCall DEF IndInv, ControlInv
    <3>3. tmp[b] # NoFile /\ Len(tmp[b]) \in Nat
      BY <3>2, SentinelsAssumption
    <3> QED BY <3>1, <3>2, <3>3, ConstantsAssumption DEF RoomInLogs
  <2> QED BY <2>1, <2>2, <2>3
<1>2. EndsBetweenRecords <=> [][EndsBetween]_vars
  BY DEF EndsBetweenRecords, EndsBetween
<1> QED BY <1>1, <1>2, Inductive, PTL DEF Spec
=============================================================================
