------------------------ MODULE EngineRaceStoreProofs ------------------------
(* EngineRace implements the store of engine.h (KVStore) in the behaviours where nextLoc     *)
(* happens to start at 0, only the first session writes and only it is killed, between two   *)
(* records, and no call fails: for every value of the constants that says so (WritesOnce).   *)
EXTENDS EngineRaceDiskProofs

-----------------------------------------------------------------------------
(* Where a value is *)

\* The n bytes of a file that come after the first o.
LEMMA BytesAt ==
  ASSUME NEW f \in Seq(Cell), NEW o \in Nat, NEW n \in Nat \ {0}, o + n <= Len(f)
  PROVE  LET s == SubSeq(f, o + 1, o + n)
         IN  s \in Seq(Cell) /\ Len(s) = n /\ \A i \in 1..n : s[i] = f[o + i]
<1> DEFINE p == o + 1  q == o + n
<1>1. /\ p \in Int /\ q \in Int /\ p <= q /\ q - p + 1 = n
      /\ \A i \in p..q : i \in 1..Len(f)
      /\ \A i \in 1..n : p + i - 1 = o + i
  OBVIOUS
<1>2. \A i \in p..q : f[i] \in Cell
  BY <1>1, ElementOfSeq
<1> HIDE DEF p, q
<1>3. /\ SubSeq(f, p, q) \in Seq(Cell)
      /\ Len(SubSeq(f, p, q)) = IF p <= q THEN q - p + 1 ELSE 0
      /\ \A i \in 1..(q - p + 1) : SubSeq(f, p, q)[i] = f[p + i - 1]
  BY <1>1, <1>2, SubSeqProperties
<1>4. /\ SubSeq(f, p, q) \in Seq(Cell) /\ Len(SubSeq(f, p, q)) = n
      /\ \A i \in 1..n : SubSeq(f, p, q)[i] = f[o + i]
  BY <1>1, <1>3
<1> QED BY <1>4 DEF p, q

\* A location that holds the bytes of a value is read back as that value.
LEMMA HeldValue ==
  ASSUME WritesOnce, NEW f \in Seq(Cell), NEW l \in Loc, NEW v \in Value,
         l.len = VLen[v], Holds(f, l.off, v)
  PROVE  ReadValue(f, l) = v
<1>1. VLen[v] \in Nat /\ VStr[v] = v /\ l.off \in Nat /\ l.len \in Nat
  BY ConstantsAssumption DEF WritesOnce, Loc
<1>2. CASE l.len = 0
  BY <1>2 DEF ReadValue, WritesOnce
<1>3. CASE l.len # 0
  <2> DEFINE n == VLen[v]  o == l.off  s == SubSeq(f, o + 1, o + n)
  <2>1. n \in Nat \ {0} /\ o \in Nat /\ o + n <= Len(f) /\ \A i \in 1..n : f[o + i] = <<v, i>>
    BY <1>1, <1>3 DEF Holds
  <2>2. s = Cells(v)
    <3>2. s \in Seq(Cell) /\ Len(s) = n /\ \A i \in 1..n : s[i] = f[o + i]
      <4>1. o \in Nat /\ n \in Nat \ {0} /\ o + n <= Len(f)
        BY <2>1
      <4> QED BY <4>1, BytesAt
    <3>3. Cells(v) \in Seq(Cell) /\ Len(Cells(v)) = n /\ \A i \in 1..n : Cells(v)[i] = <<v, i>>
      BY CellsType DEF Cells
    <3> HIDE DEF s, n, o
    <3> QED BY <2>1, <3>2, <3>3, SeqEqual
  <2>3. ASSUME NEW w \in Value, s = Cells(w) PROVE w = v
    <3>1. Cells(w) = [i \in 1..VLen[w] |-> <<w, i>>] /\ Cells(v) = [i \in 1..n |-> <<v, i>>]
      BY DEF Cells
    <3>2. 1 \in 1..n
      BY <2>1
    <3>3. VLen[w] \in Nat
      BY ConstantsAssumption
    <3>4. DOMAIN Cells(w) = 1..VLen[w] /\ DOMAIN Cells(v) = 1..n
      BY <3>1
    <3>5. 1 \in 1..VLen[w]
      BY <2>2, <2>3, <3>2, <3>4
    <3>6. Cells(w)[1] = <<w, 1>> /\ Cells(v)[1] = <<v, 1>>
      BY <3>1, <3>2, <3>5
    <3>7. <<w, 1>> = <<v, 1>>
      <4> HIDE DEF s, n
      <4> QED BY <2>2, <2>3, <3>6, Zenon
    <3> QED BY <3>7
  <2>4. /\ l.len # 0 /\ VLen[v] = l.len /\ l.off + l.len <= Len(f)
        /\ SubSeq(f, l.off + 1, l.off + l.len) = s
    BY <1>3, <2>1
  <2> HIDE DEF s, n, o
  <2>5. (CHOOSE w \in Value : s = Cells(w)) = v
    BY <2>2, <2>3
  <2>6. ReadValue(f, l) = VStr[CHOOSE w \in Value : s = Cells(w)]
    BY <2>2, <2>4, Zenon DEF ReadValue
  <2> QED BY <1>1, <2>5, <2>6
<1> QED BY <1>2, <1>3

\* Where a value is while nobody is inside a call: in memory or where Open would find it.
Place(b, k) == IF Loaded(b) THEN index[b][k] ELSE OnDisk(b)[k]

LEMMA IdleLocation ==
  \A k \in UserKey : (\A t \in Thread : pc[t] = "idle") => Location(k) = Place(BucketOf[k], k)
<1> SUFFICES ASSUME NEW k \in UserKey, \A t \in Thread : pc[t] = "idle"
             PROVE  Location(k) = Place(BucketOf[k], k)
  OBVIOUS
<1>1. \A t \in Thread : ~Writing(t) /\ pc[t] \notin {"key", "loc"}
  BY DEF Writing
<1>2. FinishedTmp(BucketOf[k]) = tmp[BucketOf[k]]
  BY <1>1 DEF FinishedTmp, Settled
<1> QED BY <1>1, <1>2, Zenon DEF Location, OnDisk, Place

LEMMA IdleLocationNext ==
  (\A k \in UserKey : (\A t \in Thread : pc[t] = "idle") => Location(k) = Place(BucketOf[k], k))'
BY IdleLocation, PTL

\* The values stay when the locations stay and data_i does.
LEMMA StoredKept ==
  ASSUME StoredInv, acked' = acked,
         \A k \in UserKey : /\ Location(k)' = Location(k)
                            /\ Location(k) # NoLoc => data'[BucketOf[k]] = data[BucketOf[k]]
  PROVE  StoredInv'
<1> SUFFICES ASSUME NEW k \in UserKey PROVE Stored(k)' = acked'[k]
  BY DEF StoredInv
<1>1. Stored(k) = acked[k]
  BY DEF StoredInv
<1>2. Stored(k)' = Stored(k)
  BY DEF Stored
<1> QED BY <1>1, <1>2

\* While nobody is inside a call it is enough that the places stay.
LEMMA PlacesKept ==
  ASSUME StoredInv, acked' = acked, \A t \in Thread : pc[t] = "idle" /\ pc'[t] = "idle",
         \A b \in Bucket, k \in Key :
           Place(b, k)' = Place(b, k) /\ (Place(b, k) # NoLoc => data'[b] = data[b])
  PROVE  StoredInv'
<1> SUFFICES ASSUME NEW k \in UserKey
             PROVE  /\ Location(k)' = Location(k)
                    /\ Location(k) # NoLoc => data'[BucketOf[k]] = data[BucketOf[k]]
  BY StoredKept
<1>1. BucketOf[k] \in Bucket /\ k \in Key
  BY ConstantsAssumption
<1>2. Location(k) = Place(BucketOf[k], k) /\ Location(k)' = Place(BucketOf[k], k)'
  BY IdleLocation, IdleLocationNext
<1> QED BY <1>1, <1>2

\* A step on the files and the index of one bucket.
LEMMA OneBucketMoves ==
  ASSUME StoredInv, acked' = acked, \A t \in Thread : pc[t] = "idle" /\ pc'[t] = "idle",
         NEW c \in Bucket,
         \A b \in Bucket : b # c =>
           /\ Loaded(b)' <=> Loaded(b)
           /\ index'[b] = index[b] /\ base'[b] = base[b] /\ tmp'[b] = tmp[b] /\ data'[b] = data[b],
         \A k \in Key :
           Place(c, k)' = Place(c, k) /\ (Place(c, k) # NoLoc => data'[c] = data[c])
  PROVE  StoredInv'
<1>1. ASSUME NEW b \in Bucket, NEW k \in Key, b # c
      PROVE  Place(b, k)' = Place(b, k) /\ data'[b] = data[b]
  <2>1. OnDisk(b)' = OnDisk(b)
    BY <1>1 DEF OnDisk
  <2> QED BY <1>1, <2>1 DEF Place
<1>2. ASSUME NEW b \in Bucket, NEW k \in Key
      PROVE  Place(b, k)' = Place(b, k) /\ (Place(b, k) # NoLoc => data'[b] = data[b])
  BY <1>1
<1> QED BY <1>2, PlacesKept

-----------------------------------------------------------------------------
(* Open *)

\* What is loaded depends on what was there before only where the records name no key.
LEMMA LoadSame ==
  ASSUME NEW idx, NEW jdx, NEW recs, NEW k \in Key, idx[k] = jdx[k]
  PROVE  Load(idx, recs)[k] = Load(jdx, recs)[k]
BY DEF Load

LEMMA LoadNothing ==
  ASSUME NEW idx, NEW k \in Key
  PROVE  Load(idx, <<>>)[k] = idx[k]
<1>1. ~Found(<<>>, k)
  BY EmptySeq DEF Found
<1> QED BY <1>1 DEF Load

\* No step of Open changes what a key's value is, and what is not loaded is empty.
LEMMA OpenStored ==
  ASSUME Undisturbed, ControlInv, DiskInv, StoredInv, UnloadedInv,
         OpenStart \/ OpenNoDirectory \/ OpenStep
  PROVE  StoredInv' /\ UnloadedInv'
<1>0. ~(OpenCleanFails \/ OpenMergeFails \/ OpenMergeReturns \/ OpenMakeFails \/ OpenMapReturns
          \/ OpenNoDirectory)
  BY OpenFailsNever
<1>1. /\ phase \in {"down", "opening"} /\ acked' = acked
      /\ \A t \in Thread : pc[t] = "idle" /\ pc'[t] = "idle"
  <2>1. /\ phase \in {"down", "opening"} /\ acked' = acked /\ pc' = pc
    BY <1>0 DEF OpenStart, OpenStep, OpenFresh, OpenClean, OpenMerge, OpenMakeData, OpenMakeTmp,
       OpenMap, threads, hist
  <2> QED BY <2>1, NobodyOutside
<1>2. /\ cur \in Bucket /\ Bucket \subseteq Nat /\ base \in [Bucket -> Seq(Field) \cup {NoFile}]
      /\ tmp \in [Bucket -> Seq(Record) \cup {NoFile}] /\ DOMAIN data = Bucket /\ DOMAIN index = Bucket
      /\ \A b \in Bucket, k \in Key : ~Loaded(b) => index[b][k] = NoLoc
      /\ \A b \in Bucket : Making(b) => tmp[b] = <<>>
      /\ <<>> # NoFile
  <2>1. /\ cur \in Bucket /\ base \in [Bucket -> Seq(Field) \cup {NoFile}]
        /\ tmp \in [Bucket -> Seq(Record) \cup {NoFile}] /\ DOMAIN data = Bucket /\ DOMAIN index = Bucket
    BY DEF ControlInv, TypeOK, FileOf
  <2>2. <<>> # NoFile
    BY SentinelsAssumption, EmptySeq
  <2>3. Bucket \subseteq Nat
    BY DEF Bucket
  <2> QED BY <2>1, <2>2, <2>3 DEF UnloadedInv
<1>3. CASE OpenStart
  <2>1. /\ phase = "down" /\ phase' = "opening" /\ cur' = 1 /\ ostep' = "look"
        /\ UNCHANGED <<base, tmp, data, index>>
    BY <1>3 DEF OpenStart, files
  <2>2. \A b \in Bucket : ~Loaded(b) /\ ~Loaded(b)' /\ ~Making(b)'
    BY <2>1 DEF Loaded, Making, Bucket
  <2>3. \A b \in Bucket, k \in Key : Place(b, k)' = Place(b, k)
    BY <2>1, <2>2 DEF Place, OnDisk
  <2>4. UnloadedInv'
    BY <1>2, <2>1, <2>2 DEF UnloadedInv
  <2> QED BY <1>1, <2>1, <2>3, <2>4, PlacesKept
<1>4. CASE OpenFresh
  <2>1. /\ phase = "opening" /\ ostep = "look" /\ tmp' = [tmp EXCEPT ![cur] = <<>>]
        /\ tmp[cur] = NoFile /\ base[cur] = NoFile /\ ostep' = "mkdata"
        /\ UNCHANGED <<base, data, index, phase, cur>>
    BY <1>4 DEF OpenFresh, Undisturbed, mem
  <2>2. \A b \in Bucket : /\ Loaded(b)' <=> Loaded(b)
                          /\ tmp'[b] = IF b = cur THEN <<>> ELSE tmp[b]
    BY <1>2, <2>1 DEF Loaded
  <2>3. ASSUME NEW k \in Key PROVE Place(cur, k)' = Place(cur, k)
    <3>1. ~Loaded(cur) /\ ~Loaded(cur)'
      BY <1>2, <2>1 DEF Loaded, Bucket
    <3>2. OnDisk(cur)[k] = NoLoc
      BY <2>1 DEF OnDisk, LoadFiles, NoIndex
    <3>3. OnDisk(cur)'[k] = Load(NoIndex, <<>>)[k]
      BY <1>2, <2>1, <2>2 DEF OnDisk, LoadFiles
    <3>4. OnDisk(cur)'[k] = NoLoc
      BY <3>3, LoadNothing DEF NoIndex
    <3> QED BY <3>1, <3>2, <3>4 DEF Place
  <2>4. UnloadedInv'
    BY <1>2, <2>1, <2>2 DEF UnloadedInv, Making
  <2> QED BY <1>1, <1>2, <2>1, <2>2, <2>3, <2>4, OneBucketMoves
<1>5. CASE OpenClean
  <2>1. /\ phase = "opening" /\ ostep = "look" /\ ostep' = "map" /\ tmp[cur] = NoFile
        /\ base[cur] # NoFile /\ tmp' = [tmp EXCEPT ![cur] = <<>>]
        /\ index' = [index EXCEPT ![cur] = Load(index[cur], Records(base[cur]))]
        /\ UNCHANGED <<base, data, phase, cur>>
    BY <1>5 DEF OpenClean, LoadClean
  <2>2. \A b \in Bucket : b # cur =>
          (Loaded(b)' <=> Loaded(b)) /\ index'[b] = index[b] /\ tmp'[b] = tmp[b]
    BY <1>2, <2>1 DEF Loaded
  <2>3. ~Loaded(cur) /\ Loaded(cur)'
    BY <1>2, <2>1 DEF Loaded, Bucket
  <2>4. ASSUME NEW k \in Key PROVE Place(cur, k)' = Place(cur, k)
    <3>1. index'[cur'][k] = Load(index[cur], Records(base[cur]))[k]
      BY <1>2, <2>1
    <3>2. OnDisk(cur)[k] = Load(NoIndex, Records(base[cur]))[k]
      BY <2>1 DEF OnDisk, LoadFiles
    <3>3. index[cur][k] = NoIndex[k]
      BY <1>2, <2>3 DEF NoIndex
    <3> QED BY <2>1, <2>3, <3>1, <3>2, <3>3, LoadSame DEF Place
  <2>5. UnloadedInv'
    BY <1>2, <2>1, <2>2, <2>3 DEF UnloadedInv, Making
  <2> QED BY <1>1, <1>2, <2>1, <2>2, <2>4, <2>5, OneBucketMoves
<1>6. CASE OpenMerge
  <2> DEFINE old == IF base[cur] = NoFile THEN index[cur] ELSE Load(index[cur], Records(base[cur]))
             new == IF base[cur] = NoFile THEN NoIndex ELSE Load(NoIndex, Records(base[cur]))
  <2>1. /\ phase = "opening" /\ ostep = "look" /\ ostep' = "retmp" /\ tmp[cur] # NoFile
        /\ tmp' = [tmp EXCEPT ![cur] = NoFile]
        /\ index' = [index EXCEPT ![cur] = Load(old, tmp[cur])]
        /\ UNCHANGED <<base, data, phase, cur>>
    BY <1>6 DEF OpenMerge, LoadMerged, LoadTmp, Undisturbed
  <2>2. \A b \in Bucket : b # cur =>
          (Loaded(b)' <=> Loaded(b)) /\ index'[b] = index[b] /\ tmp'[b] = tmp[b]
    BY <1>2, <2>1 DEF Loaded
  <2>3. ~Loaded(cur) /\ Loaded(cur)'
    BY <1>2, <2>1 DEF Loaded, Bucket
  <2>4. ASSUME NEW k \in Key PROVE Place(cur, k)' = Place(cur, k)
    <3>1. index'[cur'][k] = Load(old, tmp[cur])[k]
      BY <1>2, <2>1
    <3>2. OnDisk(cur)[k] = Load(new, tmp[cur])[k]
      BY <2>1 DEF OnDisk, LoadFiles
    <3>3. index[cur][k] = NoIndex[k]
      BY <1>2, <2>3 DEF NoIndex
    <3>4. old[k] = new[k]
      BY <3>3, LoadSame
    <3> HIDE DEF old, new
    <3> QED BY <2>1, <2>3, <3>1, <3>2, <3>4, LoadSame DEF Place
  <2>5. UnloadedInv'
    BY <1>2, <2>1, <2>2, <2>3 DEF UnloadedInv, Making
  <2> QED BY <1>1, <1>2, <2>1, <2>2, <2>4, <2>5, OneBucketMoves
<1>7. CASE OpenMakeData
  <2>1. /\ phase = "opening" /\ ostep = "mkdata" /\ ostep' = "map"
        /\ \A b \in Bucket : b # cur => data'[b] = data[b]
        /\ UNCHANGED <<base, tmp, index, phase, cur>>
    BY <1>2, <1>7 DEF OpenMakeData, mem
  <2>2. \A b \in Bucket : b # cur => (Loaded(b)' <=> Loaded(b))
    BY <2>1 DEF Loaded
  <2>3. ~Loaded(cur) /\ Loaded(cur)'
    BY <1>2, <2>1 DEF Loaded, Bucket
  <2>4. ASSUME NEW k \in Key PROVE Place(cur, k) = NoLoc /\ Place(cur, k)' = NoLoc
    <3>1. base[cur] = NoFile /\ tmp[cur] = <<>>
      BY <1>2, <2>1 DEF DiskInv, FilesAt, Making
    <3>2. OnDisk(cur)[k] = Load(NoIndex, <<>>)[k]
      BY <1>2, <3>1 DEF OnDisk, LoadFiles
    <3>3. OnDisk(cur)[k] = NoLoc
      BY <3>2, LoadNothing DEF NoIndex
    <3>4. index[cur][k] = NoLoc
      BY <1>2, <2>3
    <3> QED BY <2>1, <2>3, <3>3, <3>4 DEF Place
  <2>5. UnloadedInv'
    BY <1>2, <2>1, <2>2, <2>3 DEF UnloadedInv, Making
  <2> QED BY <1>1, <1>2, <2>1, <2>2, <2>4, <2>5, OneBucketMoves
<1>8. CASE OpenMakeTmp
  <2>1. /\ phase = "opening" /\ ostep = "retmp" /\ ostep' = "map"
        /\ \A b \in Bucket : b # cur => tmp'[b] = tmp[b]
        /\ UNCHANGED <<base, data, index, phase, cur>>
    BY <1>2, <1>8 DEF OpenMakeTmp, mem
  <2>2. \A b \in Bucket : Loaded(b)' <=> Loaded(b)
    BY <2>1 DEF Loaded
  <2>3. Loaded(cur) /\ Loaded(cur)'
    BY <2>1 DEF Loaded
  <2>4. \A k \in Key : Place(cur, k)' = Place(cur, k)
    BY <2>1, <2>3 DEF Place
  <2>5. UnloadedInv'
    BY <1>2, <2>1, <2>2 DEF UnloadedInv, Making
  <2> QED BY <1>1, <1>2, <2>1, <2>2, <2>4, <2>5, OneBucketMoves
<1>9. CASE OpenMap
  <2>1. /\ phase = "opening" /\ ostep = "map" /\ ostep' = "look"
        /\ \/ cur < NB /\ cur' = cur + 1 /\ phase' = phase
           \/ ~(cur < NB) /\ cur' = 1 /\ phase' = "open"
        /\ UNCHANGED <<base, tmp, data, index>>
    BY <1>9 DEF OpenMap, mem, files
  <2>2. ASSUME NEW b \in Bucket PROVE Loaded(b)' <=> Loaded(b)
    <3>1. b \in Nat /\ cur \in Nat /\ (~(cur < NB) => b <= cur)
      BY <1>2, ConstantsAssumption DEF Bucket
    <3>2. Loaded(b) <=> b <= cur
      BY <2>1, <3>1 DEF Loaded
    <3>3. CASE cur < NB /\ cur' = cur + 1 /\ phase' = phase
      <4>1. b < cur + 1 <=> b <= cur
        BY <3>1
      <4> QED BY <2>1, <3>2, <3>3, <4>1 DEF Loaded
    <3>4. CASE ~(cur < NB) /\ phase' = "open"
      BY <3>1, <3>2, <3>4 DEF Loaded
    <3> QED BY <2>1, <3>3, <3>4
  <2>3. \A b \in Bucket, k \in Key : Place(b, k)' = Place(b, k)
    BY <2>1, <2>2 DEF Place, OnDisk
  <2>4. UnloadedInv'
    BY <1>2, <2>1, <2>2 DEF UnloadedInv, Making
  <2> QED BY <1>1, <2>1, <2>3, <2>4, PlacesKept
<1> QED BY <1>0, <1>3, <1>4, <1>5, <1>6, <1>7, <1>8, <1>9 DEF OpenStep

\* A step of NextLocStartsAtZero.
StartsAtZero == phase = "down" /\ phase' = "opening" /\ session' = 1
                  => \A b \in Bucket : nextOff'[b] = 0

\* The first Open makes every file anew and leaves them, and the indexes, empty.
LEMMA OpenFirst ==
  ASSUME WritesOnce, ControlInv, ControlInv', DiskInv, StoredInv, UnloadedInv, FirstInv,
         OpenStart \/ OpenNoDirectory \/ OpenStep, StartsAtZero
  PROVE  FirstInv'
<1>0. ~(OpenCleanFails \/ OpenMergeFails \/ OpenMergeReturns \/ OpenMakeFails \/ OpenMapReturns
          \/ OpenNoDirectory)
  BY OpenFailsNever DEF WritesOnce
<1>1. cur \in Bucket /\ session \in Nat /\ <<>> # NoFile /\ Undisturbed
  <2>1. <<>> # NoFile
    BY SentinelsAssumption, EmptySeq
  <2>2. session \in Nat
    BY ConstantsAssumption DEF ControlInv, TypeOK
  <2> QED BY <2>1, <2>2 DEF WritesOnce, ControlInv, TypeOK
<1>2. CASE OpenStart
  <2>1. /\ phase = "down" /\ phase' = "opening" /\ session' = session + 1
        /\ UNCHANGED <<base, tmp, data, index>>
    BY <1>2 DEF OpenStart, files
  <2>2. \A b \in Bucket, k \in Key : index'[b][k] = NoLoc
    BY <2>1 DEF UnloadedInv, Loaded
  <2>3. session' = 1 => \A b \in Bucket : Unused(b) /\ nextOff'[b] = 0
    BY <1>1, <2>1 DEF FirstInv, StartsAtZero
  <2>4. session' # 0
    BY <1>1, <2>1
  <2> QED BY <2>1, <2>2, <2>3, <2>4 DEF FirstInv, Unused
<1>3. CASE OpenFresh \/ OpenClean \/ OpenMerge \/ OpenMakeData \/ OpenMakeTmp
  <2>1. /\ phase = "opening" /\ phase' = "opening" /\ session' = session /\ cur' = cur
        /\ UNCHANGED <<base, nextOff>>
    BY <1>3 DEF OpenFresh, OpenClean, OpenMerge, OpenMakeData, OpenMakeTmp, mem
  <2>2. session # 0
    BY <2>1 DEF FirstInv
  <2>3. ASSUME session = 1, NEW b \in Bucket
        PROVE  /\ tmp'[b] \in {NoFile, <<>>} /\ data'[b] \in {NoFile, <<>>}
               /\ \A k \in Key : index'[b][k] = NoLoc
    <3>1. /\ base[b] = NoFile /\ tmp[b] \in {NoFile, <<>>} /\ data[b] \in {NoFile, <<>>}
          /\ \A k \in Key : index[b][k] = NoLoc
      BY <2>1, <2>3 DEF FirstInv
    <3>2. CASE OpenFresh \/ OpenMakeData \/ OpenMakeTmp
      <4>1. index' = index /\ tmp'[b] \in {tmp[b], <<>>} /\ data'[b] \in {data[b], <<>>}
        BY <3>2 DEF OpenFresh, OpenMakeData, OpenMakeTmp, mem, ControlInv, TypeOK
      <4> QED BY <3>1, <4>1
    <3>3. CASE OpenClean
      <4>1. b # cur
        BY <3>1, <3>3 DEF OpenClean
      <4>2. data' = data /\ index'[b] = index[b] /\ tmp'[b] = tmp[b]
        BY <3>3, <4>1 DEF OpenClean, LoadClean
      <4> QED BY <3>1, <4>2
    <3>4. CASE OpenMerge
      <4>1. /\ data' = data /\ tmp[cur] # NoFile
            /\ tmp'[b] = IF b = cur THEN NoFile ELSE tmp[b]
            /\ index'[b] = IF b = cur
                           THEN Load(IF base[b] = NoFile THEN index[b]
                                     ELSE Load(index[b], Records(base[b])), tmp[b])
                           ELSE index[b]
        BY <1>1, <3>4 DEF OpenMerge, LoadMerged, LoadTmp, ControlInv, TypeOK, Undisturbed
      <4>2. CASE b = cur
        <5>1. tmp[b] = <<>> /\ index'[b] = Load(index[b], <<>>)
          BY <3>1, <4>1, <4>2
        <5>2. \A k \in Key : index'[b][k] = NoLoc
          BY <3>1, <5>1, LoadNothing
        <5> QED BY <3>1, <4>1, <5>2
      <4>3. CASE b # cur
        BY <3>1, <4>1, <4>3
      <4> QED BY <4>2, <4>3
    <3> QED BY <1>3, <3>2, <3>3, <3>4
  <2>4. session = 1 => \A b \in Bucket : base[b] = NoFile /\ nextOff[b] = 0
    BY <2>1 DEF FirstInv
  <2> QED BY <2>1, <2>2, <2>3, <2>4 DEF FirstInv
<1>4. CASE OpenMap
  <2>1. /\ phase = "opening" /\ phase' \in {"opening", "open"} /\ session' = session
        /\ UNCHANGED <<base, tmp, data, index, nextOff, fdpos, acked, saved, pc, op>>
    BY <1>4 DEF OpenMap, files, mem, hist, threads
  <2>2. session # 0 /\ \A t \in Thread : pc[t] = "idle"
    BY <2>1, NobodyOutside DEF FirstInv
  <2>3. ASSUME session = 1, phase' = "open"
        PROVE  /\ \A b \in Bucket : AppendInv(b)'
               /\ \A t \in Thread : AppendedInv(t)'
               /\ \A k \in UserKey : KeyInv(k)'
    <3>1. \A b \in Bucket : /\ base[b] = NoFile /\ tmp[b] = <<>> /\ data[b] = <<>>
                            /\ nextOff[b] = 0 /\ fdpos[b] = 0
                            /\ \A k \in Key : index[b][k] = NoLoc
      BY <2>1, <2>3 DEF FirstInv, ControlInv, LoopInv
    <3>2. Len(<<>>) = 0
      BY EmptySeq
    <3>3. ASSUME NEW k \in UserKey PROVE KeyInv(k)'
      <4>1. BucketOf[k] \in Bucket /\ k \in Key
        BY ConstantsAssumption
      <4>2. saved[k] = NoLoc
        BY <2>1 DEF ControlInv, LoopInv
      <4>3. Place(BucketOf[k], k) = NoLoc
        <5>1. OnDisk(BucketOf[k])[k] = Load(NoIndex, <<>>)[k]
          BY <1>1, <3>1, <4>1 DEF OnDisk, LoadFiles
        <5>2. OnDisk(BucketOf[k])[k] = NoLoc
          BY <4>1, <5>1, LoadNothing DEF NoIndex
        <5> QED BY <3>1, <4>1, <5>2 DEF Place
      <4>4. acked[k] = NoValue
        BY <2>2, <4>3, IdleLocation DEF StoredInv, Stored
      <4>5. Len(tmp'[BucketOf[k]]) = 0 /\ index'[BucketOf[k]][k] = NoLoc
        BY <2>1, <3>1, <3>2, <4>1
      <4> QED BY <2>1, <4>2, <4>4, <4>5 DEF KeyInv
    <3>4. \A b \in Bucket : AppendInv(b)'
      BY <2>1, <3>1, <3>2 DEF AppendInv
    <3>5. \A t \in Thread : AppendedInv(t)'
      BY <2>1, <2>2 DEF AppendedInv, Appended
    <3> QED BY <3>3, <3>4, <3>5
  <2>4. phase' = "opening" => FirstInv'
    BY <2>1, <2>2 DEF FirstInv
  <2> QED BY <2>1, <2>2, <2>3, <2>4 DEF FirstInv
<1> QED BY <1>0, <1>2, <1>3, <1>4 DEF OpenStep

-----------------------------------------------------------------------------
(* The destructor *)

\* When the destructor is through with the keys of a bucket, index_i holds the index.
LEMMA LastBucket ==
  ASSUME Undisturbed, ControlInv, DiskInv, Saving(cur), todo = <<>>, NEW k \in Key
  PROVE  Load(NoIndex, Records(base[cur]))[k] = index[cur][k] /\ base[cur] # NoFile
<1>1. cur \in Bucket /\ base[cur] \in Seq(Field) /\ base[cur] # NoFile /\ Len(base[cur]) \in Nat
  BY DEF ControlInv, TypeOK, DiskInv, FileOf
<1>2. PICK n \in 0..Len(base[cur]) : SavedSoFar(n)
  BY DEF DiskInv
<1>3. /\ n \in Nat /\ Len(base[cur]) = 3 * n /\ Complete(base[cur], n) /\ Agrees(base[cur], n, index[cur])
      /\ index[cur][k] # NoLoc => \E j \in 1..n : NameAt(base[cur], j) = k
  <2>1. Len(todo) = 0
    BY EmptySeq
  <2>2. /\ Complete(base[cur], n) /\ Agrees(base[cur], n, index[cur])
        /\ Len(base[cur]) <= 3 * (n + Len(todo))
        /\ index[cur][k] # NoLoc =>
             (\E j \in 1..n : NameAt(base[cur], j) = k) \/ (\E i \in 1..Len(todo) : todo[i] = k)
    BY <1>2 DEF SavedSoFar
  <2>3. 3 * n <= Len(base[cur])
    BY <2>2 DEF Complete
  <2>4. Len(base[cur]) = 3 * n
    BY <1>1, <2>1, <2>2, <2>3
  <2>5. \A i \in 1..Len(todo) : FALSE
    BY <2>1
  <2> QED BY <2>2, <2>4, <2>5
<1>4. \A j \in Key : CStr[j] = j
  BY DEF Undisturbed
<1>5. CASE index[cur][k] # NoLoc
  <2>1. PICK j \in 1..n : NameAt(base[cur], j) = k
    BY <1>3, <1>5
  <2>2. Load(NoIndex, Records(base[cur]))[k] = base[cur][3 * j].rec.loc
    BY <1>1, <1>3, <1>4, <2>1, LoadComplete
  <2> QED BY <1>1, <1>3, <2>1, <2>2 DEF Agrees
<1>6. CASE index[cur][k] = NoLoc
  <2>1. \A j \in 1..n : NameAt(base[cur], j) # k
    BY <1>3, <1>6 DEF Agrees
  <2>2. Load(NoIndex, Records(base[cur]))[k] = NoIndex[k]
    BY <1>1, <1>3, <1>4, <2>1, LoadComplete
  <2> QED BY <1>1, <1>6, <2>2 DEF NoIndex
<1> QED BY <1>5, <1>6

\* A step of the destructor changes no value: the index that is saved is what Open will load.
LEMMA CloseStored ==
  ASSUME Undisturbed, IndInv, DiskInv, StoredInv, UnloadedInv, Close \/ CloseStep
  PROVE  StoredInv' /\ UnloadedInv'
<1>0. ControlInv /\ Bucket \subseteq Nat /\ cur \in Bucket
  BY DEF IndInv, ControlInv, TypeOK, Bucket
<1>1. /\ phase \in {"open", "closing"} /\ UNCHANGED <<data, acked>>
      /\ \A t \in Thread : pc[t] = "idle" /\ pc'[t] = "idle"
      /\ \A b \in Bucket : Loaded(b)
  <2>1. /\ phase \in {"open", "closing"} /\ UNCHANGED <<data, acked>>
        /\ pc' = pc \/ pc' = [t \in Thread |-> "idle"]
    BY DEF Close, CloseStep, SaveOpen, SaveOpenFails, SaveField, SaveFieldFails, SaveDone, Forget, files, threads, hist
  <2>2. \A t \in Thread : pc[t] = "idle"
    BY <1>0, NobodyOutside DEF Close, CloseStep, SaveOpen, SaveOpenFails, SaveField, SaveFieldFails, SaveDone
  <2> QED BY <2>1, <2>2 DEF Loaded
<1>2. CASE ~Forget
  <2>1. phase' = "closing" /\ index' = index
    BY <1>2 DEF Close, CloseStep, SaveOpen, SaveOpenFails, SaveField, SaveFieldFails, SaveDone, mem, loop
  <2>2. \A b \in Bucket, k \in Key : Place(b, k)' = Place(b, k)
    BY <1>1, <2>1 DEF Place, Loaded
  <2>3. UnloadedInv'
    BY <2>1 DEF UnloadedInv, Loaded, Making
  <2> QED BY <1>1, <2>2, <2>3, PlacesKept
<1>3. CASE Forget
  <2>1. /\ phase' = "down" /\ index' = EmptyIndex /\ cur = NB /\ Saving(cur) /\ todo = <<>>
        /\ base' = base /\ tmp' = [tmp EXCEPT ![cur] = NoFile]
    <3>1. phase' = "down" /\ index' = EmptyIndex
      BY <1>3 DEF Forget
    <3>2. SaveDone
      BY <3>1 DEF Close, CloseStep, SaveOpen, SaveOpenFails, SaveField, SaveFieldFails, loop
    <3>3. cur = NB
      BY <1>0, <3>1, <3>2, ConstantsAssumption DEF SaveDone
    <3> QED BY <3>1, <3>2, <3>3 DEF SaveDone, Saving
  <2>2. ASSUME NEW b \in Bucket, NEW k \in Key PROVE Place(b, k)' = Place(b, k)
    <3>1. Place(b, k) = index[b][k] /\ Place(b, k)' = OnDisk(b)'[k]
      BY <1>1, <2>1 DEF Place, Loaded
    <3>2. CASE b = cur
      <4>1. tmp'[b] = NoFile
        BY <1>0, <2>1, <3>2 DEF ControlInv, TypeOK
      <4>2. Load(NoIndex, Records(base[b]))[k] = index[b][k] /\ base[b] # NoFile
        BY <1>0, <2>1, <3>2, LastBucket
      <4>3. OnDisk(b)' = Load(NoIndex, Records(base[b]))
        BY <2>1, <4>1, <4>2 DEF OnDisk, LoadFiles
      <4> QED BY <3>1, <4>2, <4>3
    <3>3. CASE b # cur
      <4>1. b < cur
        BY <1>0, <2>1, <3>3, ConstantsAssumption DEF Bucket
      <4>2. phase = "closing"
        BY <2>1 DEF Saving
      <4>3. OnDisk(b)[k] = index[b][k]
        BY <4>1, <4>2, DoneBucket
      <4>4. tmp'[b] = tmp[b]
        BY <2>1, <3>3
      <4>5. OnDisk(b)' = OnDisk(b)
        BY <2>1, <4>4 DEF OnDisk
      <4> QED BY <3>1, <4>3, <4>5
    <3> QED BY <3>2, <3>3
  <2>3. UnloadedInv'
    BY <2>1 DEF UnloadedInv, EmptyIndex, Making
  <2> QED BY <1>1, <2>2, <2>3, PlacesKept
<1> QED BY <1>2, <1>3

-----------------------------------------------------------------------------
(* The first session: everything goes to the end of data_i and of index_i.tmp *)

FirstUse == session = 1 /\ phase = "open"

\* What Open would find of the finished records is what was acknowledged.
LEMMA FinishedLoaded ==
  ASSUME Undisturbed, IndInv, FirstInv, FirstUse, NEW k \in UserKey
  PROVE  LoadFiles(base[BucketOf[k]], FinishedTmp(BucketOf[k]))[k] = saved[k]
<1> DEFINE b == BucketOf[k]  recs == FinishedTmp(b)
<1>1. /\ b \in Bucket /\ k \in Key /\ tmp[b] \in Seq(Record) /\ tmp[b] # NoFile /\ base[b] = NoFile
      /\ KeyInv(k) /\ CStr[k] = k /\ \A j \in Key : CStr[j] = j
  <2>1. b \in Bucket /\ k \in Key
    BY ConstantsAssumption
  <2> QED BY <2>1 DEF IndInv, TypeOK, LoopInv, FirstInv, FirstUse, AppendInv, FileOf, Undisturbed
<1>2. /\ recs \in Seq(Record) /\ Len(recs) <= Len(tmp[b]) /\ recs # NoFile
      /\ \A i \in 1..Len(recs) : recs[i] = tmp[b][i] /\ ~Unfinished(b, i)
      /\ \A i \in 1..Len(tmp[b]) : ~Unfinished(b, i) => i \in 1..Len(recs)
  <2>1. CASE Settled(b)
    <3>1. recs = tmp[b]
      BY <2>1 DEF FinishedTmp
    <3>2. \A i : ~Unfinished(b, i)
      BY <2>1 DEF Unfinished, Settled
    <3> HIDE DEF recs, b
    <3> QED BY <1>1, <3>1, <3>2
  <2>2. CASE ~Settled(b)
    <3>1. PICK t \in Thread : pc[t] \in {"key", "loc"} /\ BucketOf[op[t].key] = b
      BY <2>2 DEF Settled
    <3>2. Len(tmp[b]) > 0 /\ Len(tmp[b]) \in Nat
      <4>1. WriterInv(t)
        BY DEF IndInv, LogInv
      <4>2. Len(tmp[b]) > 0
        BY <3>1, <4>1 DEF WriterInv
      <4>3. Len(tmp[b]) \in Nat
        BY <1>1, LenProperties
      <4> QED BY <4>2, <4>3
    <3>3. \A i : Unfinished(b, i) <=> i = Len(tmp[b])
      BY <3>1 DEF Unfinished
    <3>4. recs = SubSeq(tmp[b], 1, Len(tmp[b]) - 1)
      BY <1>1, <2>2 DEF FinishedTmp
    <3>5. /\ recs \in Seq(Record) /\ Len(recs) = Len(tmp[b]) - 1
          /\ \A i \in 1..Len(recs) : recs[i] = tmp[b][i]
      <4> HIDE DEF b, recs
      <4> QED BY <1>1, <3>2, <3>4
    <3>6. recs # NoFile
      BY <3>5, SentinelsAssumption
    <3> HIDE DEF recs, b
    <3> QED BY <3>2, <3>3, <3>5, <3>6
  <2> QED BY <2>1, <2>2
<1>3. LoadFiles(base[b], recs) = Load(NoIndex, recs)
  BY <1>1, <1>2 DEF LoadFiles
<1>4. CASE saved[k] = NoLoc
  <2>1. \A i \in 1..Len(tmp[b]) : Unfinished(b, i) \/ tmp[b][i].key # k
    BY <1>1, <1>4 DEF KeyInv
  <2>2. \A i \in 1..Len(recs) : i \in 1..Len(tmp[b])
    <3>1. Len(recs) \in Nat /\ Len(tmp[b]) \in Nat /\ Len(recs) <= Len(tmp[b])
      BY <1>1, <1>2
    <3> HIDE DEF recs, b
    <3> QED BY <3>1
  <2>3. \A i \in 1..Len(recs) : recs[i].key # k
    BY <1>2, <2>1, <2>2
  <2> HIDE DEF recs
  <2>4. Load(NoIndex, recs)[k] = NoIndex[k]
    BY <1>1, <1>2, <2>3, LoadKeeps
  <2> QED BY <1>1, <1>3, <1>4, <2>4 DEF NoIndex, recs
<1>5. CASE saved[k] # NoLoc
  <2>1. PICK i \in 1..Len(tmp[b]) : LoggedAt(k, i)
    BY <1>5 DEF IndInv, LogInv, FirstUse
  <2>2. /\ ~Unfinished(b, i) /\ tmp[b][i] = [key |-> k, loc |-> saved[k]]
        /\ \A j \in 1..Len(tmp[b]) : j > i /\ ~Unfinished(b, j) => tmp[b][j].key # k
    BY <2>1 DEF LoggedAt
  <2>3. i \in 1..Len(recs) /\ recs[i].key = k /\ recs[i].loc = saved[k]
    BY <1>2, <2>1, <2>2
  <2>4. \A j \in 1..Len(recs) : j \in 1..Len(tmp[b]) /\ recs[j].key \in Key
    <3>1. Len(recs) \in Nat /\ Len(tmp[b]) \in Nat /\ Len(recs) <= Len(tmp[b])
      BY <1>1, <1>2
    <3>2. \A j \in 1..Len(recs) : recs[j] \in Record
      BY <1>2, ElementOfSeq
    <3> HIDE DEF recs, b
    <3> QED BY <3>1, <3>2 DEF Record
  <2>5. \A j \in 1..Len(recs) : j > i => CStr[recs[j].key] # k
    BY <1>1, <1>2, <2>2, <2>4
  <2> HIDE DEF recs
  <2>6. Load(NoIndex, recs)[k] = recs[i].loc
    BY <1>1, <1>2, <2>3, <2>5, LoadLast
  <2> QED BY <1>3, <2>3, <2>6 DEF recs
<1> QED BY <1>4, <1>5

\* In the first session the location of a key is the one that was acknowledged.
LEMMA FirstLocation ==
  ASSUME Undisturbed, IndInv, FirstInv, FirstUse, NEW k \in UserKey
  PROVE  Location(k) = saved[k]
<1> DEFINE b == BucketOf[k]
<1>1. KeyInv(k) /\ Loaded(b)
  BY DEF FirstInv, FirstUse, Loaded
<1>2. CASE \A t \in Thread : ~(Writing(t) /\ op[t].key = k)
  <2>1. Location(k) = index[b][k]
    BY <1>1, <1>2 DEF Location
  <2>2. CASE saved[k] = NoLoc
    BY <1>1, <1>2, <2>1, <2>2 DEF KeyInv
  <2>3. CASE saved[k] # NoLoc
    BY <1>2, <2>1, <2>3 DEF IndInv, LogInv, FirstUse
  <2> QED BY <2>2, <2>3
<1>3. CASE ~\A t \in Thread : ~(Writing(t) /\ op[t].key = k)
  <2>1. Location(k) = LoadFiles(base[b], FinishedTmp(b))[k]
    BY <1>3, Zenon DEF Location
  <2> QED BY <2>1, FinishedLoaded
<1> QED BY <1>2, <1>3

\* The values of the first session are those that were acknowledged.
LEMMA FirstStored ==
  WritesOnce => (IndInv /\ FirstInv /\ FirstUse => StoredInv)
<1> SUFFICES ASSUME WritesOnce, IndInv, FirstInv, FirstUse, NEW k \in UserKey
             PROVE  Stored(k) = acked[k]
  BY DEF StoredInv
<1> DEFINE b == BucketOf[k]
<1>1. /\ b \in Bucket /\ KeyInv(k) /\ data[b] \in Seq(Cell)
      /\ saved[k] \in Loc \cup {NoLoc} /\ acked[k] \in Value \cup {NoValue}
  <2>1. b \in Bucket
    BY ConstantsAssumption
  <2> QED BY <2>1 DEF FirstInv, FirstUse, IndInv, TypeOK, LoopInv, FileOf
<1>2. Location(k) = saved[k]
  BY FirstLocation DEF WritesOnce
<1>3. CASE saved[k] = NoLoc
  BY <1>1, <1>2, <1>3 DEF Stored, KeyInv
<1>4. CASE saved[k] # NoLoc
  <2>1. /\ saved[k] \in Loc /\ acked[k] \in Value
        /\ saved[k].len = VLen[acked[k]] /\ Holds(data[b], saved[k].off, acked[k])
    BY <1>1, <1>4 DEF KeyInv
  <2>2. ReadValue(data[b], saved[k]) = acked[k]
    BY <1>1, <2>1, HeldValue
  <2> QED BY <1>2, <1>4, <2>2 DEF Stored
<1> QED BY <1>3, <1>4

LEMMA FirstStoredNext ==
  (WritesOnce => (IndInv /\ FirstInv /\ FirstUse => StoredInv))'
BY FirstStored, PTL

\* Bytes at the end of a file leave what is before them.
LEMMA OverlayEnd ==
  ASSUME NEW f \in Seq(Cell), NEW c \in Seq(Cell)
  PROVE  LET g == Overlay(f, Len(f), c) IN
         /\ g \in Seq(Cell) /\ Len(g) = Len(f) + Len(c)
         /\ \A i \in 1..Len(f) : g[i] = f[i]
         /\ \A i \in 1..Len(c) : g[Len(f) + i] = c[i]
<1> DEFINE n == Len(f)  m == Len(c)
           g == [i \in 1..(n + m) |-> IF i > n /\ i <= n + m THEN c[i - n] ELSE f[i]]
<1>1. n \in Nat /\ m \in Nat
  OBVIOUS
<1>2. (IF n > n + m THEN n ELSE n + m) = n + m
  BY <1>1
<1>3. Overlay(f, Len(f), c) = g
  BY <1>2, Zenon DEF Overlay
<1>4. Overlay(f, Len(f), c) \in Seq(Cell)
  BY <1>1, OverlayType
<1>5. Len(g) = n + m
  BY <1>1
<1>6. \A i \in 1..n : g[i] = f[i]
  BY <1>1
<1>7. \A i \in 1..m : g[n + i] = c[i]
  BY <1>1
<1> HIDE DEF g
<1> QED BY <1>3, <1>4, <1>5, <1>6, <1>7

\* A longer file holds what a shorter one held.
LEMMA HoldsKept ==
  ASSUME NEW f \in Seq(Cell), NEW g \in Seq(Cell), NEW off \in Nat, NEW v \in Value, Holds(f, off, v),
         Len(f) <= Len(g), \A i \in 1..Len(f) : g[i] = f[i]
  PROVE  Holds(g, off, v)
<1>1. VLen[v] \in Nat /\ Len(f) \in Nat /\ Len(g) \in Nat /\ off + VLen[v] <= Len(f)
  BY ConstantsAssumption DEF Holds
<1>2. \A i \in 1..VLen[v] : off + i \in 1..Len(f) /\ off + i = off + i
  BY <1>1
<1>3. \A i \in 1..VLen[v] : g[off + i] = <<v, i>>
  BY <1>2 DEF Holds
<1>4. off + VLen[v] <= Len(g)
  BY <1>1
<1> QED BY <1>3, <1>4 DEF Holds

\* What a call leaves of a key that it does not acknowledge.
LEMMA KeyFrame ==
  ASSUME NEW j \in UserKey, NEW d, d = BucketOf[j], KeyInv(j),
         acked'[j] = acked[j], saved'[j] = saved[j],
         saved[j] \in Loc \cup {NoLoc}, acked[j] \in Value \cup {NoValue},
         data[d] \in Seq(Cell), data'[d] \in Seq(Cell), Len(data[d]) <= Len(data'[d]),
         \A i \in 1..Len(data[d]) : data'[d][i] = data[d][i],
         saved[j] = NoLoc =>
           /\ \A i \in 1..Len(tmp'[d]) : Unfinished(d, i)' \/ tmp'[d][i].key # j
           /\ (\A s \in Thread : Writing(s)' => op'[s].key # j) => index'[d][j] = NoLoc
  PROVE  KeyInv(j)'
<1>1. CASE saved[j] = NoLoc
  BY <1>1 DEF KeyInv
<1>2. CASE saved[j] # NoLoc
  <2>1. /\ acked[j] \in Value /\ saved[j].off \in Nat /\ saved[j].len = VLen[acked[j]]
        /\ Holds(data[d], saved[j].off, acked[j])
    BY <1>2 DEF KeyInv, Loc
  <2>2. Holds(data'[d], saved[j].off, acked[j])
    BY <2>1, HoldsKept
  <2> QED BY <1>2, <2>1, <2>2, SentinelsAssumption DEF KeyInv
<1> QED BY <1>1, <1>2

\* A call does not touch the buckets of the others.
LEMMA AppendFrame ==
  ASSUME NEW t \in Thread, NEW b \in Bucket, NEW d \in Bucket, d # b, AppendInv(d),
         base'[d] = base[d], data'[d] = data[d], nextOff'[d] = nextOff[d], fdpos'[d] = fdpos[d],
         \A s \in Thread : s # t => pc'[s] = pc[s] /\ op'[s] = op[s],
         pc[t] # "idle" => BucketOf[op[t].key] = b
  PROVE  AppendInv(d)'
<1>1. (\A s \in Thread : pc'[s] = "read" => BucketOf[op'[s].key] # d)
        => \A s \in Thread : pc[s] = "read" => BucketOf[op[s].key] # d
  OBVIOUS
<1>2. (\A s \in Thread : Appended(s)' => BucketOf[op'[s].key] # d)
        => \A s \in Thread : Appended(s) => BucketOf[op[s].key] # d
  BY DEF Appended
<1> QED BY <1>1, <1>2 DEF AppendInv

LEMMA AppendedFrame ==
  ASSUME NEW s \in Thread, AppendedInv(s), pc'[s] = pc[s], op'[s] = op[s],
         pc[s] # "idle" => /\ data'[BucketOf[op[s].key]] = data[BucketOf[op[s].key]]
                           /\ nextOff'[BucketOf[op[s].key]] = nextOff[BucketOf[op[s].key]]
  PROVE  AppendedInv(s)'
BY DEF AppendedInv, Appended

\* What a step of a call on bucket b has to establish in the first session.
LEMMA FirstFrame ==
  ASSUME FirstInv, FirstUse, UNCHANGED <<session, phase>>, NEW t \in Thread, NEW b \in Bucket,
         \A s \in Thread : s # t => pc'[s] = pc[s] /\ op'[s] = op[s],
         \A s \in Thread : s # t /\ pc[s] # "idle" => BucketOf[op[s].key] \in Bucket \ {b},
         pc[t] # "idle" => BucketOf[op[t].key] = b,
         \A d \in Bucket : d # b => /\ base'[d] = base[d] /\ data'[d] = data[d]
                                    /\ nextOff'[d] = nextOff[d] /\ fdpos'[d] = fdpos[d],
         AppendInv(b)', AppendedInv(t)', \A j \in UserKey : KeyInv(j)'
  PROVE  FirstInv'
<1>1. \A d \in Bucket : AppendInv(d) /\ \A s \in Thread : AppendedInv(s)
  BY DEF FirstInv, FirstUse
<1>2. ASSUME NEW d \in Bucket PROVE AppendInv(d)'
  <2>1. CASE d = b
    BY <2>1
  <2>2. CASE d # b
    BY <1>1, <2>2, AppendFrame
  <2> QED BY <2>1, <2>2
<1>3. ASSUME NEW s \in Thread PROVE AppendedInv(s)'
  <2>1. CASE s = t
    BY <2>1
  <2>2. CASE s # t
    BY <1>1, <2>2, AppendedFrame
  <2> QED BY <2>1, <2>2
<1> QED BY <1>2, <1>3 DEF FirstInv, FirstUse

\* A step that acknowledges nothing and leaves index_i.tmp alone.
LEMMA KeysQuiet ==
  ASSUME IndInv, FirstInv, FirstUse, UNCHANGED <<tmp, acked, saved>>,
         \A s \in Thread : pc'[s] \in {"key", "loc"} <=> pc[s] \in {"key", "loc"},
         \A s \in Thread : pc[s] \in {"key", "loc"} => op'[s] = op[s],
         \A b \in Bucket : /\ data'[b] \in Seq(Cell) /\ Len(data[b]) <= Len(data'[b])
                           /\ \A i \in 1..Len(data[b]) : data'[b][i] = data[b][i],
         NEW j \in UserKey,
         (\A s \in Thread : Writing(s)' => op'[s].key # j) =>
           /\ \A s \in Thread : Writing(s) => op[s].key # j
           /\ index'[BucketOf[j]][j] = index[BucketOf[j]][j]
  PROVE  KeyInv(j)'
<1> DEFINE d == BucketOf[j]
<1>1. d \in Bucket
  BY ConstantsAssumption
<1>2. KeyInv(j) /\ data[d] \in Seq(Cell)
  BY <1>1 DEF FirstInv, FirstUse, IndInv, TypeOK, LoopInv, FileOf
<1>3. \A i : Unfinished(d, i)' <=> Unfinished(d, i)
  BY DEF Unfinished
<1>4. saved[j] \in Loc \cup {NoLoc} /\ acked[j] \in Value \cup {NoValue}
  BY DEF IndInv, TypeOK
<1>5. saved[j] = NoLoc =>
        /\ \A i \in 1..Len(tmp'[d]) : Unfinished(d, i)' \/ tmp'[d][i].key # j
        /\ (\A s \in Thread : Writing(s)' => op'[s].key # j) => index'[d][j] = NoLoc
  BY <1>2, <1>3 DEF KeyInv
<1> HIDE DEF d
<1> QED BY <1>1, <1>2, <1>4, <1>5, KeyFrame DEF d

\* The steps of Read.
LEMMA FirstRead ==
  ASSUME IndInv, FirstInv, FirstUse, NEW t \in Thread,
         ReadStep(t) \/ \E k \in UserKey : ReadMiss(t, k) \/ ReadSeek(t, k)
  PROVE  FirstInv'
<1>0. ControlInv
  BY DEF IndInv, ControlInv
<1>1. /\ UNCHANGED <<base, tmp, data, index, nextOff, acked, saved, session, phase>>
      /\ pc[t] \in {"idle", "miss", "read"} /\ pc'[t] \in {"idle", "miss", "read"}
      /\ \A s \in Thread : s # t => pc'[s] = pc[s] /\ op'[s] = op[s]
  BY <1>0 DEF ReadStep, ReadMissed, ReadFinish, ReadMiss, ReadSeek, ControlInv, TypeOK, files, hist, loop
<1>2. PICK b \in Bucket :
        /\ \A s \in Thread : s # t /\ pc[s] # "idle" => BucketOf[op[s].key] \in Bucket \ {b}
        /\ pc[t] # "idle" => BucketOf[op[t].key] = b
        /\ \A d \in Bucket : d # b => fdpos'[d] = fdpos[d]
        /\ pc'[t] = "read" => BucketOf[op'[t].key] = b
        /\ pc'[t] # "read" => fdpos'[b] = Len(data[b])
  <2>1. CASE ReadFinish(t)
    <3> DEFINE b == BucketOf[op[t].key]
    <3>1. pc[t] = "read" /\ pc' = [pc EXCEPT ![t] = "idle"] /\ fdpos' = [fdpos EXCEPT ![b] = Len(data[b])]
      BY <2>1 DEF ReadFinish
    <3>2. /\ b \in Bucket
          /\ \A s \in Thread : s # t /\ pc[s] # "idle" =>
                op[s].key \in UserKey /\ BucketOf[op[s].key] # b
      BY <1>0, <3>1, InsideCall
    <3>3. \A s \in Thread : s # t /\ pc[s] # "idle" => BucketOf[op[s].key] \in Bucket \ {b}
      BY <3>2, ConstantsAssumption
    <3>4. pc'[t] = "idle" /\ fdpos'[b] = Len(data[b]) /\ \A d \in Bucket : d # b => fdpos'[d] = fdpos[d]
      BY <1>0, <3>1, <3>2 DEF ControlInv, TypeOK
    <3> QED BY <3>2, <3>3, <3>4
  <2>2. ASSUME NEW k \in UserKey, ReadSeek(t, k)
        PROVE  /\ \A s \in Thread : s # t /\ pc[s] # "idle" =>
                        BucketOf[op[s].key] \in Bucket \ {BucketOf[k]}
               /\ pc[t] = "idle" /\ pc'[t] = "read" /\ op'[t].key = k /\ BucketOf[k] \in Bucket
               /\ \A d \in Bucket : d # BucketOf[k] => fdpos'[d] = fdpos[d]
    <3>1. /\ pc[t] = "idle" /\ pc' = [pc EXCEPT ![t] = "read"] /\ mu[BucketOf[k]] = NoThread
          /\ op' = [op EXCEPT ![t] = [key |-> k, val |-> NoValue]]
          /\ \A d \in Bucket : d # BucketOf[k] => fdpos'[d] = fdpos[d]
      BY <1>0, <2>2 DEF ReadSeek, ControlInv, TypeOK
    <3>2. BucketOf[k] \in Bucket
      BY ConstantsAssumption
    <3>3. \A s \in Thread : pc[s] # "idle" => BucketOf[op[s].key] \in Bucket \ {BucketOf[k]}
      BY <1>0, <3>1, SentinelsAssumption, ConstantsAssumption DEF ControlInv, ThreadInv
    <3> QED BY <1>0, <3>1, <3>2, <3>3 DEF ControlInv, TypeOK
  <2>3. ASSUME NEW k \in UserKey, ReadSeek(t, k)
        PROVE  BucketOf[k] \in Bucket /\ pc[t] = "idle" /\ pc'[t] = "read" /\ BucketOf[op'[t].key] = BucketOf[k]
    BY <2>2, <2>3
  <2>4. \A b \in Bucket :
          (\A s \in Thread : pc[s] # "idle" => s = t \/ BucketOf[op[s].key] # b) /\ pc[t] # "read"
            => fdpos[b] = Len(data[b])
    <3>1. \A b \in Bucket : AppendInv(b)
      BY DEF FirstInv, FirstUse
    <3> QED BY <3>1 DEF AppendInv
  <2>5. CASE ReadMissed(t)
    <3> DEFINE b == BucketOf[op[t].key]
    <3>1. pc[t] = "miss" /\ pc' = [pc EXCEPT ![t] = "idle"] /\ fdpos' = fdpos
      BY <2>5 DEF ReadMissed
    <3>2. /\ b \in Bucket
          /\ \A s \in Thread : s # t /\ pc[s] # "idle" =>
                op[s].key \in UserKey /\ BucketOf[op[s].key] # b
      BY <1>0, <3>1, InsideCall
    <3>3. \A s \in Thread : s # t /\ pc[s] # "idle" => BucketOf[op[s].key] \in Bucket \ {b}
      BY <3>2, ConstantsAssumption
    <3>4. pc'[t] = "idle" /\ fdpos'[b] = Len(data[b])
      BY <1>0, <2>4, <3>1, <3>2 DEF ControlInv, TypeOK
    <3> QED BY <3>1, <3>2, <3>3, <3>4
  <2>6. ASSUME NEW k \in UserKey, ReadMiss(t, k)
        PROVE  /\ \A s \in Thread : s # t /\ pc[s] # "idle" =>
                        BucketOf[op[s].key] \in Bucket \ {BucketOf[k]}
               /\ BucketOf[k] \in Bucket /\ pc[t] = "idle" /\ pc'[t] = "miss"
               /\ fdpos' = fdpos /\ fdpos'[BucketOf[k]] = Len(data[BucketOf[k]])
    <3>1. /\ pc[t] = "idle" /\ pc' = [pc EXCEPT ![t] = "miss"] /\ mu[BucketOf[k]] = NoThread
          /\ fdpos' = fdpos
      BY <2>6 DEF ReadMiss
    <3>2. BucketOf[k] \in Bucket
      BY ConstantsAssumption
    <3>3. \A s \in Thread : pc[s] # "idle" => BucketOf[op[s].key] \in Bucket \ {BucketOf[k]}
      BY <1>0, <3>1, SentinelsAssumption, ConstantsAssumption DEF ControlInv, ThreadInv
    <3>4. pc'[t] = "miss" /\ fdpos[BucketOf[k]] = Len(data[BucketOf[k]])
      BY <1>0, <2>4, <3>1, <3>2, <3>3 DEF ControlInv, TypeOK
    <3> QED BY <3>1, <3>2, <3>3, <3>4
  <2> QED BY <2>1, <2>2, <2>3, <2>5, <2>6 DEF ReadStep
<1>3. AppendInv(b)'
  <2>1. AppendInv(b)
    BY DEF FirstInv, FirstUse
  <2>2. base'[b] = NoFile
    BY <1>1, <2>1 DEF AppendInv
  <2>3. (\A s \in Thread : pc'[s] = "read" => BucketOf[op'[s].key] # b) => fdpos'[b] = Len(data'[b])
    BY <1>1, <1>2
  <2>4. (\A s \in Thread : Appended(s)' => BucketOf[op'[s].key] # b) => nextOff'[b] = Len(data'[b])
    <3>1. \A s \in Thread : Appended(s) => s # t /\ Appended(s)' /\ op'[s] = op[s]
      BY <1>1 DEF Appended
    <3> QED BY <1>1, <2>1, <3>1 DEF AppendInv
  <2> QED BY <2>2, <2>3, <2>4 DEF AppendInv
<1>4. AppendedInv(t)'
  BY <1>1 DEF AppendedInv, Appended
<1>5. ASSUME NEW j \in UserKey PROVE KeyInv(j)'
  <2>1. \A s \in Thread : pc'[s] \in {"key", "loc"} <=> pc[s] \in {"key", "loc"}
    BY <1>1
  <2>2. \A s \in Thread : pc[s] \in {"key", "loc"} => op'[s] = op[s]
    BY <1>1
  <2>3. \A d \in Bucket : data[d] \in Seq(Cell) /\ Len(data[d]) <= Len(data[d])
    BY DEF IndInv, TypeOK, LoopInv, FirstUse, FileOf
  <2>4. \A s \in Thread : Writing(s) => Writing(s)' /\ op'[s] = op[s]
    BY <1>1 DEF Writing
  <2> QED BY <1>1, <2>1, <2>2, <2>3, <2>4, KeysQuiet
<1> QED BY <1>1, <1>2, <1>3, <1>4, <1>5, FirstFrame

\* The first step of Write.
LEMMA FirstWriteIndex ==
  ASSUME IndInv, FirstInv, FirstUse, NEW t \in Thread, NEW k \in UserKey, NEW v \in Value,
         WriteIndex(t, k, v)
  PROVE  FirstInv'
<1> DEFINE b == BucketOf[k]
<1>0. ControlInv
  BY DEF IndInv, ControlInv
<1>1. /\ UNCHANGED <<base, tmp, data, nextOff, fdpos, acked, saved, session, phase>>
      /\ pc[t] = "idle" /\ pc' = [pc EXCEPT ![t] = "data"] /\ mu[b] = NoThread
      /\ op' = [op EXCEPT ![t] = [key |-> k, val |-> v]]
      /\ index' = [index EXCEPT ![b][k] = [off |-> nextOff[b], len |-> VLen[v]]]
  BY DEF WriteIndex, files, loop, hist
<1>2. /\ b \in Bucket /\ k \in Key
      /\ \A s \in Thread : pc[s] # "idle" => BucketOf[op[s].key] \in Bucket \ {b}
  BY <1>0, <1>1, SentinelsAssumption, ConstantsAssumption DEF ControlInv, ThreadInv
<1>3. /\ pc'[t] = "data" /\ op'[t].key = k
      /\ \A s \in Thread : s # t => pc'[s] = pc[s] /\ op'[s] = op[s]
      /\ \A d \in Bucket, j \in Key : d # b \/ j # k => index'[d][j] = index[d][j]
  BY <1>0, <1>1, <1>2 DEF ControlInv, TypeOK
<1>4. AppendInv(b)'
  <2>1. AppendInv(b)
    BY <1>2 DEF FirstInv, FirstUse
  <2>2. \A s \in Thread : pc[s] = "read" => s # t /\ pc'[s] = "read" /\ op'[s] = op[s]
    BY <1>1, <1>3
  <2>3. \A s \in Thread : Appended(s) => s # t /\ Appended(s)' /\ op'[s] = op[s]
    BY <1>1, <1>3 DEF Appended
  <2> HIDE DEF b
  <2> QED BY <1>1, <2>1, <2>2, <2>3 DEF AppendInv
<1>5. AppendedInv(t)'
  BY <1>3 DEF AppendedInv, Appended
<1>6. ASSUME NEW j \in UserKey PROVE KeyInv(j)'
  <2>1. \A s \in Thread : pc'[s] \in {"key", "loc"} <=> pc[s] \in {"key", "loc"}
    BY <1>1, <1>3
  <2>2. \A s \in Thread : pc[s] \in {"key", "loc"} => op'[s] = op[s]
    BY <1>1, <1>3
  <2>3. \A d \in Bucket : data[d] \in Seq(Cell) /\ Len(data[d]) <= Len(data[d])
    BY DEF IndInv, TypeOK, LoopInv, FirstUse, FileOf
  <2>4. Writing(t)' /\ \A s \in Thread : Writing(s) => s # t /\ Writing(s)' /\ op'[s] = op[s]
    BY <1>1, <1>3 DEF Writing
  <2>5. (\A s \in Thread : Writing(s)' => op'[s].key # j) =>
          /\ \A s \in Thread : Writing(s) => op[s].key # j
          /\ index'[BucketOf[j]][j] = index[BucketOf[j]][j]
    <3>1. j \in Key /\ BucketOf[j] \in Bucket
      BY ConstantsAssumption
    <3> QED BY <1>3, <2>4, <3>1
  <2> QED BY <1>1, <2>1, <2>2, <2>3, <2>5, KeysQuiet
<1> HIDE DEF b
<1> QED BY <1>1, <1>2, <1>3, <1>4, <1>5, <1>6, FirstFrame

\* The value goes to the end of data_i.
LEMMA FirstWriteData ==
  ASSUME Undisturbed, IndInv, FirstInv, FirstUse, NEW t \in Thread, WriteData(t)
  PROVE  FirstInv'
<1> DEFINE b == BucketOf[op[t].key]  v == op[t].val
<1>0. ControlInv
  BY DEF IndInv, ControlInv
<1>1. /\ UNCHANGED <<base, tmp, index, nextOff, op, acked, saved, session, phase>>
      /\ pc[t] = "data" /\ pc' = [pc EXCEPT ![t] = "size"]
  BY DEF WriteData, loop, hist
<1>2. PICK n \in 0..Len(Cells(v)) :
        /\ n < Len(Cells(v)) => IOFail
        /\ data' = [data EXCEPT ![b] = Overlay(@, fdpos[b], SubSeq(Cells(v), 1, n))]
        /\ fdpos' = [fdpos EXCEPT ![b] = @ + n]
  BY DEF WriteData
<1>3. /\ b \in Bucket /\ v \in Value /\ VLen[v] \in Nat
      /\ \A s \in Thread : s # t /\ pc[s] # "idle" =>
            BucketOf[op[s].key] \in Bucket /\ BucketOf[op[s].key] # b
  <2>1. pc[t] # "idle" /\ Writing(t)
    BY <1>1 DEF Writing
  <2> QED BY <1>0, <2>1, InsideCall, ConstantsAssumption
<1>4. \A s \in Thread : pc'[s] = IF s = t THEN "size" ELSE pc[s]
  BY <1>0, <1>1 DEF ControlInv, TypeOK
<1>5. AppendInv(b) /\ fdpos[b] = Len(data[b]) /\ nextOff[b] = Len(data[b]) /\ base[b] = NoFile
  <2>1. AppendInv(b)
    BY <1>3 DEF FirstInv, FirstUse
  <2>2. \A s \in Thread : pc[s] = "read" => BucketOf[op[s].key] # b
    BY <1>1, <1>3
  <2>3. \A s \in Thread : Appended(s) => BucketOf[op[s].key] # b
    BY <1>1, <1>3 DEF Appended
  <2> HIDE DEF b
  <2> QED BY <2>1, <2>2, <2>3 DEF AppendInv
<1>6. data[b] \in Seq(Cell) /\ Len(data[b]) \in Nat
  BY <1>3 DEF IndInv, TypeOK, LoopInv, FirstUse, FileOf
<1>7. n = VLen[v] /\ SubSeq(Cells(v), 1, n) = Cells(v) /\ Cells(v) \in Seq(Cell) /\ Len(Cells(v)) = VLen[v]
  <2>1. Cells(v) \in Seq(Cell) /\ Len(Cells(v)) = VLen[v]
    BY <1>3, CellsType
  <2>2. ~IOFail
    BY DEF Undisturbed
  <2>3. n = Len(Cells(v))
    BY <1>2, <1>3, <2>1, <2>2
  <2> QED BY <2>1, <2>3, SubSeqFull
<1>8. /\ data'[b] = Overlay(data[b], Len(data[b]), Cells(v))
      /\ fdpos'[b] = Len(data[b]) + VLen[v]
      /\ \A d \in Bucket : d # b => data'[d] = data[d] /\ fdpos'[d] = fdpos[d]
  <2>1. DOMAIN data = Bucket /\ DOMAIN fdpos = Bucket
    BY <1>0 DEF ControlInv, TypeOK
  <2> HIDE DEF b, v
  <2> QED BY <1>2, <1>3, <1>5, <1>7, <2>1
<1>9. /\ data'[b] \in Seq(Cell) /\ Len(data'[b]) = Len(data[b]) + VLen[v]
      /\ \A i \in 1..Len(data[b]) : data'[b][i] = data[b][i]
      /\ \A i \in 1..VLen[v] : data'[b][Len(data[b]) + i] = <<v, i>>
  <2>1. \A i \in 1..VLen[v] : Cells(v)[i] = <<v, i>>
    BY DEF Cells
  <2> DEFINE f == data[b]  c == Cells(v)  g == Overlay(f, Len(f), c)
  <2>2. f \in Seq(Cell) /\ c \in Seq(Cell)
    BY <1>6, <1>7
  <2> HIDE DEF f, c
  <2>3. /\ g \in Seq(Cell) /\ Len(g) = Len(f) + Len(c)
        /\ \A i \in 1..Len(f) : g[i] = f[i]
        /\ \A i \in 1..Len(c) : g[Len(f) + i] = c[i]
    BY <2>2, OverlayEnd
  <2> HIDE DEF g
  <2>4. data'[b] = g /\ Len(c) = VLen[v]
    BY <1>7, <1>8 DEF f, c, g
  <2>5. \A i \in 1..VLen[v] : c[i] = <<v, i>>
    BY <2>1 DEF c
  <2> HIDE DEF b, v
  <2>6. /\ data'[b] \in Seq(Cell) /\ Len(data'[b]) = Len(f) + VLen[v]
        /\ \A i \in 1..Len(f) : data'[b][i] = f[i]
        /\ \A i \in 1..VLen[v] : data'[b][Len(f) + i] = <<v, i>>
    BY <2>3, <2>4, <2>5
  <2> QED BY <2>6 DEF f
<1>10. AppendInv(b)'
  <2>1. fdpos'[b] = Len(data'[b])
    BY <1>8, <1>9
  <2>2. Appended(t)' /\ op' = op
    BY <1>1, <1>4 DEF Appended
  <2> QED BY <1>1, <1>5, <2>1, <2>2 DEF AppendInv
<1>11. AppendedInv(t)'
  <2>1. Holds(data'[b], nextOff'[b], v)
    <3>1. nextOff'[b] = Len(data[b])
      BY <1>1, <1>5
    <3> HIDE DEF b, v
    <3> QED BY <1>3, <1>6, <1>9, <3>1 DEF Holds
  <2>2. Len(data'[b]) = nextOff'[b] + VLen[v]
    BY <1>1, <1>5, <1>9
  <2> QED BY <1>1, <2>1, <2>2 DEF AppendedInv
<1>12. ASSUME NEW j \in UserKey PROVE KeyInv(j)'
  <2>1. \A s \in Thread : pc'[s] \in {"key", "loc"} <=> pc[s] \in {"key", "loc"}
    BY <1>1, <1>4
  <2>2. ASSUME NEW d \in Bucket
        PROVE  /\ data'[d] \in Seq(Cell) /\ Len(data[d]) <= Len(data'[d])
               /\ \A i \in 1..Len(data[d]) : data'[d][i] = data[d][i]
    <3>1. CASE d = b
      BY <1>3, <1>6, <1>9, <3>1
    <3>2. CASE d # b
      <4>1. data[d] \in Seq(Cell) /\ data'[d] = data[d]
        BY <1>8, <3>2 DEF IndInv, TypeOK, LoopInv, FirstUse, FileOf
      <4> QED BY <4>1
    <3> QED BY <3>1, <3>2
  <2>3. \A s \in Thread : Writing(s)' <=> Writing(s)
    BY <1>1, <1>4 DEF Writing
  <2> QED BY <1>1, <2>1, <2>2, <2>3, KeysQuiet
<1> HIDE DEF b, v
<1> QED BY <1>1, <1>3, <1>4, <1>8, <1>10, <1>11, <1>12, FirstFrame DEF b

\* What a copy into index_i.tmp that acknowledges nothing has to establish.
LEMMA FirstCopy ==
  ASSUME IndInv, FirstInv, FirstUse, NEW t \in Thread, NEW b \in Bucket, b = BucketOf[op[t].key],
         pc[t] \in {"size", "key"}, pc'[t] \in {"key", "loc"},
         \A s \in Thread : s # t => pc'[s] = pc[s],
         UNCHANGED <<base, data, index, nextOff, fdpos, op, acked, saved, session, phase>>,
         \A d \in Bucket : d # b => tmp'[d] = tmp[d],
         Len(tmp'[b]) \in Nat,
         \A i \in 1..Len(tmp'[b]) : i # Len(tmp'[b]) =>
           i \in 1..Len(tmp[b]) /\ ~Unfinished(b, i) /\ tmp'[b][i] = tmp[b][i]
  PROVE  FirstInv'
<1>0. ControlInv
  BY DEF IndInv, ControlInv
<1>1. \A s \in Thread : s # t /\ pc[s] # "idle" => BucketOf[op[s].key] \in Bucket /\ BucketOf[op[s].key] # b
  BY <1>0, InsideCall, ConstantsAssumption
<1>2. AppendInv(b)'
  <2>1. AppendInv(b)
    BY DEF FirstInv, FirstUse
  <2>2. \A s \in Thread : pc[s] = "read" => s # t
    OBVIOUS
  <2>3. Appended(t)'
    BY DEF Appended
  <2> QED BY <2>1, <2>2, <2>3 DEF AppendInv
<1>3. AppendedInv(t)'
  <2>1. AppendedInv(t) /\ Appended(t)
    BY DEF FirstInv, FirstUse, Appended
  <2> QED BY <2>1 DEF AppendedInv
<1>4. ASSUME NEW j \in UserKey PROVE KeyInv(j)'
  <2> DEFINE d == BucketOf[j]
  <2>1. d \in Bucket
    BY ConstantsAssumption
  <2>2. KeyInv(j) /\ data[d] \in Seq(Cell)
    BY <2>1 DEF FirstInv, FirstUse, IndInv, TypeOK, LoopInv, FileOf
  <2>3. saved[j] \in Loc \cup {NoLoc} /\ acked[j] \in Value \cup {NoValue}
    BY DEF IndInv, TypeOK
  <2>4. ASSUME saved[j] = NoLoc, NEW i \in 1..Len(tmp'[d])
        PROVE  Unfinished(d, i)' \/ tmp'[d][i].key # j
    <3>1. \A m \in 1..Len(tmp[d]) : Unfinished(d, m) \/ tmp[d][m].key # j
      BY <2>2, <2>4 DEF KeyInv
    <3>2. CASE d = b
      <4>1. i = Len(tmp'[d]) => Unfinished(d, i)'
        BY <3>2 DEF Unfinished
      <4> HIDE DEF d
      <4> QED BY <2>4, <3>1, <3>2, <4>1
    <3>3. CASE d # b
      <4>1. tmp'[d] = tmp[d]
        BY <2>1, <3>3
      <4>2. Unfinished(d, i) => Unfinished(d, i)'
        <5>1. \A s \in Thread : pc[s] \in {"key", "loc"} /\ BucketOf[op[s].key] = d => s # t
          BY <3>3
        <5> HIDE DEF d
        <5> QED BY <4>1, <5>1 DEF Unfinished
      <4> QED BY <2>4, <3>1, <4>1, <4>2
    <3> QED BY <3>2, <3>3
  <2>5. ASSUME saved[j] = NoLoc, \A s \in Thread : Writing(s)' => op'[s].key # j
        PROVE  index'[d][j] = NoLoc
    <3>1. \A s \in Thread : Writing(s) => Writing(s)'
      BY DEF Writing
    <3> QED BY <2>2, <2>5, <3>1 DEF KeyInv
  <2>6. Len(data[d]) <= Len(data'[d]) /\ data'[d] \in Seq(Cell)
    BY <2>2
  <2> HIDE DEF d
  <2> QED BY <2>2, <2>3, <2>4, <2>5, <2>6, KeyFrame DEF d
<1> QED BY <1>1, <1>2, <1>3, <1>4, FirstFrame

\* The copies of the size and of the key.
LEMMA FirstWriteSize ==
  ASSUME IndInv, FirstInv, FirstUse, NEW t \in Thread, NEW b \in Bucket, b = BucketOf[op[t].key],
         WriteSize(t)
  PROVE  FirstInv'
<1>0. ControlInv
  BY DEF IndInv, ControlInv
<1>1. /\ UNCHANGED <<base, data, index, nextOff, fdpos, op, acked, saved, session, phase>>
      /\ pc[t] = "size" /\ pc' = [pc EXCEPT ![t] = "key"]
  BY DEF WriteSize, mem, loop, hist
<1>2. PICK r : tmp' = [tmp EXCEPT ![b] = Append(@, r)]
  BY DEF WriteSize
<1>3. /\ b \in Bucket /\ tmp[b] \in Seq(Record) /\ Len(tmp[b]) \in Nat
      /\ \A s \in Thread : s # t /\ pc[s] # "idle" => BucketOf[op[s].key] # b
  BY <1>0, <1>1, InsideCall
<1>4. \A s \in Thread : pc'[s] = IF s = t THEN "key" ELSE pc[s]
  BY <1>0, <1>1 DEF ControlInv, TypeOK
<1>5. tmp'[b] = Append(tmp[b], r) /\ \A d \in Bucket : d # b => tmp'[d] = tmp[d]
  BY <1>0, <1>2, <1>3 DEF ControlInv, TypeOK
<1>6. \A i : ~Unfinished(b, i)
  BY <1>1, <1>3 DEF Unfinished
<1>7. Len(tmp'[b]) = Len(tmp[b]) + 1 /\ \A i \in 1..Len(tmp[b]) : tmp'[b][i] = tmp[b][i]
  BY <1>3, <1>5
<1>8. /\ Len(tmp'[b]) \in Nat
      /\ \A i \in 1..Len(tmp'[b]) : i # Len(tmp'[b]) =>
           i \in 1..Len(tmp[b]) /\ ~Unfinished(b, i) /\ tmp'[b][i] = tmp[b][i]
  BY <1>3, <1>6, <1>7
<1>9. /\ pc[t] \in {"size", "key"} /\ pc'[t] \in {"key", "loc"}
      /\ \A s \in Thread : s # t => pc'[s] = pc[s]
  BY <1>1, <1>4
<1>10. \A d \in Bucket : d # b => tmp'[d] = tmp[d]
  BY <1>5
<1> QED BY <1>1, <1>8, <1>9, <1>10, FirstCopy

LEMMA FirstWriteKey ==
  ASSUME IndInv, FirstInv, FirstUse, NEW t \in Thread, NEW b \in Bucket, b = BucketOf[op[t].key],
         WriteKey(t)
  PROVE  FirstInv'
<1> DEFINE q == [tmp[b] EXCEPT ![Len(tmp[b])].key = op[t].key]
<1>0. ControlInv /\ WriterInv(t)
  BY DEF IndInv, ControlInv, LogInv
<1>1. /\ UNCHANGED <<base, data, index, nextOff, fdpos, op, acked, saved, session, phase>>
      /\ pc[t] = "key" /\ pc' = [pc EXCEPT ![t] = "loc"]
      /\ tmp' = [tmp EXCEPT ![b][Len(tmp[b])].key = op[t].key]
  BY DEF WriteKey, mem, loop, hist
<1>2. /\ b \in Bucket /\ tmp[b] \in Seq(Record) /\ Len(tmp[b]) \in Nat /\ op[t].key \in Key
      /\ \A s \in Thread : s # t /\ pc[s] # "idle" => BucketOf[op[s].key] # b
  BY <1>0, <1>1, InsideCall
<1>3. \A s \in Thread : pc'[s] = IF s = t THEN "loc" ELSE pc[s]
  BY <1>0, <1>1 DEF ControlInv, TypeOK
<1>4. tmp'[b] = q /\ \A d \in Bucket : d # b => tmp'[d] = tmp[d]
  BY <1>0, <1>1, <1>2 DEF ControlInv, TypeOK
<1>5. Len(tmp[b]) > 0
  BY <1>0, <1>1 DEF WriterInv
<1>6. Len(q) = Len(tmp[b]) /\ \A i \in 1..Len(tmp[b]) : i # Len(tmp[b]) => q[i] = tmp[b][i]
  BY <1>2, <1>5, CompleteKey DEF q
<1>7. \A i : i # Len(tmp[b]) => ~Unfinished(b, i)
  BY DEF Unfinished
<1> HIDE DEF q
<1>8. /\ Len(tmp'[b]) \in Nat
      /\ \A i \in 1..Len(tmp'[b]) : i # Len(tmp'[b]) =>
           i \in 1..Len(tmp[b]) /\ ~Unfinished(b, i) /\ tmp'[b][i] = tmp[b][i]
  BY <1>2, <1>4, <1>6, <1>7
<1>9. /\ pc[t] \in {"size", "key"} /\ pc'[t] \in {"key", "loc"}
      /\ \A s \in Thread : s # t => pc'[s] = pc[s]
  BY <1>1, <1>3
<1>10. \A d \in Bucket : d # b => tmp'[d] = tmp[d]
  BY <1>4
<1> QED BY <1>1, <1>8, <1>9, <1>10, FirstCopy

\* The copy of the location finishes the record and acknowledges the value.
LEMMA FirstWriteLoc ==
  ASSUME WritesOnce, IndInv, FirstInv, FirstUse, NEW t \in Thread, WriteLoc(t),
         NEW k \in UserKey, NEW v \in Value, NEW b \in Bucket,
         k = op[t].key, v = op[t].val, b = BucketOf[k]
  PROVE  FirstInv'
<1> DEFINE l == [off |-> nextOff[b], len |-> VLen[v]]
           q == [tmp[b] EXCEPT ![Len(tmp[b])].loc = l]
<1>0. ControlInv /\ WriterInv(t)
  BY DEF IndInv, ControlInv, LogInv
<1>1. /\ UNCHANGED <<base, data, index, fdpos, session, phase>>
      /\ pc[t] = "loc" /\ pc' = [pc EXCEPT ![t] = "idle"] /\ op' = [op EXCEPT ![t] = NoOp]
      /\ tmp' = [tmp EXCEPT ![b][Len(tmp[b])].loc = l]
      /\ nextOff' = [nextOff EXCEPT ![b] = @ + VLen[v]]
      /\ acked' = [acked EXCEPT ![k] = v] /\ saved' = [saved EXCEPT ![k] = l]
  BY DEF WriteLoc, mem, loop, hist
<1>2. /\ k \in UserKey /\ k \in Key /\ b \in Bucket /\ v \in Value /\ VLen[v] \in Nat
      /\ tmp[b] \in Seq(Record) /\ Len(tmp[b]) \in Nat
      /\ \A s \in Thread : s # t /\ pc[s] # "idle" =>
            BucketOf[op[s].key] \in Bucket /\ BucketOf[op[s].key] # b
  <2>1. pc[t] # "idle" /\ Writing(t)
    BY <1>1 DEF Writing
  <2> QED BY <1>0, <2>1, InsideCall, ConstantsAssumption
<1>3. /\ \A s \in Thread : pc'[s] = IF s = t THEN "idle" ELSE pc[s]
      /\ \A s \in Thread : s # t => op'[s] = op[s]
  BY <1>0, <1>1 DEF ControlInv, TypeOK
<1>4. /\ tmp'[b] = q /\ \A d \in Bucket : d # b => tmp'[d] = tmp[d]
      /\ nextOff'[b] = nextOff[b] + VLen[v] /\ \A d \in Bucket : d # b => nextOff'[d] = nextOff[d]
      /\ nextOff[b] \in Nat /\ l \in Loc
  <2>1. tmp'[b] = q /\ \A d \in Bucket : d # b => tmp'[d] = tmp[d]
    BY <1>0, <1>1, <1>2 DEF ControlInv, TypeOK
  <2>2. nextOff \in [Bucket -> Nat]
    BY <1>0 DEF ControlInv, TypeOK
  <2>3. nextOff'[b] = nextOff[b] + VLen[v] /\ \A d \in Bucket : d # b => nextOff'[d] = nextOff[d]
    BY <1>1, <1>2, <2>2
  <2> QED BY <1>2, <2>1, <2>2, <2>3 DEF Loc
<1>5. /\ acked'[k] = v /\ saved'[k] = l
      /\ \A j \in UserKey : j # k => acked'[j] = acked[j] /\ saved'[j] = saved[j]
  BY <1>0, <1>1, <1>2 DEF ControlInv, TypeOK
<1>6. /\ AppendedInv(t) /\ Appended(t) /\ AppendInv(b)
      /\ data[b] \in Seq(Cell)
  BY <1>1, <1>2 DEF FirstInv, FirstUse, Appended, IndInv, TypeOK, LoopInv, FileOf
<1>7. Len(data[b]) = nextOff'[b] /\ Holds(data[b], nextOff[b], v)
  BY <1>4, <1>6 DEF AppendedInv
<1>8. AppendInv(b)'
  <2>1. \A s \in Thread : pc[s] = "read" => s # t /\ pc'[s] = "read" /\ op'[s] = op[s]
    BY <1>1, <1>3
  <2>2. (\A s \in Thread : pc'[s] = "read" => BucketOf[op'[s].key] # b) => fdpos[b] = Len(data[b])
    BY <1>6, <2>1 DEF AppendInv
  <2>3. base[b] = NoFile
    BY <1>6 DEF AppendInv
  <2> QED BY <1>1, <1>7, <2>2, <2>3 DEF AppendInv
<1>9. AppendedInv(t)'
  BY <1>3 DEF AppendedInv, Appended
<1>10. Len(q) = Len(tmp[b]) /\ \A i \in 1..Len(tmp[b]) : q[i].key = tmp[b][i].key
  <2>1. Len(tmp[b]) > 0
    BY <1>0, <1>1 DEF WriterInv
  <2>2. /\ Len(q) = Len(tmp[b])
        /\ \A i \in 1..Len(tmp[b]) : i # Len(tmp[b]) => q[i] = tmp[b][i]
        /\ q[Len(tmp[b])] = [key |-> tmp[b][Len(tmp[b])].key, loc |-> l]
    <3> DEFINE recs == tmp[b]
    <3>1. recs \in Seq(Record) /\ Len(recs) > 0 /\ l \in Loc /\ q = [recs EXCEPT ![Len(recs)].loc = l]
      BY <1>2, <1>4, <2>1
    <3> HIDE DEF l, recs, q
    <3>2. /\ Len(q) = Len(recs)
          /\ \A i \in 1..Len(recs) : i # Len(recs) => q[i] = recs[i]
          /\ q[Len(recs)] = [key |-> recs[Len(recs)].key, loc |-> l]
      BY <3>1, CompleteLoc
    <3> QED BY <3>2 DEF recs
  <2> HIDE DEF l, q
  <2>3. q[Len(tmp[b])].key = tmp[b][Len(tmp[b])].key
    BY <2>2
  <2> QED BY <2>2, <2>3
<1>11. tmp[b][Len(tmp[b])].key = k
  BY <1>0, <1>1 DEF WriterInv
<1>12. KeyInv(k)'
  <2>1. v # NoValue /\ l # NoLoc
    BY <1>2, <1>4, SentinelsAssumption
  <2>2. saved'[k].off = nextOff[b] /\ saved'[k].len = VLen[acked'[k]]
    BY <1>5
  <2> HIDE DEF l
  <2> QED BY <1>1, <1>5, <1>7, <2>1, <2>2 DEF KeyInv
<1>13. ASSUME NEW j \in UserKey, j # k PROVE KeyInv(j)'
  <2> DEFINE d == BucketOf[j]
  <2>1. d \in Bucket
    BY ConstantsAssumption
  <2>2. KeyInv(j) /\ data[d] \in Seq(Cell)
    BY <2>1 DEF FirstInv, FirstUse, IndInv, TypeOK, LoopInv, FileOf
  <2>3. saved[j] \in Loc \cup {NoLoc} /\ acked[j] \in Value \cup {NoValue}
    BY DEF IndInv, TypeOK
  <2>4. ASSUME saved[j] = NoLoc, NEW i \in 1..Len(tmp'[d])
        PROVE  Unfinished(d, i)' \/ tmp'[d][i].key # j
    <3>1. \A m \in 1..Len(tmp[d]) : Unfinished(d, m) \/ tmp[d][m].key # j
      BY <2>2, <2>4 DEF KeyInv
    <3>2. CASE d = b
      <4>1. i \in 1..Len(tmp[b]) /\ tmp'[d][i].key = tmp[b][i].key
        <5> HIDE DEF d, l, q
        <5>1. tmp'[d] = q /\ i \in 1..Len(q)
          BY <1>4, <2>4, <3>2
        <5> QED BY <1>10, <5>1
      <4>2. Unfinished(d, i) => i = Len(tmp[b])
        BY <3>2 DEF Unfinished
      <4> QED BY <1>11, <1>13, <3>1, <3>2, <4>1, <4>2
    <3>3. CASE d # b
      <4>1. tmp'[d] = tmp[d]
        BY <1>4, <2>1, <3>3
      <4>2. Unfinished(d, i) => Unfinished(d, i)'
        <5>1. \A s \in Thread : pc[s] \in {"key", "loc"} /\ BucketOf[op[s].key] = d => s # t
          BY <3>3
        <5> HIDE DEF d
        <5> QED BY <1>3, <4>1, <5>1 DEF Unfinished
      <4> QED BY <2>4, <3>1, <4>1, <4>2
    <3> QED BY <3>2, <3>3
  <2>5. ASSUME saved[j] = NoLoc, \A s \in Thread : Writing(s)' => op'[s].key # j
        PROVE  index'[d][j] = NoLoc
    <3>1. \A s \in Thread : Writing(s) /\ s # t => Writing(s)' /\ op'[s] = op[s]
      BY <1>3 DEF Writing
    <3>2. \A s \in Thread : Writing(s) => op[s].key # j
      BY <1>13, <2>5, <3>1
    <3> QED BY <1>1, <2>2, <2>5, <3>2 DEF KeyInv
  <2>6. Len(data[d]) <= Len(data'[d]) /\ data'[d] \in Seq(Cell) /\ data' = data
    BY <1>1, <2>2
  <2>7. acked'[j] = acked[j] /\ saved'[j] = saved[j]
    BY <1>5, <1>13
  <2> HIDE DEF d
  <2> QED BY <2>2, <2>3, <2>4, <2>5, <2>6, <2>7, KeyFrame DEF d
<1>14. \A j \in UserKey : KeyInv(j)'
  BY <1>12, <1>13
<1>15. /\ pc[t] # "idle" => BucketOf[op[t].key] = b
       /\ \A s \in Thread : s # t /\ pc[s] # "idle" => BucketOf[op[s].key] \in Bucket \ {b}
       /\ \A s \in Thread : s # t => pc'[s] = pc[s] /\ op'[s] = op[s]
  BY <1>2, <1>3
<1>16. /\ UNCHANGED <<session, phase>>
       /\ \A d \in Bucket : d # b => /\ base'[d] = base[d] /\ data'[d] = data[d]
                                      /\ nextOff'[d] = nextOff[d] /\ fdpos'[d] = fdpos[d]
  BY <1>1, <1>4
<1> HIDE DEF l, q
<1> QED BY <1>2, <1>8, <1>9, <1>14, <1>15, <1>16, FirstFrame

\* All the steps of the calls.
LEMMA FirstCall ==
  ASSUME WritesOnce, IndInv, FirstInv, FirstUse, NEW t \in Thread,
         \/ ReadStep(t) \/ \E k \in UserKey : ReadMiss(t, k) \/ ReadSeek(t, k)
         \/ WriteStep(t) \/ \E k \in UserKey, v \in Value : WriteIndex(t, k, v),
         ~WriteOverflow(t)
  PROVE  FirstInv'
<1>0. ControlInv /\ Undisturbed
  BY DEF IndInv, ControlInv, WritesOnce
<1>1. ASSUME NEW k \in UserKey, NEW v \in Value, WriteIndex(t, k, v) PROVE FirstInv'
  BY <1>1, FirstWriteIndex
<1>2. CASE WriteData(t)
  BY <1>0, <1>2, FirstWriteData
<1>3. CASE WriteSize(t) \/ WriteKey(t)
  <2>1. pc[t] # "idle"
    BY <1>3 DEF WriteSize, WriteKey
  <2>2. PICK b \in Bucket : b = BucketOf[op[t].key]
    BY <1>0, <2>1, InsideCall
  <2> QED BY <1>3, <2>2, FirstWriteSize, FirstWriteKey
<1>4. CASE WriteLoc(t)
  <2>1. pc[t] # "idle" /\ Writing(t)
    BY <1>4 DEF WriteLoc, Writing
  <2>2. PICK k \in UserKey : k = op[t].key
    BY <1>0, <2>1, InsideCall
  <2>3. PICK v \in Value : v = op[t].val
    BY <1>0, <2>1, InsideCall
  <2>4. PICK b \in Bucket : b = BucketOf[k]
    BY ConstantsAssumption
  <2> QED BY <1>4, <2>2, <2>3, <2>4, FirstWriteLoc
<1>5. CASE ReadStep(t) \/ \E k \in UserKey : ReadMiss(t, k) \/ ReadSeek(t, k)
  BY <1>5, FirstRead
<1> QED BY <1>1, <1>2, <1>3, <1>4, <1>5 DEF WriteStep

-----------------------------------------------------------------------------
(* Callers *)

\* What a step of a call on bucket b has to establish for the callers.
LEMMA CallersFrame ==
  ASSUME CallersInv, session' = session, NEW t \in Thread, NEW b \in Bucket,
         \A s \in Thread : s # t => pc'[s] = pc[s] /\ op'[s] = op[s],
         \A s \in Thread : s # t /\ pc[s] # "idle" => BucketOf[op[s].key] \in Bucket \ {b},
         \A d \in Bucket : d # b => index'[d] = index[d] /\ fdpos'[d] = fdpos[d],
         Writing(t)' => session = 1,
         pc'[t] = "read" => /\ index'[BucketOf[op'[t].key]][op'[t].key] # NoLoc
                            /\ fdpos'[BucketOf[op'[t].key]]
                                 = index'[BucketOf[op'[t].key]][op'[t].key].off
  PROVE  CallersInv'
<1> SUFFICES ASSUME NEW s \in Thread
             PROVE  /\ Writing(s)' => session' = 1
                    /\ pc'[s] = "read" =>
                         /\ index'[BucketOf[op'[s].key]][op'[s].key] # NoLoc
                         /\ fdpos'[BucketOf[op'[s].key]]
                              = index'[BucketOf[op'[s].key]][op'[s].key].off
  BY DEF CallersInv
<1>1. CASE s = t
  BY <1>1
<1>2. CASE s # t
  <2>1. pc'[s] = pc[s] /\ op'[s] = op[s]
    BY <1>2
  <2>2. Writing(s)' => session' = 1
    BY <2>1 DEF Writing, CallersInv
  <2>3. ASSUME pc'[s] = "read"
        PROVE  /\ index'[BucketOf[op'[s].key]][op'[s].key] # NoLoc
               /\ fdpos'[BucketOf[op'[s].key]] = index'[BucketOf[op'[s].key]][op'[s].key].off
    <3>1. PICK d \in Bucket : d = BucketOf[op[s].key] /\ d # b
      BY <1>2, <2>1, <2>3
    <3>2. index[d][op[s].key] # NoLoc /\ fdpos[d] = index[d][op[s].key].off
      BY <2>1, <2>3, <3>1 DEF CallersInv
    <3> QED BY <2>1, <3>1, <3>2
  <2> QED BY <2>2, <2>3
<1> QED BY <1>1, <1>2

\* A Read goes to the location that the index has, and a Write is one of the first session.
LEMMA CallersCall ==
  ASSUME WritesOnce, IndInv, CallersInv, NEW t \in Thread,
         \/ ReadStep(t) \/ \E k \in UserKey : ReadMiss(t, k) \/ ReadSeek(t, k)
         \/ WriteStep(t) \/ \E k \in UserKey, v \in Value : WriteIndex(t, k, v),
         ~WriteOverflow(t)
  PROVE  CallersInv'
<1>0. ControlInv
  BY DEF IndInv, ControlInv
<1>1. ASSUME NEW k \in UserKey, pc[t] = "idle", mu[BucketOf[k]] = NoThread,
             ReadMiss(t, k) \/ ReadSeek(t, k) \/ \E v \in Value : WriteIndex(t, k, v)
      PROVE  CallersInv'
  <2>1. PICK b \in Bucket : b = BucketOf[k]
    BY ConstantsAssumption
  <2>2. \A s \in Thread : s # t /\ pc[s] # "idle" => BucketOf[op[s].key] \in Bucket \ {b}
    BY <1>0, <1>1, <2>1, SentinelsAssumption, ConstantsAssumption DEF ControlInv, ThreadInv
  <2>3. CASE ReadSeek(t, k)
    <3>1. /\ session' = session /\ index' = index /\ index[b][k] # NoLoc
          /\ pc' = [pc EXCEPT ![t] = "read"] /\ op' = [op EXCEPT ![t] = [key |-> k, val |-> NoValue]]
          /\ fdpos' = [fdpos EXCEPT ![b] = index[b][k].off]
      BY <2>1, <2>3 DEF ReadSeek, loop
    <3>2. /\ pc'[t] = "read" /\ op'[t].key = k /\ fdpos'[b] = index[b][k].off
          /\ \A s \in Thread : s # t => pc'[s] = pc[s] /\ op'[s] = op[s]
          /\ \A d \in Bucket : d # b => index'[d] = index[d] /\ fdpos'[d] = fdpos[d]
      BY <1>0, <3>1 DEF ControlInv, TypeOK
    <3>3. ~Writing(t)'
      BY <3>2 DEF Writing
    <3>4. /\ index'[BucketOf[op'[t].key]][op'[t].key] # NoLoc
          /\ fdpos'[BucketOf[op'[t].key]] = index'[BucketOf[op'[t].key]][op'[t].key].off
      BY <2>1, <3>1, <3>2
    <3>5. session' = session
      BY <3>1
    <3> QED BY <2>2, <3>2, <3>3, <3>4, <3>5, CallersFrame
  <2>4. ASSUME NEW v \in Value, WriteIndex(t, k, v) PROVE CallersInv'
    <3>1. /\ session' = session /\ session \in WriteSession /\ fdpos' = fdpos
          /\ pc' = [pc EXCEPT ![t] = "data"] /\ op' = [op EXCEPT ![t] = [key |-> k, val |-> v]]
          /\ index' = [index EXCEPT ![b][k] = [off |-> nextOff[b], len |-> VLen[v]]]
      BY <2>1, <2>4 DEF WriteIndex, loop
    <3>2. /\ pc'[t] = "data" /\ session = 1
          /\ \A s \in Thread : s # t => pc'[s] = pc[s] /\ op'[s] = op[s]
          /\ \A d \in Bucket : d # b => index'[d] = index[d] /\ fdpos'[d] = fdpos[d]
      BY <1>0, <3>1 DEF ControlInv, TypeOK, WritesOnce
    <3> QED BY <2>2, <3>1, <3>2, CallersFrame
  <2>5. CASE ReadMiss(t, k)
    <3>1. /\ session' = session /\ index' = index /\ fdpos' = fdpos
          /\ pc' = [pc EXCEPT ![t] = "miss"] /\ op' = [op EXCEPT ![t] = [key |-> k, val |-> NoValue]]
      BY <2>5 DEF ReadMiss, loop
    <3>2. /\ pc'[t] = "miss" /\ \A s \in Thread : s # t => pc'[s] = pc[s] /\ op'[s] = op[s]
      BY <1>0, <3>1 DEF ControlInv, TypeOK
    <3>3. ~Writing(t)' /\ pc'[t] # "read"
      BY <3>2 DEF Writing
    <3> QED BY <2>2, <3>1, <3>2, <3>3, CallersFrame
  <2> QED BY <1>1, <2>3, <2>4, <2>5
<1>2. ASSUME pc[t] # "idle", pc'[t] # "read", session' = session, index' = index,
             \A s \in Thread : s # t => pc'[s] = pc[s] /\ op'[s] = op[s],
             \A d \in Bucket : d # BucketOf[op[t].key] => fdpos'[d] = fdpos[d],
             Writing(t)' => Writing(t)
      PROVE  CallersInv'
  <2>1. PICK b \in Bucket : b = BucketOf[op[t].key]
    BY <1>0, <1>2, InsideCall
  <2>2. \A s \in Thread : s # t /\ pc[s] # "idle" => BucketOf[op[s].key] \in Bucket \ {b}
    BY <1>0, <1>2, <2>1, InsideCall, ConstantsAssumption
  <2>3. Writing(t)' => session = 1
    BY <1>2 DEF CallersInv
  <2> QED BY <1>2, <2>1, <2>2, <2>3, CallersFrame
<1>3. CASE WriteStep(t) \/ ReadStep(t)
  <2>1. /\ pc[t] \in {"data", "size", "key", "loc", "miss", "read"} /\ session' = session /\ index' = index
        /\ \E p \in {"size", "key", "loc", "idle"} : pc' = [pc EXCEPT ![t] = p]
        /\ op' = op \/ op' = [op EXCEPT ![t] = NoOp]
        /\ fdpos' = fdpos \/ \E n : fdpos' = [fdpos EXCEPT ![BucketOf[op[t].key]] = n]
        /\ pc[t] \in {"miss", "read"} => pc' = [pc EXCEPT ![t] = "idle"]
    BY <1>3 DEF WriteStep, WriteData, WriteSize, WriteKey, WriteLoc, ReadStep, ReadMissed, ReadFinish,
       mem, loop
  <2>2. /\ pc[t] # "idle" /\ pc'[t] # "read"
        /\ \A s \in Thread : s # t => pc'[s] = pc[s] /\ op'[s] = op[s]
        /\ \A d \in Bucket : d # BucketOf[op[t].key] => fdpos'[d] = fdpos[d]
    BY <1>0, <2>1 DEF ControlInv, TypeOK
  <2>3. Writing(t)' => Writing(t)
    BY <1>0, <2>1 DEF Writing, ControlInv, TypeOK
  <2> QED BY <1>2, <2>1, <2>2, <2>3
<1> QED BY <1>1, <1>3 DEF ReadMiss, ReadSeek, WriteIndex

-----------------------------------------------------------------------------
(* All steps *)

\* Nobody is inside a call.
LEMMA CallersNone ==
  ASSUME \A t \in Thread : pc'[t] = "idle"
  PROVE  CallersInv'
BY DEF CallersInv, Writing

\* A Read changes no value.
LEMMA ReadStored ==
  ASSUME IndInv, StoredInv, NEW t \in Thread,
         ReadStep(t) \/ \E k \in UserKey : ReadMiss(t, k) \/ ReadSeek(t, k)
  PROVE  StoredInv'
<1>1. /\ UNCHANGED <<base, tmp, data, index, phase, cur, ostep, acked>>
      /\ pc[t] \in {"idle", "miss", "read"} /\ pc'[t] \in {"idle", "miss", "read"}
      /\ \A s \in Thread : s # t => pc'[s] = pc[s] /\ op'[s] = op[s]
  BY DEF ReadStep, ReadMissed, ReadFinish, ReadMiss, ReadSeek, IndInv, TypeOK, files, hist, loop
<1>2. \A s \in Thread : /\ Writing(s)' <=> Writing(s)
                        /\ Writing(s) => op'[s] = op[s]
                        /\ pc'[s] \in {"key", "loc"} <=> pc[s] \in {"key", "loc"}
  BY <1>1 DEF Writing
<1>3. \A s \in Thread : pc[s] \in {"key", "loc"} => op'[s] = op[s]
  BY <1>1
<1>4. ASSUME NEW k \in UserKey PROVE Location(k)' = Location(k)
  <2>1. FinishedTmp(BucketOf[k])' = FinishedTmp(BucketOf[k])
    BY <1>1, <1>2, <1>3 DEF FinishedTmp, Settled
  <2>2. Loaded(BucketOf[k])' <=> Loaded(BucketOf[k])
    BY <1>1 DEF Loaded
  <2>3. (\A s \in Thread : ~(Writing(s) /\ op[s].key = k))'
          <=> \A s \in Thread : ~(Writing(s) /\ op[s].key = k)
    BY <1>2
  <2> QED BY <1>1, <2>1, <2>2, <2>3 DEF Location
<1> QED BY <1>1, <1>4, StoredKept

\* The process ends between two records of the first session.
LEMMA DownStored ==
  ASSUME WritesOnce, IndInv, StoredInv, FirstInv, FirstUse, Forget, UNCHANGED files,
         \A t \in Thread : pc[t] \notin {"key", "loc"}
  PROVE  StoreInv'
<1>1. /\ phase' = "down" /\ session' = 1 /\ index' = EmptyIndex
      /\ UNCHANGED <<base, tmp, data, acked>> /\ \A t \in Thread : pc'[t] = "idle"
  BY DEF Forget, files, hist, FirstUse
<1>2. FirstInv' /\ UnloadedInv' /\ CallersInv'
  BY <1>1, CallersNone DEF FirstInv, UnloadedInv, EmptyIndex, Making
<1>3. ASSUME NEW k \in UserKey PROVE Location(k)' = Location(k)
  <2>1. Location(k) = LoadFiles(base[BucketOf[k]], FinishedTmp(BucketOf[k]))[k]
    BY FirstLocation, FinishedLoaded DEF WritesOnce
  <2>2. FinishedTmp(BucketOf[k]) = tmp[BucketOf[k]]
    BY DEF FinishedTmp, Settled
  <2>3. Location(k)' = Place(BucketOf[k], k)'
    BY <1>1, IdleLocationNext
  <2>4. ~Loaded(BucketOf[k])'
    BY <1>1 DEF Loaded
  <2>5. Place(BucketOf[k], k)' = LoadFiles(base[BucketOf[k]], tmp[BucketOf[k]])[k]
    BY <1>1, <2>4 DEF Place, OnDisk
  <2> QED BY <2>1, <2>2, <2>3, <2>5
<1>4. StoredInv'
  BY <1>1, <1>3, StoredKept
<1> QED BY <1>2, <1>4 DEF StoreInv

LEMMA InitStore == WritesOnce /\ Init => StoreInv
<1> SUFFICES ASSUME WritesOnce, Init PROVE StoreInv
  OBVIOUS
<1>1. \A t \in Thread : pc[t] = "idle"
  BY DEF Init
<1>2. UnloadedInv /\ CallersInv /\ FirstInv
  BY <1>1 DEF Init, UnloadedInv, CallersInv, FirstInv, EmptyIndex, Making, Writing, Unused
<1>3. ASSUME NEW k \in UserKey PROVE Stored(k) = acked[k]
  <2>1. BucketOf[k] \in Bucket /\ k \in Key
    BY ConstantsAssumption
  <2>2. OnDisk(BucketOf[k])[k] = NoLoc
    BY <2>1 DEF Init, OnDisk, LoadFiles, NoIndex
  <2>3. Location(k) = NoLoc
    BY <1>1, <2>2, IdleLocation DEF Place, Loaded, Init
  <2> QED BY <2>3 DEF Stored, Init
<1> QED BY <1>2, <1>3 DEF StoreInv, StoredInv

\* Nothing happens.
LEMMA StutterStore ==
  ASSUME StoreInv, UNCHANGED vars
  PROVE  StoreInv'
<1> USE DEF vars, files, mem, threads, saving, loop, hist
<1>1. StoredInv'
  <2>1. ASSUME NEW k \in UserKey PROVE Stored(k)' = Stored(k)
    BY DEF Stored, Location, Loaded, FinishedTmp, Settled, Writing
  <2> QED BY <2>1 DEF StoreInv, StoredInv
<1>2. UnloadedInv' /\ CallersInv'
  BY DEF StoreInv, UnloadedInv, Loaded, Making, CallersInv, Writing
<1>3. FirstInv'
  <2>1. \A b \in Bucket : (AppendInv(b)' <=> AppendInv(b)) /\ (Unused(b)' <=> Unused(b))
    BY DEF AppendInv, Appended, Unused
  <2>2. \A t \in Thread : AppendedInv(t)' <=> AppendedInv(t)
    BY DEF AppendedInv, Appended
  <2>3. \A k \in UserKey : KeyInv(k)' <=> KeyInv(k)
    BY DEF KeyInv, Unfinished, Writing
  <2> QED BY <2>1, <2>2, <2>3 DEF StoreInv, FirstInv
<1> QED BY <1>1, <1>2, <1>3 DEF StoreInv

LEMMA NextStore ==
  ASSUME WritesOnce, IndInv, IndInv', DiskInv, StoreInv, [Next]_vars, EndsBetween, StartsAtZero
  PROVE  StoreInv'
<1>0. /\ Undisturbed /\ ControlInv /\ ControlInv'
      /\ StoredInv /\ UnloadedInv /\ FirstInv /\ CallersInv
  BY DEF IndInv, ControlInv, WritesOnce, StoreInv
<1>1. CASE UNCHANGED vars \/ Done
  BY <1>1, StutterStore DEF Done
<1>2. CASE OpenStart \/ OpenNoDirectory \/ OpenStep
  <2>1. StoredInv' /\ UnloadedInv' /\ FirstInv'
    BY <1>0, <1>2, OpenStored, OpenFirst
  <2>2. phase' # "open" \/ phase # "open"
    BY <1>2 DEF OpenStart, OpenNoDirectory, OpenStep, OpenFresh, OpenClean, OpenCleanFails,
       OpenMerge, OpenMergeFails, OpenMergeReturns, OpenMakeData, OpenMakeTmp, OpenMakeFails,
       OpenMap, OpenMapReturns
  <2>3. pc' = pc \/ pc' = [t \in Thread |-> "idle"]
    BY <1>2 DEF OpenStart, OpenNoDirectory, OpenStep, OpenFresh, OpenClean, OpenCleanFails,
       OpenMerge, OpenMergeFails, OpenMergeReturns, OpenMakeData, OpenMakeTmp, OpenMakeFails,
       OpenMap, OpenMapReturns, Forget, DeleteEngine, threads
  <2>4. \A t \in Thread : pc'[t] = "idle"
    BY <1>0, <2>2, <2>3 DEF ControlInv, ThreadInv
  <2> QED BY <2>1, <2>4, CallersNone DEF StoreInv
<1>3. CASE Close \/ CloseStep
  <2>1. StoredInv' /\ UnloadedInv'
    BY <1>0, <1>3, CloseStored
  <2>2. /\ phase' \in {"closing", "down"} /\ session' = session /\ phase # "down"
        /\ pc' = pc \/ pc' = [t \in Thread |-> "idle"]
    BY <1>3 DEF Close, CloseStep, SaveOpen, SaveOpenFails, SaveField, SaveFieldFails, SaveDone, Forget, loop, threads
  <2>3. FirstInv'
    BY <1>0, <2>2 DEF FirstInv
  <2>4. \A t \in Thread : pc'[t] = "idle"
    BY <1>0, <2>2 DEF ControlInv, ThreadInv
  <2> QED BY <2>1, <2>3, <2>4, CallersNone DEF StoreInv
<1>4. ASSUME NEW t \in Thread,
             \/ ReadStep(t) \/ \E k \in UserKey : ReadMiss(t, k) \/ ReadSeek(t, k)
             \/ WriteStep(t) \/ \E k \in UserKey, v \in Value : WriteIndex(t, k, v)
      PROVE  StoreInv'
  <2>1. CASE WriteOverflow(t)
    <3>1. pc[t] = "size" /\ phase' = "down" /\ Forget /\ UNCHANGED files
      BY <2>1 DEF WriteOverflow, Forget
    <3>2. FirstUse
      BY <1>0, <3>1, InsideCall DEF CallersInv, Writing, FirstUse
    <3> QED BY <1>0, <3>1, <3>2, DownStored DEF EndsBetween, FirstUse
  <2>2. CASE ~WriteOverflow(t)
    <3>1. phase = "open" /\ phase' = "open" /\ session' = session
      <4>1. phase = "open" \/ pc[t] # "idle"
        BY <1>4 DEF ReadStep, ReadMissed, ReadFinish, ReadMiss, ReadSeek, WriteStep, WriteData, WriteSize, WriteKey, WriteLoc,
           WriteIndex, WriteOverflow
      <4>2. UNCHANGED <<phase, session>>
        BY <1>4, <2>2 DEF ReadStep, ReadMissed, ReadFinish, ReadMiss, ReadSeek, WriteStep, WriteData, WriteSize, WriteKey,
           WriteLoc, WriteIndex, loop
      <4> QED BY <1>0, <4>1, <4>2, InsideCall
    <3>2. UnloadedInv'
      BY <3>1 DEF UnloadedInv, Loaded, Making
    <3>3. CallersInv'
      BY <1>0, <1>4, <2>2, CallersCall
    <3>4. CASE session = 1
      <4>1. FirstUse /\ FirstUse'
        BY <3>1, <3>4 DEF FirstUse
      <4>2. FirstInv'
        BY <1>0, <1>4, <2>2, <4>1, FirstCall
      <4>3. StoredInv'
        BY <4>1, <4>2, FirstStoredNext
      <4> QED BY <3>2, <3>3, <4>2, <4>3 DEF StoreInv
    <3>5. CASE session # 1
      <4>1. FirstInv'
        BY <1>0, <3>1, <3>5 DEF FirstInv
      <4>2. ReadStep(t) \/ \E k \in UserKey : ReadMiss(t, k) \/ ReadSeek(t, k)
        <5>1. ~WriteStep(t)
          BY <1>0, <2>2, <3>5 DEF WriteStep, WriteData, WriteSize, WriteKey, WriteLoc, CallersInv, Writing
        <5>2. \A k \in UserKey, v \in Value : ~WriteIndex(t, k, v)
          BY <3>5 DEF WriteIndex, WritesOnce
        <5> QED BY <1>4, <5>1, <5>2
      <4>3. StoredInv'
        BY <1>0, <4>2, ReadStored
      <4> QED BY <3>2, <3>3, <4>1, <4>3 DEF StoreInv
    <3> QED BY <3>4, <3>5
  <2> QED BY <2>1, <2>2
<1>5. CASE Kill
  <2>1. /\ <<session, KillPoint>> \in KillIn /\ Forget /\ UNCHANGED files
        /\ KillPoint = "running" /\ session = 1
    <3>1. <<session, KillPoint>> \in KillIn /\ Forget /\ UNCHANGED files
      BY <1>5 DEF Kill
    <3>2. <<session, KillPoint>>[1] = 1 /\ <<session, KillPoint>>[2] = "running"
      BY <3>1 DEF WritesOnce, Undisturbed
    <3> QED BY <3>1, <3>2
  <2>2. phase = "open" /\ \A t \in Thread : pc[t] \notin {"key", "loc"}
    BY <1>0, <2>1 DEF KillPoint, ControlInv, TypeOK
  <2> QED BY <1>0, <2>1, <2>2, DownStored DEF FirstUse
<1> QED BY <1>1, <1>2, <1>3, <1>4, <1>5 DEF Next

\* When nextLoc is found to be 0 by the first Open (nothing sees to it, engine_race.h:65), keys and
\* values are text, no call fails, only the first session writes and only it is killed, between two
\* records, the store is what StoreInv says.
THEOREM StoreInductive ==
  ASSUME WritesOnce PROVE Spec /\ EndsBetweenRecords /\ NextLocStartsAtZero => []StoreInv
<1>1. IndInv /\ IndInv' /\ DiskInv /\ StoreInv /\ [Next]_vars /\ [EndsBetween]_vars
        /\ [StartsAtZero]_vars => StoreInv'
  <2> SUFFICES ASSUME IndInv, IndInv', DiskInv, StoreInv, [Next]_vars, [EndsBetween]_vars,
                      [StartsAtZero]_vars
               PROVE  StoreInv'
    OBVIOUS
  <2>1. EndsBetween /\ StartsAtZero
    BY DEF EndsBetween, StartsAtZero, vars, loop
  <2> QED BY <2>1, NextStore
<1>2. EndsBetweenRecords <=> [][EndsBetween]_vars
  BY DEF EndsBetweenRecords, EndsBetween
<1>6. NextLocStartsAtZero <=> [][StartsAtZero]_vars
  BY DEF NextLocStartsAtZero, StartsAtZero
<1>3. Undisturbed
  BY DEF WritesOnce
<1>4. Spec /\ EndsBetweenRecords => []DiskInv
  BY <1>3, DiskInductive
<1>5. Init => StoreInv
  BY InitStore
<1> QED BY <1>1, <1>2, <1>4, <1>5, <1>6, Inductive, PTL DEF Spec

\* Under the same hypotheses what was acknowledged is what a Read in a later session finds: after a
\* kill between two Writes, the merge of index_i.tmp, closing and opening again
\* (engine_race.cc:66-206, 208-236, 277-299).
THEOREM AcknowledgedReadable ==
  ASSUME WritesOnce PROVE Spec /\ EndsBetweenRecords /\ NextLocStartsAtZero => []AckedReadable
<1>1. IndInv /\ StoreInv => AckedReadable
  <2> SUFFICES ASSUME IndInv, StoreInv, phase = "open", NEW k \in UserKey,
                      mu[BucketOf[k]] = NoThread, acked[k] # NoValue
               PROVE  /\ index[BucketOf[k]][k] # NoLoc
                      /\ ReadValue(data[BucketOf[k]], index[BucketOf[k]][k]) = VStr[acked[k]]
    BY DEF AckedReadable
  <2>1. Stored(k) = acked[k]
    BY DEF StoreInv, StoredInv
  <2>2. \A t \in Thread : ~(Writing(t) /\ op[t].key = k)
    BY SentinelsAssumption DEF IndInv, ThreadInv, Writing
  <2>3. Location(k) = index[BucketOf[k]][k]
    BY <2>2 DEF Location, Loaded
  <2>4. acked[k] \in Value
    BY DEF IndInv, TypeOK
  <2> QED BY <2>1, <2>3, <2>4 DEF Stored, WritesOnce
<1> QED BY <1>1, StoreInductive, Inductive, PTL

\* No other call on the bucket comes between the two steps of a Read, so it returns the last value
\* that was acknowledged for its key (engine_race.cc:277-299).
LEMMA ReadsLast ==
  ASSUME WritesOnce, IndInv, StoreInv, [Next]_vars, NEW t \in Thread,
         pc[t] = "read", acked[op[t].key] # NoValue
  PROVE  Result(t) = VStr[acked[op[t].key]]
<1>0. ControlInv
  BY DEF IndInv, ControlInv
<1>1. PICK k \in UserKey : k = op[t].key
  BY <1>0, InsideCall
<1>2. PICK b \in Bucket : b = BucketOf[k]
  BY ConstantsAssumption
<1>3. phase = "open" /\ mu[b] = t
  BY <1>0, <1>1, <1>2 DEF ControlInv, ThreadInv
<1>4. index[b][k] # NoLoc /\ fdpos[b] = index[b][k].off
  BY <1>1, <1>2 DEF StoreInv, CallersInv
<1>5. index[b][k] = [off |-> fdpos[b], len |-> index[b][k].len]
  <2>1. k \in Key
    BY ConstantsAssumption
  <2>2. index[b][k] \in Loc
    BY <1>4, <2>1 DEF IndInv, TypeOK
  <2> QED BY <1>4, <2>2 DEF Loc
<1>6. \A s \in Thread : ~(Writing(s) /\ op[s].key = k)
  <2>1. \A s \in Thread : pc[s] # "idle" /\ op[s].key = k => s = t
    BY <1>0, <1>2, <1>3 DEF ControlInv, ThreadInv
  <2> QED BY <2>1 DEF Writing
<1>7. Location(k) = index[b][k]
  BY <1>2, <1>3, <1>6 DEF Location, Loaded
<1>8. Stored(k) = acked[k] /\ acked[k] \in Value
  BY <1>1 DEF StoreInv, StoredInv, IndInv, TypeOK
<1>9. ReadValue(data[b], index[b][k]) = acked[k]
  BY <1>2, <1>4, <1>7, <1>8 DEF Stored
<1>10. Result(t) = ReadValue(data[b], index[b][k])
  BY <1>1, <1>2, <1>5 DEF Result
<1> QED BY <1>1, <1>8, <1>9, <1>10 DEF WritesOnce

\* The same of every behaviour in which nextLoc starts at 0, only the first session writes and only
\* it is killed, between two records, and no call fails: a Read that has found its key returns the
\* last value that was acknowledged for the key (engine_race.cc:277-299).
THEOREM ReadIsLast ==
  ASSUME WritesOnce PROVE Spec /\ EndsBetweenRecords /\ NextLocStartsAtZero => ReadReturnsLast
<1>1. IndInv /\ StoreInv /\ [Next]_vars =>
        [\A t \in Thread : pc[t] = "read" /\ pc'[t] = "idle" /\ phase' = "open"
                              /\ acked[op[t].key] # NoValue
           => Result(t) = VStr[acked[op[t].key]]]_vars
  BY ReadsLast
<1> QED BY <1>1, StoreInductive, Inductive, PTL DEF Spec, ReadReturnsLast

-----------------------------------------------------------------------------
(* The engine is a store *)

Store == [k \in UserKey |-> Stored(k)]
Pending == [t \in Thread |-> InFlight(t)]
\* A step of the engine is a step of the store, or changes nothing of it.
Implements == KV!Next \/ (Store' = Store /\ Pending' = Pending)

\* Nobody writes before or after the step, and no value changes.
LEMMA QuietImplements ==
  ASSUME StoredInv, StoredInv', acked' = acked,
         \A t \in Thread : Writing(t)' <=> Writing(t),
         \A t \in Thread : Writing(t) => op'[t] = op[t]
  PROVE  Implements
<1>1. Store' = Store
  BY DEF Store, StoredInv
<1>2. \A t \in Thread : InFlight(t)' = InFlight(t)
  BY DEF InFlight
<1>3. Pending' = Pending
  BY <1>2 DEF Pending
<1> QED BY <1>1, <1>3 DEF Implements

LEMMA CrashImplements ==
  ASSUME StoredInv, StoredInv', acked' = acked, \A t \in Thread : pc'[t] = "idle"
  PROVE  Implements
<1>1. Store' = Store
  BY DEF Store, StoredInv
<1>2. \A t \in Thread : InFlight(t)' = KV!Idle
  BY DEF InFlight, Writing, NoOp, KV!Idle
<1>3. Pending' = [t \in Thread |-> KV!Idle]
  BY <1>2 DEF Pending
<1>4. KV!Crash
  BY <1>1, <1>3 DEF KV!Crash, Store, Pending
<1> QED BY <1>4 DEF Implements, KV!Next

LEMMA CallImplements ==
  ASSUME IndInv, StoredInv, StoredInv', NEW t \in Thread, NEW k \in UserKey, NEW v \in Value,
         WriteIndex(t, k, v)
  PROVE  Implements
<1>1. /\ pc[t] = "idle" /\ pc' = [pc EXCEPT ![t] = "data"] /\ acked' = acked
      /\ op' = [op EXCEPT ![t] = [key |-> k, val |-> v]]
  BY DEF WriteIndex, hist
<1>2. Store' = Store
  BY <1>1 DEF Store, StoredInv
<1>3. Pending[t] = KV!Idle
  BY <1>1 DEF Pending, InFlight, Writing, NoOp, KV!Idle
<1>4. \A s \in Thread : InFlight(s)' = IF s = t THEN [key |-> k, val |-> v] ELSE InFlight(s)
  BY <1>1 DEF InFlight, Writing, IndInv, TypeOK
<1>5. Pending' = [Pending EXCEPT ![t] = [key |-> k, val |-> v]]
  BY <1>4 DEF Pending
<1>6. KV!Call(t, k, v)
  BY <1>2, <1>3, <1>5 DEF KV!Call, Store, Pending
<1> QED BY <1>6 DEF Implements, KV!Next

LEMMA CommitImplements ==
  ASSUME IndInv, StoredInv, StoredInv', NEW t \in Thread, WriteLoc(t)
  PROVE  Implements
<1>1. /\ pc[t] = "loc" /\ pc' = [pc EXCEPT ![t] = "idle"] /\ op' = [op EXCEPT ![t] = NoOp]
      /\ acked' = [acked EXCEPT ![op[t].key] = op[t].val]
  BY DEF WriteLoc
<1>2. Writing(t) /\ op[t].key \in UserKey /\ op[t].val \in Value
  BY <1>1 DEF IndInv, ThreadInv, Writing
<1>3. Pending[t] = op[t] /\ Pending[t] # KV!Idle
  BY <1>2, SentinelsAssumption DEF Pending, InFlight, KV!Idle
<1>4. \A k \in UserKey : Stored(k)' = IF k = op[t].key THEN op[t].val ELSE Stored(k)
  BY <1>1 DEF StoredInv, IndInv, TypeOK
<1>5. Store' = [Store EXCEPT ![Pending[t].key] = Pending[t].val]
  <2>1. Pending[t].key = op[t].key /\ Pending[t].val = op[t].val
    BY <1>3
  <2> QED BY <1>4, <2>1 DEF Store
<1>6. \A s \in Thread : InFlight(s)' = IF s = t THEN NoOp ELSE InFlight(s)
  BY <1>1 DEF InFlight, Writing, IndInv, TypeOK
<1>7. Pending' = [Pending EXCEPT ![t] = KV!Idle]
  BY <1>6 DEF Pending, NoOp, KV!Idle
<1>8. KV!Commit(t)
  BY <1>3, <1>5, <1>7 DEF KV!Commit, Store, Pending
<1> QED BY <1>8 DEF Implements, KV!Next

LEMMA StepImplements ==
  ASSUME WritesOnce, IndInv, DiskInv, StoreInv, StoreInv', [Next]_vars
  PROVE  Implements
<1>0. ControlInv /\ Undisturbed /\ StoredInv /\ StoredInv'
  BY DEF IndInv, ControlInv, WritesOnce, StoreInv
<1>1. CASE UNCHANGED vars \/ Done
  <2>1. UNCHANGED <<acked, pc, op>>
    BY <1>1 DEF Done, vars, threads, hist
  <2> QED BY <1>0, <2>1, QuietImplements DEF Writing
<1>2. CASE OpenStart \/ OpenNoDirectory \/ OpenStep \/ Close \/ CloseStep
  <2>1. /\ acked' = acked
        /\ pc' = pc \/ pc' = [t \in Thread |-> "idle"]
        /\ \A t \in Thread : pc[t] = "idle"
    <3>1. CASE OpenStart \/ OpenNoDirectory \/ OpenStep
      <4>1. /\ acked' = acked /\ phase # "open"
            /\ pc' = pc \/ pc' = [t \in Thread |-> "idle"]
        BY <3>1 DEF OpenStart, OpenNoDirectory, OpenStep, OpenFresh, OpenClean, OpenCleanFails,
           OpenMerge, OpenMergeFails, OpenMergeReturns, OpenMakeData, OpenMakeTmp, OpenMakeFails,
           OpenMap, OpenMapReturns, Forget, DeleteEngine, threads, hist
      <4> QED BY <1>0, <4>1, NobodyOutside
    <3>2. CASE Close \/ CloseStep
      <4>1. /\ acked' = acked
            /\ phase # "open" \/ (\A t \in Thread : pc[t] = "idle")
            /\ pc' = pc \/ pc' = [t \in Thread |-> "idle"]
        BY <3>2 DEF Close, CloseStep, SaveOpen, SaveOpenFails, SaveField, SaveFieldFails, SaveDone, Forget, threads, hist
      <4> QED BY <1>0, <4>1, NobodyOutside
    <3> QED BY <1>2, <3>1, <3>2
  <2>2. \A t \in Thread : pc'[t] = "idle"
    BY <2>1
  <2> QED BY <1>0, <2>1, <2>2, CrashImplements
<1>3. ASSUME NEW t \in Thread, NEW k \in UserKey, NEW v \in Value, WriteIndex(t, k, v)
      PROVE  Implements
  BY <1>0, <1>3, CallImplements
<1>4. ASSUME NEW t \in Thread, WriteLoc(t) PROVE Implements
  BY <1>0, <1>4, CommitImplements
<1>5. ASSUME NEW t \in Thread,
             \/ ReadStep(t) \/ \E k \in UserKey : ReadMiss(t, k) \/ ReadSeek(t, k)
             \/ WriteData(t) \/ WriteSize(t) \/ WriteKey(t)
      PROVE  Implements
  <2>1. /\ acked' = acked
        /\ \/ /\ pc[t] \in {"idle", "miss", "read"}
              /\ \E p \in {"idle", "miss", "read"} : \E o : pc' = [pc EXCEPT ![t] = p] /\ op' = [op EXCEPT ![t] = o]
           \/ /\ pc[t] \in {"data", "size", "key"} /\ op' = op
              /\ \E p \in {"size", "key", "loc"} : pc' = [pc EXCEPT ![t] = p]
    BY <1>5 DEF ReadStep, ReadMissed, ReadFinish, ReadMiss, ReadSeek, WriteData, WriteSize, WriteKey, hist
  <2>2. \A s \in Thread : Writing(s)' <=> Writing(s)
    BY <1>0, <2>1 DEF Writing, ControlInv, TypeOK
  <2>3. \A s \in Thread : Writing(s) => op'[s] = op[s]
    BY <1>0, <2>1 DEF Writing, ControlInv, TypeOK
  <2> QED BY <1>0, <2>1, <2>2, <2>3, QuietImplements
<1>6. CASE Kill \/ \E t \in Thread : WriteOverflow(t)
  <2>1. acked' = acked /\ \A t \in Thread : pc'[t] = "idle"
    BY <1>6 DEF Kill, WriteOverflow, Forget, hist
  <2> QED BY <1>0, <2>1, CrashImplements
<1> QED BY <1>1, <1>2, <1>3, <1>4, <1>5, <1>6 DEF Next, WriteStep

LEMMA InitImplements == WritesOnce /\ Init => KV!Init
<1> SUFFICES ASSUME WritesOnce, Init PROVE KV!Init
  OBVIOUS
<1>1. \A k \in UserKey : Stored(k) = NoValue
  BY InitStore DEF StoreInv, StoredInv, Init
<1>2. \A t \in Thread : InFlight(t) = KV!Idle
  BY DEF Init, InFlight, Writing, NoOp, KV!Idle
<1> QED BY <1>1, <1>2 DEF KV!Init

\* The engine implements the store of engine/include/engine.h:41-47: a Write
\* (engine_race.cc:238-274) takes effect in one step or, when the process ends first, not at all,
\* and what it wrote stays through Open, Read, kill -9 and the destructor, for any number of
\* buckets, threads, keys, values and sessions. The hypotheses: nextLoc starts at 0, keys and
\* values are text, no call fails, later sessions read and close only, kill -9 hits the first
\* session only, between two records.
THEOREM RaceImplementsKVStore ==
  ASSUME WritesOnce PROVE Spec /\ EndsBetweenRecords /\ NextLocStartsAtZero => ImplementsKVStore
<1>1. Undisturbed
  BY DEF WritesOnce
<1>2. Init => KV!Init
  BY InitImplements
<1>3. IndInv /\ DiskInv /\ StoreInv /\ StoreInv' /\ [Next]_vars => Implements
  BY StepImplements
<1>4. Implements => [KV!Next]_<<Store, Pending>>
  BY DEF Implements
<1>5. Spec /\ EndsBetweenRecords => []DiskInv
  BY <1>1, DiskInductive
<1> QED BY <1>2, <1>3, <1>4, <1>5, StoreInductive, Inductive, PTL
        DEF Spec, ImplementsKVStore, KV!Spec, Store, Pending
=============================================================================
