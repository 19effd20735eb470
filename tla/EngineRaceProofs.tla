-------------------------- MODULE EngineRaceProofs --------------------------
(* Theorems about EngineRace, for every value of its constants. *)
EXTENDS EngineRaceProps, FiniteSetTheorems, SequenceTheorems, WellFoundedInduction, TLAPS

-----------------------------------------------------------------------------
(* The reader of an index file is defined by CHOOSE: what it chooses exists. *)

\* A non-empty set of natural numbers has a least element.
LEMMA LeastNat ==
  ASSUME NEW S \in SUBSET Nat, S # {}
  PROVE  \E n \in S : \A m \in S : n <= m
<1>1. PICK n \in S : \A m \in S : ~(<<m, n>> \in OpToRel(<, Nat))
  BY WFMin, NatLessThanWellFounded
<1>2. \A m \in S : ~(m < n)
  BY <1>1 DEF OpToRel
<1> QED BY <1>2

\* A bounded, non-empty set of natural numbers has a greatest element.
LEMMA GreatestNat ==
  ASSUME NEW S \in SUBSET Nat, S # {}, NEW N \in Nat, \A m \in S : m <= N
  PROVE  \E n \in S : \A m \in S : m <= n
<1> DEFINE D == {d \in Nat : N - d \in S}
<1>1. ASSUME NEW m \in S PROVE N - m \in D
  <2>1. m \in Nat /\ m <= N /\ N - m \in Nat /\ N - (N - m) = m
    OBVIOUS
  <2> QED BY <2>1
<1>2. D \in SUBSET Nat /\ D # {}
  BY <1>1
<1> HIDE DEF D
<1>3. PICK d \in D : \A e \in D : d <= e
  BY <1>2, LeastNat
<1>4. N - d \in S /\ d \in Nat
  BY <1>2 DEF D
<1>5. ASSUME NEW m \in S PROVE m <= N - d
  <2>1. d <= N - m
    BY <1>1, <1>3
  <2> QED BY <2>1, <1>4
<1> QED BY <1>4, <1>5

\* read_index_file keeps the last record of a key (engine_race.cc:53).
LEMMA LastOfIsLast ==
  ASSUME NEW recs \in Seq(Record), NEW c, Found(recs, c)
  PROVE  /\ LastOf(recs, c) \in 1..Len(recs)
         /\ CStr[recs[LastOf(recs, c)].key] = c
         /\ \A j \in 1..Len(recs) : CStr[recs[j].key] = c => j <= LastOf(recs, c)
<1> DEFINE S == {i \in 1..Len(recs) : CStr[recs[i].key] = c}
<1>1. S \in SUBSET Nat /\ S # {} /\ Len(recs) \in Nat /\ \A m \in S : m <= Len(recs)
  BY DEF Found
<1>2. \E n \in S : \A m \in S : m <= n
  BY <1>1, GreatestNat
<1> QED BY <1>2 DEF LastOf

\* Loading records into an index yields an index.
LEMMA LoadType ==
  ASSUME NEW idx \in [Key -> Loc \cup {NoLoc}], NEW recs \in Seq(Record)
  PROVE  Load(idx, recs) \in [Key -> Loc \cup {NoLoc}]
<1>1. ASSUME NEW c \in Key, Found(recs, c)
      PROVE  recs[LastOf(recs, c)].loc \in Loc
  <2>1. LastOf(recs, c) \in 1..Len(recs)
    BY <1>1, LastOfIsLast
  <2>2. recs[LastOf(recs, c)] \in Record
    BY <2>1, ElementOfSeq
  <2> QED BY <2>2 DEF Record
<1> QED BY <1>1 DEF Load

\* The reader of index_i stops after a definite number of whole records.
LEMMA WholeCountDefined ==
  ASSUME NEW f \in Seq(Field)
  PROVE  /\ WholeCount(f) \in 0..Len(f)
         /\ \A j \in 1..WholeCount(f) : Whole(f, j)
         /\ ~Whole(f, WholeCount(f) + 1)
<1> DEFINE S == {m \in Nat : ~Whole(f, m + 1)}
<1>1. Len(f) \in Nat
  OBVIOUS
<1>2. Len(f) \in S
  BY <1>1 DEF Whole
<1>3. PICK n \in S : \A m \in S : n <= m
  BY <1>2, LeastNat
<1>4. n \in 0..Len(f) /\ ~Whole(f, n + 1)
  BY <1>1, <1>2, <1>3
<1>5. ASSUME NEW j \in 1..n PROVE Whole(f, j)
  <2>1. j - 1 \in Nat /\ ~(n <= j - 1) /\ (j - 1) + 1 = j
    BY <1>4
  <2>2. j - 1 \notin S
    BY <1>3, <2>1
  <2> QED BY <2>1, <2>2
<1>6. \E m \in 0..Len(f) : (\A j \in 1..m : Whole(f, j)) /\ ~Whole(f, m + 1)
  BY <1>4, <1>5
<1> QED BY <1>6 DEF WholeCount

\* What the reader takes from index_i is a sequence of records.
LEMMA RecordsType ==
  ASSUME NEW f \in Seq(Field)
  PROVE  Records(f) \in Seq(Record)
<1>1. WholeCount(f) \in Nat /\ \A j \in 1..WholeCount(f) : Whole(f, j)
  BY WholeCountDefined
<1>2. ASSUME NEW j \in 1..WholeCount(f)
      PROVE  [key |-> f[3 * j - 1].rec.key, loc |-> f[3 * j].rec.loc] \in Record
  <2>1. 3 * j - 1 \in 1..Len(f) /\ 3 * j \in 1..Len(f)
    BY <1>1 DEF Whole
  <2>2. f[3 * j - 1] \in Field /\ f[3 * j] \in Field
    BY <2>1, ElementOfSeq
  <2> QED BY <2>2 DEF Field, Record
<1> QED BY <1>1, <1>2, IsASeq DEF Records

\* A write at or before the end of a file leaves a file, which is not shorter.
LEMMA OverlayType ==
  ASSUME NEW C, NEW f \in Seq(C), NEW c \in Seq(C), NEW p \in Nat, p <= Len(f)
  PROVE  /\ Overlay(f, p, c) \in Seq(C)
         /\ Len(Overlay(f, p, c)) >= p + Len(c)
         /\ Len(Overlay(f, p, c)) >= Len(f)
<1> DEFINE n == IF Len(f) > p + Len(c) THEN Len(f) ELSE p + Len(c)
           e(i) == IF i > p /\ i <= p + Len(c) THEN c[i - p] ELSE f[i]
<1>1. n \in Nat /\ n >= p + Len(c) /\ n >= Len(f)
  OBVIOUS
<1>2. ASSUME NEW i \in 1..n PROVE e(i) \in C
  <2>1. CASE i > p /\ i <= p + Len(c)
    <3>1. i - p \in 1..Len(c)
      BY <2>1
    <3> QED BY <2>1, <3>1, ElementOfSeq
  <2>2. CASE ~(i > p /\ i <= p + Len(c))
    <3>1. i \in 1..Len(f)
      BY <2>2, <1>1
    <3> QED BY <2>2, <3>1, ElementOfSeq
  <2> QED BY <2>1, <2>2
<1>3. [i \in 1..n |-> e(i)] \in Seq(C)
  <2> HIDE DEF n, e
  <2> QED BY <1>1, <1>2, IsASeq
<1>4. Overlay(f, p, c) = [i \in 1..n |-> e(i)]
  BY DEF Overlay
<1> HIDE DEF n, e
<1>5. Len([i \in 1..n |-> e(i)]) = n
  BY <1>1, <1>3
<1> QED BY <1>1, <1>3, <1>4, <1>5

-----------------------------------------------------------------------------
(* Control: types, the progress of Open and the destructor, the mutexes. *)

ControlInv == TypeOK /\ LoopInv /\ ThreadInv

\* The initial state satisfies the control invariant.
LEMMA InitControl == Init => ControlInv
<1> SUFFICES ASSUME Init PROVE ControlInv
  OBVIOUS
<1> USE ConstantsAssumption
<1>1. TypeOK
  <2>1. cur \in Bucket /\ session \in 0..MaxSession
    BY DEF Init, Bucket
  <2> QED BY <2>1 DEF Init, TypeOK, FileOf, EmptyIndex, NoOp
<1>2. LoopInv
  BY DEF Init, LoopInv
<1>3. ThreadInv
  BY DEF Init, ThreadInv
<1> QED BY <1>1, <1>2, <1>3 DEF ControlInv

\* Forgetting the engine object preserves the control invariant, whatever happens to files.
LEMMA ForgetControl ==
  ASSUME ControlInv, Forget,
         base' \in [Bucket -> FileOf(Field)], tmp' \in [Bucket -> FileOf(Record)],
         data' \in [Bucket -> FileOf(Cell)], ret' \in {"none", "kSucc", "kIOError"}
  PROVE  ControlInv'
<1>1. TypeOK'
  <2>1. cur' \in Bucket
    BY ConstantsAssumption DEF Forget, Bucket
  <2> QED BY <2>1 DEF ControlInv, TypeOK, Forget, EmptyIndex, NoOp, hist
<1>2. LoopInv'
  BY DEF Forget, LoopInv
<1>3. ThreadInv'
  BY DEF Forget, ThreadInv, ControlInv, TypeOK
<1> QED BY <1>1, <1>2, <1>3 DEF ControlInv

\* While Open runs no thread is inside a call.
LEMMA NobodyOutside ==
  ASSUME ControlInv, phase # "open"
  PROVE  \A t \in Thread : pc[t] = "idle"
BY DEF ControlInv, ThreadInv

\* Handing the half-opened engine to its destructor preserves the control invariant.
LEMMA DeleteControl ==
  ASSUME ControlInv, phase = "opening", DeleteEngine,
         base' \in [Bucket -> FileOf(Field)], tmp' \in [Bucket -> FileOf(Record)],
         data' \in [Bucket -> FileOf(Cell)],
         index' \in [Bucket -> [Key -> Loc \cup {NoLoc}]]
  PROVE  ControlInv'
<1>0. \A t \in Thread : pc[t] = "idle"
  BY NobodyOutside
<1>1. TypeOK'
  <2>1. cur' \in Bucket
    BY ConstantsAssumption DEF DeleteEngine, Bucket
  <2> QED BY <2>1 DEF ControlInv, TypeOK, DeleteEngine, threads, saving, hist
<1>2. LoopInv'
  BY DEF DeleteEngine, LoopInv
<1>3. ThreadInv'
  BY <1>0 DEF DeleteEngine, ThreadInv, threads
<1> QED BY <1>1, <1>2, <1>3 DEF ControlInv

\* A step of Open preserves the control invariant.
LEMMA OpenControl == ControlInv /\ (OpenStart \/ OpenNoDirectory \/ OpenStep) => ControlInv'
<1> SUFFICES ASSUME ControlInv, OpenStart \/ OpenNoDirectory \/ OpenStep PROVE ControlInv'
  OBVIOUS
<1> USE DEF ControlInv
<1>0. phase # "open" /\ \A t \in Thread : pc[t] = "idle"
  BY NobodyOutside DEF OpenStart, OpenNoDirectory, OpenStep, OpenFresh, OpenClean, OpenCleanFails, OpenMerge,
     OpenMergeFails, OpenMergeReturns, OpenMakeData, OpenMakeTmp, OpenMakeFails, OpenMap,
     OpenMapReturns
<1>00. <<>> \in Seq(Record) /\ <<>> \in Seq(Cell) /\ NoFile # <<>>
  <2>1. <<>> \in Seq(Record) /\ <<>> \in Seq(Cell)
    BY EmptySeq
  <2>2. NoFile \notin Seq(Record)
    BY SentinelsAssumption
  <2> QED BY <2>1, <2>2
<1>1. CASE OpenStart
  <2>1. TypeOK'
    <3>1. cur' \in Bucket /\ session' \in 0..MaxSession
      BY <1>1, ConstantsAssumption DEF OpenStart, TypeOK, Bucket
    <3>2. nextOff' \in [Bucket -> Nat]
      BY <1>1, ConstantsAssumption DEF OpenStart
    <3> QED BY <1>1, <3>1, <3>2 DEF OpenStart, TypeOK, files, threads, saving
  <2>2. LoopInv'
    BY <1>1 DEF OpenStart, LoopInv, TypeOK, Bucket, files
  <2>3. ThreadInv'
    BY <1>0, <1>1 DEF OpenStart, ThreadInv, threads
  <2> QED BY <2>1, <2>2, <2>3
<1>1a. CASE OpenNoDirectory
  <2>1. TypeOK'
    <3>1. session' \in 0..MaxSession
      BY <1>1a, ConstantsAssumption DEF OpenNoDirectory, TypeOK
    <3> QED BY <1>1a, <3>1 DEF OpenNoDirectory, TypeOK, files, mem, threads, saving, hist
  <2>2. LoopInv' /\ ThreadInv'
    BY <1>0, <1>1a DEF OpenNoDirectory, LoopInv, ThreadInv, threads
  <2> QED BY <2>1, <2>2
<1>2. CASE OpenFresh
  <2>1. TypeOK'
    BY <1>2, <1>00 DEF OpenFresh, TypeOK, mem, threads, saving, hist, FileOf
  <2>2. LoopInv'
    BY <1>2, <1>00 DEF OpenFresh, LoopInv, TypeOK, mem, hist, Bucket
  <2>3. ThreadInv'
    BY <1>0, <1>2 DEF OpenFresh, ThreadInv, threads
  <2> QED BY <2>1, <2>2, <2>3
<1>3. LoadClean /\ base[cur] # NoFile
        => index' \in [Bucket -> [Key -> Loc \cup {NoLoc}]]
  <2> SUFFICES ASSUME LoadClean, base[cur] # NoFile
               PROVE  index' \in [Bucket -> [Key -> Loc \cup {NoLoc}]]
    OBVIOUS
  <2>1. base[cur] \in Seq(Field)
    BY DEF TypeOK, FileOf
  <2>2. Load(index[cur], Records(base[cur])) \in [Key -> Loc \cup {NoLoc}]
    BY <2>1, RecordsType, LoadType DEF TypeOK
  <2> QED BY <2>2 DEF LoadClean, TypeOK
<1>4. CASE OpenClean
  <2>1. TypeOK'
    BY <1>3, <1>4, <1>00 DEF OpenClean, TypeOK, threads, saving, hist, FileOf
  <2>2. LoopInv'
    BY <1>4, <1>00 DEF OpenClean, LoopInv, TypeOK, hist, Bucket
  <2>3. ThreadInv'
    BY <1>0, <1>4 DEF OpenClean, ThreadInv, threads
  <2> QED BY <2>1, <2>2, <2>3
<1>3a. LoadPart /\ base[cur] # NoFile => index' \in [Bucket -> [Key -> Loc \cup {NoLoc}]]
  <2> SUFFICES ASSUME base[cur] # NoFile, NEW n \in 0..Len(Records(base[cur])),
                      index' = [index EXCEPT ![cur] = Load(@, SubSeq(Records(base[cur]), 1, n))]
               PROVE  index' \in [Bucket -> [Key -> Loc \cup {NoLoc}]]
    BY DEF LoadPart
  <2>1. base[cur] \in Seq(Field)
    BY DEF TypeOK, FileOf
  <2> DEFINE part == SubSeq(Records(base[cur]), 1, n)
  <2>2. part \in Seq(Record)
    BY <2>1, RecordsType, SubSeqProperties
  <2>3. index' = [index EXCEPT ![cur] = Load(@, part)]
    OBVIOUS
  <2> HIDE DEF part
  <2>4. Load(index[cur], part) \in [Key -> Loc \cup {NoLoc}]
    BY <2>2, LoadType DEF TypeOK
  <2> QED BY <2>3, <2>4 DEF TypeOK
<1>5. CASE OpenCleanFails
  <2>1. base[cur] # NoFile /\ (LoadClean \/ LoadPart)
    BY <1>5 DEF OpenCleanFails
  <2>2. index' \in [Bucket -> [Key -> Loc \cup {NoLoc}]]
    BY <1>3, <1>3a, <2>1
  <2> QED BY <1>5, <2>2, DeleteControl DEF OpenCleanFails, TypeOK, files
<1>6. LoadMerged /\ tmp[cur] # NoFile => index' \in [Bucket -> [Key -> Loc \cup {NoLoc}]]
  <2> SUFFICES ASSUME LoadMerged, tmp[cur] # NoFile
               PROVE  index' \in [Bucket -> [Key -> Loc \cup {NoLoc}]]
    OBVIOUS
  <2>1. /\ index[cur] \in [Key -> Loc \cup {NoLoc}]
        /\ tmp[cur] \in Seq(Record)
        /\ base[cur] # NoFile => base[cur] \in Seq(Field)
    BY DEF TypeOK, FileOf
  <2>2. PICK old \in [Key -> Loc \cup {NoLoc}] : LoadTmp(old)
    <3>1. base[cur] # NoFile =>
            Load(index[cur], Records(base[cur])) \in [Key -> Loc \cup {NoLoc}]
      BY <2>1, RecordsType, LoadType
    <3> QED BY <2>1, <3>1 DEF LoadMerged
  <2>3. Load(old, tmp[cur]) \in [Key -> Loc \cup {NoLoc}]
    BY <2>1, LoadType
  <2> QED BY <2>2, <2>3 DEF LoadTmp, TypeOK
<1>7. CASE OpenMerge
  <2>1. TypeOK'
    BY <1>6, <1>7 DEF OpenMerge, TypeOK, threads, saving, hist, FileOf
  <2>2. LoopInv'
    BY <1>7 DEF OpenMerge, LoopInv, TypeOK, hist, Bucket
  <2>3. ThreadInv'
    BY <1>0, <1>7 DEF OpenMerge, ThreadInv, threads
  <2> QED BY <2>1, <2>2, <2>3
<1>8. CASE OpenMergeFails
  BY <1>6, <1>8, DeleteControl DEF OpenMergeFails, TypeOK, files
<1>9. CASE OpenMergeReturns
  BY <1>9, ForgetControl DEF OpenMergeReturns, TypeOK, files
<1>10. CASE OpenMakeData
  <2>1. TypeOK'
    BY <1>10, <1>00 DEF OpenMakeData, TypeOK, mem, threads, saving, hist, FileOf
  <2>2. LoopInv'
    BY <1>10, <1>00 DEF OpenMakeData, LoopInv, TypeOK, mem, hist, Bucket
  <2>3. ThreadInv'
    BY <1>0, <1>10 DEF OpenMakeData, ThreadInv, threads
  <2> QED BY <2>1, <2>2, <2>3
<1>11. CASE OpenMakeTmp
  <2>1. TypeOK'
    BY <1>11, <1>00 DEF OpenMakeTmp, TypeOK, mem, threads, saving, hist, FileOf
  <2>2. LoopInv'
    BY <1>11, <1>00 DEF OpenMakeTmp, LoopInv, TypeOK, mem, hist, Bucket
  <2>3. ThreadInv'
    BY <1>0, <1>11 DEF OpenMakeTmp, ThreadInv, threads
  <2> QED BY <2>1, <2>2, <2>3
<1>12. CASE OpenMakeFails
  BY <1>12, DeleteControl DEF OpenMakeFails, TypeOK, files
<1>13. CASE OpenMap
  <2>1. TypeOK'
    <3>1. cur' \in Bucket
      BY <1>13, ConstantsAssumption DEF OpenMap, TypeOK, Bucket
    <3> QED BY <1>13, <3>1 DEF OpenMap, TypeOK, mem, threads, saving, hist, files
  <2>2. \A b \in Bucket : b <= cur => tmp[b] # NoFile /\ data[b] # NoFile
    BY <1>13 DEF OpenMap, LoopInv, TypeOK, Bucket
  <2>3. phase' = "open" => \A b \in Bucket : b <= cur
    BY <1>13, ConstantsAssumption DEF OpenMap, TypeOK, Bucket
  <2>4. LoopInv'
    BY <1>13, <2>2, <2>3 DEF OpenMap, LoopInv, TypeOK, mem, hist, Bucket, files
  <2>5. ThreadInv'
    <3>1. \A b \in Bucket : fdpos[b] = 0
      BY <1>13 DEF OpenMap, LoopInv
    <3>2. phase' = "open" => \A b \in Bucket : fdpos[b] <= Len(data[b])
      BY <2>2, <2>3, <3>1 DEF TypeOK, FileOf
    <3> QED BY <1>0, <1>13, <3>2 DEF OpenMap, ThreadInv, threads, mem, files
  <2> QED BY <2>1, <2>4, <2>5
<1>14. CASE OpenMapReturns
  BY <1>14, ForgetControl DEF OpenMapReturns, TypeOK, files
<1> QED BY <1>1, <1>1a, <1>2, <1>4, <1>5, <1>7, <1>8, <1>9, <1>10, <1>11, <1>12, <1>13, <1>14
        DEF OpenStep

\* The bytes of a value are cells.
LEMMA CellsType ==
  ASSUME NEW v \in Value
  PROVE  Cells(v) \in Seq(Cell) /\ Len(Cells(v)) = VLen[v]
<1>1. VLen[v] \in Nat
  BY ConstantsAssumption
<1>2. \A i \in 1..VLen[v] : <<v, i>> \in Cell
  BY <1>1 DEF Cell
<1>3. [i \in 1..VLen[v] |-> <<v, i>>] \in Seq(Cell)
  BY <1>1, <1>2, IsASeq
<1> QED BY <1>1, <1>3 DEF Cells

\* The mutex of a bucket excludes: two threads that are inside calls are in two buckets.
LEMMA MutexExcludes ==
  ASSUME ThreadInv, NEW s \in Thread, NEW t \in Thread, s # t,
         pc[s] # "idle", pc[t] # "idle"
  PROVE  BucketOf[op[s].key] # BucketOf[op[t].key]
BY DEF ThreadInv

\* Completing the record at the end of index_i.tmp leaves a sequence of records.
LEMMA CompleteType ==
  ASSUME NEW recs \in Seq(Record), NEW k \in Key, NEW l \in Loc
  PROVE  /\ [recs EXCEPT ![Len(recs)].key = k] \in Seq(Record)
         /\ [recs EXCEPT ![Len(recs)].loc = l] \in Seq(Record)
<1>1. recs \in [1..Len(recs) -> Record] /\ Len(recs) \in Nat
  BY LenProperties
<1>2. /\ [recs EXCEPT ![Len(recs)].key = k] \in [1..Len(recs) -> Record]
      /\ [recs EXCEPT ![Len(recs)].loc = l] \in [1..Len(recs) -> Record]
  BY <1>1 DEF Record
<1> QED BY <1>1, <1>2

\* Completing the key of the record at the end of index_i.tmp changes nothing else.
LEMMA CompleteKey ==
  ASSUME NEW recs \in Seq(Record), NEW k \in Key, Len(recs) > 0
  PROVE  LET q == [recs EXCEPT ![Len(recs)].key = k] IN
         /\ q \in Seq(Record) /\ Len(q) = Len(recs)
         /\ \A i \in 1..Len(recs) : i # Len(recs) => q[i] = recs[i]
         /\ q[Len(recs)] = [key |-> k, loc |-> recs[Len(recs)].loc]
<1> DEFINE n == Len(recs)
           e == [recs[n] EXCEPT !.key = k]
<1>1. n \in 1..Len(recs) /\ recs[n] \in Record
  BY LenProperties, ElementOfSeq
<1>2. e \in Record /\ e = [key |-> k, loc |-> recs[n].loc]
  BY <1>1 DEF Record
<1>3. [recs EXCEPT ![n].key = k] = [recs EXCEPT ![n] = e]
  OBVIOUS
<1> HIDE DEF e
<1>4. /\ [recs EXCEPT ![n] = e] \in Seq(Record)
      /\ Len([recs EXCEPT ![n] = e]) = Len(recs)
      /\ \A i \in 1..Len(recs) : [recs EXCEPT ![n] = e][i] = IF i = n THEN e ELSE recs[i]
  BY <1>1, <1>2, ExceptSeq
<1> QED BY <1>1, <1>2, <1>3, <1>4

\* So does completing its location.
LEMMA CompleteLoc ==
  ASSUME NEW recs \in Seq(Record), NEW l \in Loc, Len(recs) > 0
  PROVE  LET q == [recs EXCEPT ![Len(recs)].loc = l] IN
         /\ q \in Seq(Record) /\ Len(q) = Len(recs)
         /\ \A i \in 1..Len(recs) : i # Len(recs) => q[i] = recs[i]
         /\ q[Len(recs)] = [key |-> recs[Len(recs)].key, loc |-> l]
<1> DEFINE n == Len(recs)
           e == [recs[n] EXCEPT !.loc = l]
<1>1. n \in 1..Len(recs) /\ recs[n] \in Record
  BY LenProperties, ElementOfSeq
<1>2. e \in Record /\ e = [key |-> recs[n].key, loc |-> l]
  BY <1>1 DEF Record
<1>3. [recs EXCEPT ![n].loc = l] = [recs EXCEPT ![n] = e]
  OBVIOUS
<1> HIDE DEF e
<1>4. /\ [recs EXCEPT ![n] = e] \in Seq(Record)
      /\ Len([recs EXCEPT ![n] = e]) = Len(recs)
      /\ \A i \in 1..Len(recs) : [recs EXCEPT ![n] = e][i] = IF i = n THEN e ELSE recs[i]
  BY <1>1, <1>2, ExceptSeq
<1> QED BY <1>1, <1>2, <1>3, <1>4

\* The end of a call, which releases the mutex, preserves the thread invariant.
LEMMA UnlockThreads ==
  ASSUME ControlInv, NEW t \in Thread, pc[t] # "idle",
         pc' = [pc EXCEPT ![t] = "idle"], op' = [op EXCEPT ![t] = NoOp],
         mu' = [mu EXCEPT ![BucketOf[op[t].key]] = NoThread],
         phase' = phase,
         fdpos'[BucketOf[op[t].key]] <= Len(data'[BucketOf[op[t].key]])
           \/ (pc[t] # "read" /\ UNCHANGED <<fdpos, data>>),
         \A d \in Bucket : d # BucketOf[op[t].key]
                              => fdpos'[d] = fdpos[d] /\ data'[d] = data[d]
  PROVE  ThreadInv'
<1> USE DEF ControlInv
<1> DEFINE b == BucketOf[op[t].key]
<1>1. phase = "open"
  BY DEF ThreadInv
<1>2. ASSUME NEW s \in Thread, pc'[s] # "idle"
      PROVE  /\ op'[s].key \in UserKey
             /\ mu'[BucketOf[op'[s].key]] = s
             /\ Writing(s)' => op'[s].val \in Value
  <2>1. s # t /\ pc'[s] = pc[s] /\ op'[s] = op[s]
    BY <1>2 DEF TypeOK
  <2>2. mu[BucketOf[op[s].key]] = s /\ op[s].key \in UserKey
        /\ (Writing(s) => op[s].val \in Value)
    BY <1>2, <2>1 DEF ThreadInv
  <2>3. BucketOf[op[s].key] # b /\ BucketOf[op[s].key] \in Bucket
    BY <1>2, <2>1, <2>2, MutexExcludes, ConstantsAssumption
  <2> QED BY <2>1, <2>2, <2>3 DEF Writing, TypeOK
<1>3. ASSUME NEW d \in Bucket
      PROVE  \/ fdpos'[d] <= Len(data'[d])
             \/ \E s \in Thread : pc'[s] = "read" /\ BucketOf[op'[s].key] = d
  <2>1. CASE fdpos[d] <= Len(data[d])
    BY <2>1
  <2>2. ASSUME NEW s \in Thread, pc[s] = "read", BucketOf[op[s].key] = d
        PROVE  \/ fdpos'[d] <= Len(data'[d])
               \/ pc'[s] = "read" /\ BucketOf[op'[s].key] = d
    <3>1. CASE s = t
      BY <2>2, <3>1
    <3>2. CASE s # t
      BY <2>2, <3>2 DEF TypeOK
    <3> QED BY <3>1, <3>2
  <2> QED BY <1>1, <2>1, <2>2 DEF ThreadInv
<1> QED BY <1>1, <1>2, <1>3 DEF ThreadInv

\* A step of Write preserves the control invariant.
LEMMA WriteControl ==
  ASSUME ControlInv, NEW t \in Thread,
         WriteStep(t) \/ \E k \in UserKey, v \in Value : WriteIndex(t, k, v)
  PROVE  ControlInv'
<1> USE DEF ControlInv
<1> DEFINE b == BucketOf[op[t].key]
<1>1. ASSUME NEW k \in UserKey, NEW v \in Value, WriteIndex(t, k, v)
      PROVE  ControlInv'
  <2>1. BucketOf[k] \in Bucket /\ VLen[v] \in Nat /\ k \in Key
    BY ConstantsAssumption
  <2>2. TypeOK'
    <3>1. [off |-> nextOff[BucketOf[k]], len |-> VLen[v]] \in Loc
      BY <2>1 DEF TypeOK, Loc
    <3>2. index' \in [Bucket -> [Key -> Loc \cup {NoLoc}]]
      BY <1>1, <2>1, <3>1 DEF WriteIndex, TypeOK
    <3> QED BY <1>1, <2>1, <3>2 DEF WriteIndex, TypeOK, files, saving, loop, hist
  <2>3. LoopInv'
    BY <1>1 DEF WriteIndex, LoopInv, files, saving, loop, hist
  <2>3a. /\ pc[t] = "idle" /\ pc' = [pc EXCEPT ![t] = "data"]
         /\ op' = [op EXCEPT ![t] = [key |-> k, val |-> v]]
         /\ mu[BucketOf[k]] = NoThread /\ mu' = [mu EXCEPT ![BucketOf[k]] = t]
         /\ UNCHANGED <<data, fdpos, phase>> /\ phase = "open"
    BY <1>1 DEF WriteIndex, files, loop
  <2>4. ThreadInv'
    <3>1. ASSUME NEW s \in Thread, pc'[s] # "idle"
          PROVE  /\ op'[s].key \in UserKey
                 /\ mu'[BucketOf[op'[s].key]] = s
                 /\ Writing(s)' => op'[s].val \in Value
      <4>1. CASE s = t
        BY <2>1, <2>3a, <4>1 DEF TypeOK
      <4>2. CASE s # t
        <5>1. pc'[s] = pc[s] /\ op'[s] = op[s]
          BY <2>3a, <4>2 DEF TypeOK
        <5>2. mu[BucketOf[op[s].key]] = s /\ op[s].key \in UserKey
              /\ (Writing(s) => op[s].val \in Value)
          BY <3>1, <5>1 DEF ThreadInv
        <5>3. BucketOf[op[s].key] # BucketOf[k]
          BY <2>3a, <5>2, SentinelsAssumption
        <5> QED BY <2>1, <2>3a, <5>1, <5>2, <5>3 DEF Writing, TypeOK
      <4> QED BY <4>1, <4>2
    <3>2. ASSUME NEW d \in Bucket
          PROVE  \/ fdpos'[d] <= Len(data'[d])
                 \/ \E s \in Thread : pc'[s] = "read" /\ BucketOf[op'[s].key] = d
      <4>1. CASE fdpos[d] <= Len(data[d])
        BY <2>3a, <4>1
      <4>2. ASSUME NEW s \in Thread, pc[s] = "read", BucketOf[op[s].key] = d
            PROVE  pc'[s] = "read" /\ BucketOf[op'[s].key] = d
        BY <2>3a, <4>2 DEF TypeOK
      <4> QED BY <2>3a, <4>1, <4>2 DEF ThreadInv
    <3> QED BY <2>3a, <3>1, <3>2 DEF ThreadInv
  <2> QED BY <2>2, <2>3, <2>4
<1>2. ASSUME pc[t] # "idle"
      PROVE  /\ phase = "open" /\ b \in Bucket /\ op[t].key \in UserKey /\ op[t].key \in Key
             /\ tmp[b] \in Seq(Record) /\ data[b] \in Seq(Cell)
             /\ Writing(t) => op[t].val \in Value /\ fdpos[b] <= Len(data[b])
  <2>1. phase = "open" /\ op[t].key \in UserKey /\ (Writing(t) => op[t].val \in Value)
    BY <1>2 DEF ThreadInv
  <2>2. b \in Bucket /\ op[t].key \in Key
    BY <2>1, ConstantsAssumption
  <2>3. tmp[b] \in Seq(Record) /\ data[b] \in Seq(Cell)
    BY <2>1, <2>2 DEF LoopInv, TypeOK, FileOf
  <2>4. Writing(t) => fdpos[b] <= Len(data[b])
    BY <1>2, <2>1, <2>2 DEF ThreadInv, Writing
  <2> QED BY <2>1, <2>2, <2>3, <2>4
<1>3. CASE WriteData(t)
  <2>0. pc[t] = "data" /\ op[t].val \in Value /\ b \in Bucket /\ fdpos[b] <= Len(data[b])
        /\ data[b] \in Seq(Cell) /\ fdpos[b] \in Nat
    BY <1>2, <1>3 DEF WriteData, TypeOK, Writing
  <2>0a. PICK n \in 0..Len(Cells(op[t].val)) :
           /\ data' = [data EXCEPT ![b] = Overlay(@, fdpos[b], SubSeq(Cells(op[t].val), 1, n))]
           /\ fdpos' = [fdpos EXCEPT ![b] = @ + n]
    BY <1>3 DEF WriteData
  <2> DEFINE c == SubSeq(Cells(op[t].val), 1, n)
  <2>1. c \in Seq(Cell) /\ Len(c) = n /\ Len(c) \in Nat
    <3>1. Cells(op[t].val) \in Seq(Cell)
      BY <2>0, CellsType
    <3> QED BY <3>1, SubSeqProperties
  <2>2. /\ Overlay(data[b], fdpos[b], c) \in Seq(Cell)
        /\ Len(Overlay(data[b], fdpos[b], c)) >= fdpos[b] + Len(c)
    BY <2>0, <2>1, OverlayType
  <2> HIDE DEF c
  <2>3. /\ data' = [data EXCEPT ![b] = Overlay(@, fdpos[b], c)]
        /\ fdpos' = [fdpos EXCEPT ![b] = @ + Len(c)]
    BY <2>0a, <2>1 DEF c
  <2>4. /\ data' \in [Bucket -> FileOf(Cell)] /\ fdpos' \in [Bucket -> Nat]
        /\ fdpos'[b] <= Len(data'[b]) /\ data'[b] # NoFile
        /\ \A d \in Bucket : d # b => data'[d] = data[d] /\ fdpos'[d] = fdpos[d]
    <3>1. NoFile \notin Seq(Cell)
      BY SentinelsAssumption
    <3>2. fdpos[b] + Len(c) \in Nat
      BY <2>0, <2>1
    <3>3. data'[b] = Overlay(data[b], fdpos[b], c) /\ fdpos'[b] = fdpos[b] + Len(c)
      BY <2>0, <2>3 DEF TypeOK
    <3>4. data' \in [Bucket -> FileOf(Cell)]
      BY <2>0, <2>2, <2>3 DEF TypeOK, FileOf
    <3>5. fdpos' \in [Bucket -> Nat]
      BY <2>0, <2>3, <3>2 DEF TypeOK
    <3>6. \A d \in Bucket : d # b => data'[d] = data[d] /\ fdpos'[d] = fdpos[d]
      BY <2>3 DEF TypeOK
    <3> QED BY <2>2, <3>1, <3>3, <3>4, <3>5, <3>6
  <2>5. UNCHANGED <<base, tmp, index, nextOff, mu, op, saving, loop, hist>>
        /\ pc' = [pc EXCEPT ![t] = "size"]
    BY <1>3 DEF WriteData
  <2>6. TypeOK'
    BY <2>4, <2>5 DEF TypeOK, saving, loop, hist
  <2>7. LoopInv'
    BY <1>2, <2>0, <2>4, <2>5 DEF LoopInv, saving, loop, hist
  <2>8. ThreadInv'
    <3>1. /\ UNCHANGED <<op, mu, phase>>
          /\ \A s \in Thread : pc'[s] = IF s = t THEN "size" ELSE pc[s]
      BY <2>5 DEF TypeOK, loop
    <3>2. ASSUME NEW d \in Bucket, phase = "open"
          PROVE  \/ fdpos'[d] <= Len(data'[d])
                 \/ \E s \in Thread : pc'[s] = "read" /\ BucketOf[op'[s].key] = d
      <4>1. ASSUME NEW s \in Thread, pc[s] = "read", BucketOf[op[s].key] = d
            PROVE  pc'[s] = "read" /\ BucketOf[op'[s].key] = d
        BY <2>0, <3>1, <4>1
      <4> QED BY <2>4, <3>1, <3>2, <4>1 DEF ThreadInv
    <3> QED BY <2>0, <3>1, <3>2 DEF ThreadInv, Writing
  <2> QED BY <2>6, <2>7, <2>8
<1>4. CASE WriteSize(t)
  <2>0. pc[t] = "size" /\ b \in Bucket /\ op[t].key \in UserKey /\ tmp[b] \in Seq(Record)
    BY <1>2, <1>4 DEF WriteSize
  <2>1. PICK k \in Torn[op[t].key] :
               tmp' = [tmp EXCEPT ![b] = Append(@, [key |-> k, loc |-> ZeroLoc])]
    BY <1>4 DEF WriteSize
  <2>2. [key |-> k, loc |-> ZeroLoc] \in Record
    BY <2>0, ConstantsAssumption DEF Record, ZeroLoc, Loc
  <2>3. Append(tmp[b], [key |-> k, loc |-> ZeroLoc]) \in Seq(Record)
    BY <2>0, <2>2
  <2>4. tmp' \in [Bucket -> FileOf(Record)]
        /\ (\A d \in Bucket : tmp[d] # NoFile => tmp'[d] # NoFile)
    <3>1. NoFile \notin Seq(Record)
      BY SentinelsAssumption
    <3> QED BY <2>0, <2>1, <2>3, <3>1 DEF TypeOK, FileOf
  <2>5. UNCHANGED <<base, data, mem, op, saving, loop, hist>>
        /\ pc' = [pc EXCEPT ![t] = "key"]
    BY <1>4 DEF WriteSize
  <2>6. TypeOK'
    BY <2>4, <2>5 DEF TypeOK, mem, saving, loop, hist
  <2>7. LoopInv'
    <3>1. phase = "open" /\ UNCHANGED <<phase, ostep, data>>
      BY <1>2, <2>0, <2>5 DEF loop
    <3> QED BY <2>4, <3>1 DEF LoopInv
  <2>8. ThreadInv'
    <3>1. /\ UNCHANGED <<phase, op, mu, fdpos, data>>
          /\ pc[t] # "idle" /\ \A s \in Thread : s # t => pc'[s] = pc[s]
          /\ Writing(t) /\ Writing(t)' /\ pc'[t] # "idle" /\ pc'[t] # "read" /\ pc[t] # "read"
      BY <2>0, <2>5 DEF Writing, TypeOK, mem, loop
    <3>2. \A s \in Thread : /\ pc'[s] # "idle" <=> pc[s] # "idle"
                            /\ pc'[s] = "read" <=> pc[s] = "read"
                            /\ Writing(s)' <=> Writing(s)
      BY <3>1 DEF Writing
    <3> QED BY <3>1, <3>2 DEF ThreadInv
  <2> QED BY <2>6, <2>7, <2>8
<1>5. CASE WriteKey(t)
  <2>0. pc[t] = "key" /\ b \in Bucket /\ op[t].key \in Key /\ tmp[b] \in Seq(Record)
    BY <1>2, <1>5 DEF WriteKey
  <2>1. tmp' = [tmp EXCEPT ![b][Len(tmp[b])].key = op[t].key]
    BY <1>5 DEF WriteKey
  <2>2. [tmp[b] EXCEPT ![Len(tmp[b])].key = op[t].key] \in Seq(Record)
    <3>1. ZeroLoc \in Loc
      BY DEF ZeroLoc, Loc
    <3> QED BY <2>0, <3>1, CompleteType
  <2>4. tmp' \in [Bucket -> FileOf(Record)]
        /\ (\A d \in Bucket : tmp[d] # NoFile => tmp'[d] # NoFile)
    <3>1. NoFile \notin Seq(Record)
      BY SentinelsAssumption
    <3> QED BY <2>0, <2>1, <2>2, <3>1 DEF TypeOK, FileOf
  <2>5. UNCHANGED <<base, data, mem, op, saving, loop, hist>>
        /\ pc' = [pc EXCEPT ![t] = "loc"]
    BY <1>5 DEF WriteKey
  <2>6. TypeOK'
    BY <2>4, <2>5 DEF TypeOK, mem, saving, loop, hist
  <2>7. LoopInv'
    <3>1. phase = "open" /\ UNCHANGED <<phase, ostep, data>>
      BY <1>2, <2>0, <2>5 DEF loop
    <3> QED BY <2>4, <3>1 DEF LoopInv
  <2>8. ThreadInv'
    <3>1. /\ UNCHANGED <<phase, op, mu, fdpos, data>>
          /\ pc[t] # "idle" /\ \A s \in Thread : s # t => pc'[s] = pc[s]
          /\ Writing(t) /\ Writing(t)' /\ pc'[t] # "idle" /\ pc'[t] # "read" /\ pc[t] # "read"
      BY <2>0, <2>5 DEF Writing, TypeOK, mem, loop
    <3>2. \A s \in Thread : /\ pc'[s] # "idle" <=> pc[s] # "idle"
                            /\ pc'[s] = "read" <=> pc[s] = "read"
                            /\ Writing(s)' <=> Writing(s)
      BY <3>1 DEF Writing
    <3> QED BY <3>1, <3>2 DEF ThreadInv
  <2> QED BY <2>6, <2>7, <2>8
<1>6. CASE WriteLoc(t)
  <2> DEFINE n == VLen[op[t].val]
             l == [off |-> nextOff[b], len |-> n]
  <2>0. /\ pc[t] = "loc" /\ b \in Bucket /\ op[t].key \in UserKey /\ op[t].val \in Value
        /\ tmp[b] \in Seq(Record) /\ n \in Nat /\ l \in Loc
    BY <1>2, <1>6, ConstantsAssumption DEF WriteLoc, TypeOK, Loc, Writing
  <2>1. /\ tmp' = [tmp EXCEPT ![b][Len(tmp[b])].loc = l]
        /\ nextOff' = [nextOff EXCEPT ![b] = @ + n]
        /\ mu' = [mu EXCEPT ![b] = NoThread]
        /\ pc' = [pc EXCEPT ![t] = "idle"]
        /\ op' = [op EXCEPT ![t] = NoOp]
        /\ acked' = [acked EXCEPT ![op[t].key] = op[t].val]
        /\ saved' = [saved EXCEPT ![op[t].key] = l]
        /\ UNCHANGED <<base, data, index, fdpos, saving, loop>>
    BY <1>6 DEF WriteLoc
  <2> HIDE DEF n, l
  <2>2. [tmp[b] EXCEPT ![Len(tmp[b])].loc = l] \in Seq(Record)
    BY <2>0, CompleteType, ConstantsAssumption
  <2>4. tmp' \in [Bucket -> FileOf(Record)]
        /\ (\A d \in Bucket : tmp[d] # NoFile => tmp'[d] # NoFile)
    <3>1. NoFile \notin Seq(Record)
      BY SentinelsAssumption
    <3> QED BY <2>0, <2>1, <2>2, <3>1 DEF TypeOK, FileOf
  <2>5. TypeOK'
    <3>1. nextOff' \in [Bucket -> Nat] /\ op' \in [Thread ->
              [key : UserKey \cup {EmptyKey}, val : Value \cup {NoValue}]]
      BY <2>0, <2>1 DEF TypeOK, NoOp
    <3>2. /\ acked' \in [UserKey -> Value \cup {NoValue}]
          /\ saved' \in [UserKey -> Loc \cup {NoLoc}]
      BY <2>0, <2>1 DEF TypeOK
    <3>3. /\ mu' \in [Bucket -> Thread \cup {NoThread}]
          /\ pc' \in [Thread -> {"idle", "data", "size", "key", "loc", "miss", "read"}]
      BY <2>0, <2>1 DEF TypeOK
    <3> QED BY <2>1, <2>4, <3>1, <3>2, <3>3 DEF TypeOK, saving, loop
  <2>6. LoopInv'
    BY <1>2, <2>0, <2>1, <2>4 DEF LoopInv, saving, loop
  <2>7. ThreadInv'
    BY <2>0, <2>1, UnlockThreads DEF loop, TypeOK
  <2> QED BY <2>5, <2>6, <2>7
<1>7. CASE WriteOverflow(t)
  BY <1>7, ForgetControl DEF WriteOverflow, TypeOK, files
<1> QED BY <1>1, <1>3, <1>4, <1>5, <1>6, <1>7 DEF WriteStep

\* A step of Read preserves the control invariant.
LEMMA ReadControl ==
  ASSUME ControlInv, NEW t \in Thread,
         ReadStep(t) \/ \E k \in UserKey : ReadMiss(t, k) \/ ReadSeek(t, k)
  PROVE  ControlInv'
<1> USE DEF ControlInv
<1>1. ASSUME NEW k \in UserKey, ReadSeek(t, k) PROVE ControlInv'
  <2> DEFINE b == BucketOf[k]
  <2>1. /\ b \in Bucket /\ k \in Key /\ index[b][k] \in Loc
        /\ pc[t] = "idle" /\ pc' = [pc EXCEPT ![t] = "read"]
        /\ op' = [op EXCEPT ![t] = [key |-> k, val |-> NoValue]]
        /\ mu[b] = NoThread /\ mu' = [mu EXCEPT ![b] = t]
        /\ fdpos' = [fdpos EXCEPT ![b] = index[b][k].off]
        /\ UNCHANGED <<files, index, nextOff, saving, loop, hist>> /\ phase = "open"
    BY <1>1, ConstantsAssumption DEF ReadSeek, TypeOK
  <2> HIDE DEF b
  <2>2. TypeOK'
    <3>1. index[b][k].off \in Nat
      BY <2>1 DEF Loc
    <3> QED BY <2>1, <3>1 DEF TypeOK, files, saving, loop, hist
  <2>3. LoopInv'
    BY <2>1 DEF LoopInv, files, saving, loop, hist
  <2>4. ThreadInv'
    <3>1. ASSUME NEW s \in Thread, pc'[s] # "idle"
          PROVE  /\ op'[s].key \in UserKey
                 /\ mu'[BucketOf[op'[s].key]] = s
                 /\ Writing(s)' => op'[s].val \in Value
      <4>1. CASE s = t
        BY <2>1, <4>1 DEF TypeOK, Writing, b
      <4>2. CASE s # t
        <5>1. pc'[s] = pc[s] /\ op'[s] = op[s]
          BY <2>1, <4>2 DEF TypeOK
        <5>2. mu[BucketOf[op[s].key]] = s /\ op[s].key \in UserKey
              /\ (Writing(s) => op[s].val \in Value)
          BY <3>1, <5>1 DEF ThreadInv
        <5>3. BucketOf[op[s].key] # b
          BY <2>1, <5>2, SentinelsAssumption
        <5> QED BY <2>1, <5>1, <5>2, <5>3 DEF Writing, TypeOK
      <4> QED BY <4>1, <4>2
    <3>2. ASSUME NEW d \in Bucket
          PROVE  \/ fdpos'[d] <= Len(data'[d])
                 \/ \E s \in Thread : pc'[s] = "read" /\ BucketOf[op'[s].key] = d
      <4>1. CASE d = b
        BY <2>1, <4>1 DEF TypeOK, b
      <4>2. CASE d # b /\ fdpos[d] <= Len(data[d])
        BY <2>1, <4>2 DEF TypeOK, files
      <4>3. ASSUME NEW s \in Thread, pc[s] = "read", BucketOf[op[s].key] = d
            PROVE  pc'[s] = "read" /\ BucketOf[op'[s].key] = d
        BY <2>1, <4>3 DEF TypeOK
      <4> QED BY <2>1, <4>1, <4>2, <4>3 DEF ThreadInv
    <3> QED BY <2>1, <3>1, <3>2 DEF ThreadInv, loop
  <2> QED BY <2>2, <2>3, <2>4
<1>2. CASE ReadFinish(t)
  <2> DEFINE b == BucketOf[op[t].key]
  <2>1. /\ pc[t] = "read" /\ pc' = [pc EXCEPT ![t] = "idle"]
        /\ op' = [op EXCEPT ![t] = NoOp]
        /\ mu' = [mu EXCEPT ![b] = NoThread]
        /\ fdpos' = [fdpos EXCEPT ![b] = Len(data[b])]
        /\ UNCHANGED <<files, index, nextOff, saving, loop, hist>>
    BY <1>2 DEF ReadFinish
  <2>2. phase = "open" /\ b \in Bucket /\ data[b] \in Seq(Cell)
    BY <2>1, ConstantsAssumption DEF ThreadInv, LoopInv, TypeOK, FileOf
  <2>3. Len(data[b]) \in Nat
    BY <2>2
  <2>4. TypeOK'
    <3>1. op' \in [Thread -> [key : UserKey \cup {EmptyKey}, val : Value \cup {NoValue}]]
      BY <2>1 DEF TypeOK, NoOp
    <3> QED BY <2>1, <2>2, <2>3, <3>1 DEF TypeOK, files, saving, loop, hist
  <2>5. LoopInv'
    BY <2>1, <2>2 DEF LoopInv, files, saving, loop, hist
  <2>6. ThreadInv'
    <3>1. fdpos' \in [Bucket -> Nat] /\ fdpos'[b] <= Len(data'[b])
          /\ \A d \in Bucket : d # b => fdpos'[d] = fdpos[d] /\ data'[d] = data[d]
      BY <2>1, <2>2, <2>3 DEF TypeOK, files
    <3> QED BY <2>1, <2>2, <3>1, UnlockThreads DEF loop
  <2> QED BY <2>4, <2>5, <2>6
<1>3. ASSUME NEW k \in UserKey, ReadMiss(t, k) PROVE ControlInv'
  <2> DEFINE b == BucketOf[k]
  <2>1. /\ b \in Bucket /\ k \in Key
        /\ pc[t] = "idle" /\ pc' = [pc EXCEPT ![t] = "miss"]
        /\ op' = [op EXCEPT ![t] = [key |-> k, val |-> NoValue]]
        /\ mu[b] = NoThread /\ mu' = [mu EXCEPT ![b] = t]
        /\ UNCHANGED <<files, index, nextOff, fdpos, saving, loop, hist>> /\ phase = "open"
    BY <1>3, ConstantsAssumption DEF ReadMiss
  <2> HIDE DEF b
  <2>2. TypeOK'
    BY <2>1 DEF TypeOK, files, saving, loop, hist
  <2>3. LoopInv'
    BY <2>1 DEF LoopInv, files, saving, loop, hist
  <2>4. ThreadInv'
    <3>1. ASSUME NEW s \in Thread, pc'[s] # "idle"
          PROVE  /\ op'[s].key \in UserKey
                 /\ mu'[BucketOf[op'[s].key]] = s
                 /\ Writing(s)' => op'[s].val \in Value
      <4>1. CASE s = t
        BY <2>1, <4>1 DEF TypeOK, Writing, b
      <4>2. CASE s # t
        <5>1. pc'[s] = pc[s] /\ op'[s] = op[s]
          BY <2>1, <4>2 DEF TypeOK
        <5>2. mu[BucketOf[op[s].key]] = s /\ op[s].key \in UserKey
              /\ (Writing(s) => op[s].val \in Value)
          BY <3>1, <5>1 DEF ThreadInv
        <5>3. BucketOf[op[s].key] # b
          BY <2>1, <5>2, SentinelsAssumption
        <5> QED BY <2>1, <5>1, <5>2, <5>3 DEF Writing, TypeOK
      <4> QED BY <4>1, <4>2
    <3>2. ASSUME NEW d \in Bucket
          PROVE  \/ fdpos'[d] <= Len(data'[d])
                 \/ \E s \in Thread : pc'[s] = "read" /\ BucketOf[op'[s].key] = d
      <4>1. CASE fdpos[d] <= Len(data[d])
        BY <2>1, <4>1 DEF files
      <4>2. ASSUME NEW s \in Thread, pc[s] = "read", BucketOf[op[s].key] = d
            PROVE  pc'[s] = "read" /\ BucketOf[op'[s].key] = d
        BY <2>1, <4>2 DEF TypeOK
      <4> QED BY <2>1, <4>1, <4>2 DEF ThreadInv
    <3> QED BY <2>1, <3>1, <3>2 DEF ThreadInv, loop
  <2> QED BY <2>2, <2>3, <2>4
<1>4. CASE ReadMissed(t)
  <2> DEFINE b == BucketOf[op[t].key]
  <2>1. /\ pc[t] = "miss" /\ pc' = [pc EXCEPT ![t] = "idle"]
        /\ op' = [op EXCEPT ![t] = NoOp]
        /\ mu' = [mu EXCEPT ![b] = NoThread]
        /\ UNCHANGED <<files, index, nextOff, fdpos, saving, loop, hist>>
    BY <1>4 DEF ReadMissed
  <2>2. phase = "open" /\ b \in Bucket
    BY <2>1, ConstantsAssumption DEF ThreadInv
  <2>3. TypeOK'
    <3>1. op' \in [Thread -> [key : UserKey \cup {EmptyKey}, val : Value \cup {NoValue}]]
      BY <2>1 DEF TypeOK, NoOp
    <3> QED BY <2>1, <2>2, <3>1 DEF TypeOK, files, saving, loop, hist
  <2>4. LoopInv'
    BY <2>1, <2>2 DEF LoopInv, files, saving, loop, hist
  <2>5. ThreadInv'
    BY <2>1, <2>2, UnlockThreads DEF loop, files
  <2> QED BY <2>3, <2>4, <2>5
<1> QED BY <1>1, <1>2, <1>3, <1>4 DEF ReadStep

\* An order in which the destructor may save a set of keys is a sequence of those keys.
LEMMA OrderType ==
  ASSUME NEW S \in SUBSET Key, NEW o \in Orders(S)
  PROVE  o \in Seq(Key) /\ \A i \in 1..Len(o) : o[i] \in S
<1>1. Cardinality(S) \in Nat
  BY FS_Subset, FS_CardinalityType, ConstantsAssumption
<1>2. o \in [1..Cardinality(S) -> S]
  BY DEF Orders
<1>3. o \in Seq(S)
  BY <1>1, <1>2
<1> QED BY <1>3

\* A step of the destructor preserves the control invariant.
LEMMA CloseControl == ControlInv /\ (Close \/ CloseStep) => ControlInv'
<1> SUFFICES ASSUME ControlInv, Close \/ CloseStep PROVE ControlInv'
  OBVIOUS
<1> USE DEF ControlInv
<1>0. \A t \in Thread : pc[t] = "idle"
  BY NobodyOutside DEF Close, CloseStep, SaveOpen, SaveOpenFails, SaveField, SaveFieldFails, SaveDone
<1>1. CASE Close
  <2>1. TypeOK'
    <3>1. cur' \in Bucket
      BY <1>1, ConstantsAssumption DEF Close, Bucket
    <3> QED BY <1>1, <3>1 DEF Close, TypeOK, files, mem, threads, saving, hist
  <2>2. LoopInv'
    BY <1>1 DEF Close, LoopInv
  <2>3. ThreadInv'
    BY <1>0, <1>1 DEF Close, ThreadInv, threads
  <2> QED BY <2>1, <2>2, <2>3
<1>2. CASE SaveOpen
  <2>1. /\ phase = "closing" /\ ostep' = "save" /\ wpos' = 0 /\ fld' = "size"
        /\ base' = [base EXCEPT ![cur] = IF @ = NoFile THEN <<>> ELSE @]
        /\ todo' \in Orders(Saved(index[cur]))
        /\ UNCHANGED <<tmp, data, mem, threads, phase, cur, ret, session, hist>>
    BY <1>2 DEF SaveOpen
  <2>2. Saved(index[cur]) \in SUBSET Key
    BY DEF Saved
  <2>3. todo' \in Seq(Key) /\ \A i \in 1..Len(todo') : todo'[i] \in Saved(index[cur])
    BY <2>1, <2>2, OrderType
  <2>4. base' \in [Bucket -> FileOf(Field)] /\ base'[cur] \in Seq(Field) /\ base'[cur] # NoFile
    <3>1. NoFile \notin Seq(Field) /\ <<>> \in Seq(Field)
      BY SentinelsAssumption, EmptySeq
    <3> QED BY <2>1, <3>1 DEF TypeOK, FileOf
  <2>5. TypeOK'
    BY <2>1, <2>3, <2>4 DEF TypeOK, mem, threads, hist
  <2>6. LoopInv'
    <3>1. 0 <= Len(base'[cur])
      BY <2>4
    <3> QED BY <2>1, <2>3, <2>4, <3>1 DEF LoopInv, Saved, mem
  <2>7. ThreadInv'
    BY <1>0, <2>1 DEF ThreadInv, threads
  <2> QED BY <2>5, <2>6, <2>7
<1>3. CASE SaveField
  <2> DEFINE k == Head(todo)
             f == [part |-> fld, rec |-> [key |-> k, loc |-> index[cur][k]]]
  <2>1. /\ phase = "closing" /\ ostep = "save" /\ todo # <<>>
        /\ base' = [base EXCEPT ![cur] = Overlay(@, wpos, <<f>>)]
        /\ wpos' = wpos + 1
        /\ fld' \in {"size", "key", "loc"}
        /\ todo' = IF fld = "loc" THEN Tail(todo) ELSE todo
        /\ UNCHANGED <<tmp, data, mem, threads, loop, hist>>
    BY <1>3 DEF SaveField, TypeOK
  <2>2. /\ k \in Key /\ index[cur][k] \in Loc
        /\ todo' \in Seq(Key) /\ \A i \in 1..Len(todo') : index[cur][todo'[i]] # NoLoc
    <3>1. todo \in Seq(Key) /\ Len(todo) \in Nat /\ Len(todo) > 0
      BY <2>1, EmptySeq DEF TypeOK
    <3>2. \A i \in 1..Len(todo) : index[cur][todo[i]] # NoLoc
      BY <2>1 DEF LoopInv
    <3>3. k \in Key /\ k = todo[1] /\ Tail(todo) \in Seq(Key) /\ Len(Tail(todo)) = Len(todo) - 1
          /\ \A i \in 1..Len(Tail(todo)) : Tail(todo)[i] = todo[i + 1]
      BY <2>1, <3>1, HeadTailProperties
    <3>4. \A i \in 1..Len(Tail(todo)) : index[cur][Tail(todo)[i]] # NoLoc
      BY <3>1, <3>2, <3>3
    <3> QED BY <2>1, <3>1, <3>2, <3>3, <3>4 DEF TypeOK
  <2>3. f \in Field
    BY <2>2 DEF TypeOK, Field, Record
  <2> HIDE DEF f, k
  <2>4. base[cur] \in Seq(Field) /\ wpos \in Nat /\ wpos <= Len(base[cur])
    BY <2>1 DEF LoopInv, TypeOK, FileOf
  <2>5. <<f>> \in Seq(Field) /\ Len(<<f>>) = 1
    BY <2>3
  <2>6. /\ Overlay(base[cur], wpos, <<f>>) \in Seq(Field)
        /\ Len(Overlay(base[cur], wpos, <<f>>)) >= wpos + 1
    BY <2>4, <2>5, OverlayType
  <2>7. base' \in [Bucket -> FileOf(Field)] /\ base'[cur] # NoFile /\ wpos' <= Len(base'[cur])
    <3>1. NoFile \notin Seq(Field)
      BY SentinelsAssumption
    <3>2. base'[cur] = Overlay(base[cur], wpos, <<f>>)
      BY <2>1 DEF TypeOK
    <3>3. base' \in [Bucket -> FileOf(Field)]
      BY <2>1, <2>6 DEF TypeOK, FileOf
    <3> QED BY <2>1, <2>6, <3>1, <3>2, <3>3
  <2>8. TypeOK'
    BY <2>1, <2>2, <2>4, <2>7 DEF TypeOK, mem, threads, loop, hist
  <2>9. LoopInv'
    BY <2>1, <2>2, <2>7 DEF LoopInv, loop, mem
  <2>10. ThreadInv'
    BY <1>0, <2>1 DEF ThreadInv, threads, loop
  <2> QED BY <2>8, <2>9, <2>10
<1>4. CASE SaveDone
  <2>1. tmp' \in [Bucket -> FileOf(Record)] /\ UNCHANGED <<base, data, ret>>
    BY <1>4 DEF SaveDone, TypeOK, FileOf
  <2>2. CASE Forget
    BY <2>1, <2>2, ForgetControl DEF TypeOK
  <2>3. CASE /\ cur < NB
             /\ cur' = cur + 1 /\ ostep' = "look"
             /\ UNCHANGED <<mem, threads, saving, phase, session, hist>>
    <3>1. phase = "closing"
      BY <1>4 DEF SaveDone
    <3>2. TypeOK'
      <4>1. cur' \in Bucket
        BY <2>3, ConstantsAssumption DEF TypeOK, Bucket
      <4> QED BY <2>1, <2>3, <4>1 DEF TypeOK, mem, threads, saving, hist
    <3>3. LoopInv'
      BY <2>3, <3>1 DEF LoopInv
    <3>4. ThreadInv'
      BY <1>0, <2>3, <3>1 DEF ThreadInv, threads
    <3> QED BY <3>2, <3>3, <3>4
  <2> QED BY <1>4, <2>2, <2>3 DEF SaveDone
<1>5. CASE SaveOpenFails \/ SaveFieldFails
  <2>1. /\ phase = "closing" /\ todo' = <<>>
        /\ fld' \in {"size", "key", "loc"} /\ wpos' \in Nat
        /\ ostep' = "save"
        /\ UNCHANGED <<files, mem, threads, phase, cur, ret, session, hist>>
    BY <1>5 DEF SaveOpenFails, SaveFieldFails, TypeOK, loop
  <2>2. TypeOK'
    BY <2>1, EmptySeq DEF TypeOK, files, mem, threads, hist
  <2>3. LoopInv' /\ ThreadInv'
    BY <1>0, <2>1 DEF LoopInv, ThreadInv, threads
  <2> QED BY <2>2, <2>3
<1> QED BY <1>1, <1>2, <1>3, <1>4, <1>5 DEF CloseStep

\* The control invariant is inductive.
LEMMA NextControl == ControlInv /\ [Next]_vars => ControlInv'
<1> SUFFICES ASSUME ControlInv, [Next]_vars PROVE ControlInv'
  OBVIOUS
<1>1. CASE UNCHANGED vars
  <2> USE <1>1 DEF vars, files, mem, threads, saving, loop, hist
  <2>1. TypeOK'
    BY DEF ControlInv, TypeOK
  <2>2. LoopInv'
    BY DEF ControlInv, LoopInv
  <2>3. ThreadInv'
    BY DEF ControlInv, ThreadInv, Writing
  <2> QED BY <2>1, <2>2, <2>3 DEF ControlInv
<1>2. CASE Kill
  BY <1>2, ForgetControl DEF Kill, ControlInv, TypeOK, files
<1>3. CASE Done
  BY <1>1, <1>3 DEF Done
<1> QED BY <1>1, <1>2, <1>3, OpenControl, CloseControl, WriteControl, ReadControl DEF Next

\* Every state of the engine is well typed: among others, no Write of any interleaving and no
\* crash makes a file something its reader cannot take as a sequence of records.
THEOREM TypeCorrect == Spec => []TypeOK
<1>1. ControlInv => TypeOK
  BY DEF ControlInv
<1> QED BY <1>1, InitControl, NextControl, PTL DEF Spec

-----------------------------------------------------------------------------
(* The log: index_i.tmp holds what was acknowledged in the session. *)

\* Nothing is acknowledged yet and nobody is inside a call.
LEMMA LogNone ==
  ASSUME \A t \in Thread : pc'[t] = "idle", \A k \in UserKey : saved'[k] = NoLoc
  PROVE  LogInv'
BY DEF LogInv, NoSharedBytes, WriterInv, Writing

\* The engine is gone.
LEMMA LogDown ==
  ASSUME ControlInv, LogInv, Forget
  PROVE  LogInv'
<1>1. phase' = "down" /\ saved' = saved /\ \A t \in Thread : pc'[t] = "idle"
  BY DEF Forget, hist
<1> QED BY <1>1 DEF LogInv, NoSharedBytes, WriterInv, Writing

\* A step of Open preserves the log invariant: nothing is acknowledged before it returns.
LEMMA OpenLog == ControlInv /\ LogInv /\ (OpenStart \/ OpenNoDirectory \/ OpenStep) => LogInv'
<1> SUFFICES ASSUME ControlInv, LogInv, OpenStart \/ OpenNoDirectory \/ OpenStep PROVE LogInv'
  OBVIOUS
<1>0. \A t \in Thread : pc[t] = "idle"
  BY NobodyOutside DEF OpenStart, OpenNoDirectory, OpenStep, OpenFresh, OpenClean, OpenCleanFails, OpenMerge,
     OpenMergeFails, OpenMergeReturns, OpenMakeData, OpenMakeTmp, OpenMakeFails, OpenMap,
     OpenMapReturns
<1>1. CASE OpenStart
  BY <1>0, <1>1, LogNone DEF OpenStart, threads
<1>1a. CASE OpenNoDirectory
  BY <1>0, <1>1a DEF OpenNoDirectory, threads, hist, LogInv, NoSharedBytes, WriterInv, Writing
<1>2. CASE OpenMergeReturns \/ OpenMapReturns
  BY <1>2, LogDown DEF OpenMergeReturns, OpenMapReturns
<1>3. CASE OpenFresh \/ OpenClean \/ OpenCleanFails \/ OpenMerge \/ OpenMergeFails
             \/ OpenMakeData \/ OpenMakeTmp \/ OpenMakeFails \/ OpenMap
  <2>1. phase = "opening" /\ UNCHANGED <<threads, hist>>
    BY <1>3 DEF OpenFresh, OpenClean, OpenCleanFails, OpenMerge, OpenMergeFails, OpenMakeData,
       OpenMakeTmp, OpenMakeFails, OpenMap, DeleteEngine
  <2>2. \A k \in UserKey : saved'[k] = NoLoc
    BY <2>1 DEF ControlInv, LoopInv, hist
  <2> QED BY <1>0, <2>1, <2>2, LogNone DEF threads
<1> QED BY <1>1, <1>1a, <1>2, <1>3 DEF OpenStep

\* A step of the destructor preserves the log invariant: it removes index_i.tmp whole.
LEMMA CloseLog == ControlInv /\ LogInv /\ (Close \/ CloseStep) => LogInv'
<1> SUFFICES ASSUME ControlInv, LogInv, Close \/ CloseStep PROVE LogInv'
  OBVIOUS
<1>0. \A t \in Thread : pc[t] = "idle"
  BY NobodyOutside DEF Close, CloseStep, SaveOpen, SaveOpenFails, SaveField, SaveFieldFails, SaveDone
<1>1. CASE Forget
  BY <1>1, LogDown
<1>2. CASE ~Forget
  <2>1. /\ phase \in {"open", "closing"} /\ phase' = "closing"
        /\ UNCHANGED <<threads, hist>>
        /\ tmp' = tmp \/ tmp' = [tmp EXCEPT ![cur] = NoFile]
    BY <1>2 DEF Close, CloseStep, SaveOpen, SaveOpenFails, SaveField, SaveFieldFails, SaveDone, files, loop
  <2>2. \A b \in Bucket : tmp'[b] # NoFile => tmp[b] # NoFile /\ tmp'[b] = tmp[b]
    BY <2>1 DEF ControlInv, TypeOK
  <2>3. ASSUME NEW k \in UserKey, tmp'[BucketOf[k]] # NoFile, saved'[k] # NoLoc
        PROVE  \E i \in 1..Len(tmp'[BucketOf[k]]) : LoggedAt(k, i)'
    <3> DEFINE b == BucketOf[k]
    <3>1. b \in Bucket
      BY ConstantsAssumption
    <3>2. tmp[b] # NoFile /\ tmp'[b] = tmp[b] /\ saved'[k] = saved[k] /\ saved[k] # NoLoc
      BY <2>1, <2>2, <2>3, <3>1 DEF hist
    <3>3. PICK i \in 1..Len(tmp[b]) : LoggedAt(k, i)
      BY <2>1, <3>2 DEF LogInv
    <3> QED BY <2>1, <3>2, <3>3 DEF LoggedAt, Unfinished, threads, hist
  <2> QED BY <1>0, <2>1, <2>3 DEF LogInv, NoSharedBytes, WriterInv, Writing, threads, hist
<1> QED BY <1>1, <1>2

\* A thread that is inside a call: what the invariants say of its bucket.
LEMMA InsideCall ==
  ASSUME ControlInv, NEW t \in Thread, pc[t] # "idle"
  PROVE  /\ phase = "open" /\ op[t].key \in UserKey /\ op[t].key \in Key
         /\ BucketOf[op[t].key] \in Bucket
         /\ tmp[BucketOf[op[t].key]] \in Seq(Record)
         /\ Writing(t) => op[t].val \in Value /\ VLen[op[t].val] \in Nat
         /\ \A s \in Thread : s # t /\ pc[s] # "idle" =>
               op[s].key \in UserKey /\ BucketOf[op[s].key] # BucketOf[op[t].key]
<1> USE DEF ControlInv
<1>1. phase = "open" /\ op[t].key \in UserKey /\ (Writing(t) => op[t].val \in Value)
  BY DEF ThreadInv
<1>2. op[t].key \in Key /\ BucketOf[op[t].key] \in Bucket
  BY <1>1, ConstantsAssumption
<1>3. tmp[BucketOf[op[t].key]] \in Seq(Record)
  BY <1>1, <1>2 DEF LoopInv, TypeOK, FileOf
<1>4. Writing(t) => VLen[op[t].val] \in Nat
  BY <1>1, ConstantsAssumption
<1>5. \A s \in Thread : s # t /\ pc[s] # "idle" =>
        op[s].key \in UserKey /\ BucketOf[op[s].key] # BucketOf[op[t].key]
  BY MutexExcludes DEF ThreadInv
<1> QED BY <1>1, <1>2, <1>3, <1>4, <1>5

\* Steps of threads that neither touch index_i.tmp nor acknowledge anything, and change
\* which thread is at the end of index_i.tmp nowhere, keep every logged location.
LEMMA LogFrame ==
  ASSUME LogInv, phase = "open", UNCHANGED <<tmp, saved, phase>>,
         \A s \in Thread : pc'[s] \in {"key", "loc"} <=> pc[s] \in {"key", "loc"},
         \A s \in Thread : pc[s] \in {"key", "loc"} => op'[s] = op[s]
  PROVE  \A k \in UserKey : saved'[k] # NoLoc =>
           \E i \in 1..Len(tmp'[BucketOf[k]]) : LoggedAt(k, i)'
<1> SUFFICES ASSUME NEW k \in UserKey, saved[k] # NoLoc
             PROVE  \E i \in 1..Len(tmp[BucketOf[k]]) : LoggedAt(k, i)'
  OBVIOUS
<1>1. PICK i \in 1..Len(tmp[BucketOf[k]]) : LoggedAt(k, i)
  BY DEF LogInv
<1>2. \A j : Unfinished(BucketOf[k], j)' <=> Unfinished(BucketOf[k], j)
  BY DEF Unfinished
<1>3. LoggedAt(k, i)'
  BY <1>1, <1>2 DEF LoggedAt
<1> QED BY <1>3

\* A thread whose bucket nobody touches keeps its part of the log invariant.
LEMMA WriterFrame ==
  ASSUME NEW s, WriterInv(s), pc'[s] = pc[s],
         pc[s] # "idle" =>
           /\ op'[s] = op[s]
           /\ tmp'[BucketOf[op[s].key]] = tmp[BucketOf[op[s].key]]
           /\ nextOff'[BucketOf[op[s].key]] = nextOff[BucketOf[op[s].key]]
           /\ index'[BucketOf[op[s].key]][op[s].key] = index[BucketOf[op[s].key]][op[s].key]
  PROVE  WriterInv(s)'
<1>1. CASE pc[s] = "idle"
  BY <1>1 DEF WriterInv, Writing
<1>2. CASE pc[s] # "idle"
  BY <1>2 DEF WriterInv, Writing
<1> QED BY <1>1, <1>2

\* A location stays logged while the log of its bucket does not change.
LEMMA LoggedFrame ==
  ASSUME NEW j, NEW i, LoggedAt(j, i), saved'[j] = saved[j],
         tmp'[BucketOf[j]] = tmp[BucketOf[j]],
         \A s \in Thread : /\ pc'[s] \in {"key", "loc"} /\ BucketOf[op'[s].key] = BucketOf[j]
                          <=> /\ pc[s] \in {"key", "loc"}
                              /\ BucketOf[op[s].key] = BucketOf[j]
  PROVE  LoggedAt(j, i)'
<1>1. \A m : Unfinished(BucketOf[j], m)' <=> Unfinished(BucketOf[j], m)
  BY DEF Unfinished
<1> QED BY <1>1 DEF LoggedAt

\* A step of Read preserves the log invariant.
LEMMA ReadLog ==
  ASSUME ControlInv, LogInv, NEW t \in Thread,
         ReadStep(t) \/ \E k \in UserKey : ReadMiss(t, k) \/ ReadSeek(t, k)
  PROVE  LogInv'
<1>1. /\ UNCHANGED <<tmp, index, nextOff, saved, phase>>
      /\ phase = "open"
      /\ pc[t] \in {"idle", "miss", "read"} /\ pc'[t] \in {"idle", "miss", "read"}
      /\ \A s \in Thread : s # t => pc'[s] = pc[s] /\ op'[s] = op[s]
  BY DEF ReadStep, ReadMissed, ReadFinish, ReadMiss, ReadSeek, ControlInv, TypeOK, ThreadInv, files, hist, loop
<1>2. \A s \in Thread : (Writing(s)' <=> Writing(s)) /\ (Writing(s) => op'[s] = op[s])
  BY <1>1 DEF Writing
<1>3. \A s \in Thread : /\ pc'[s] \in {"key", "loc"} <=> pc[s] \in {"key", "loc"}
                        /\ pc[s] \in {"key", "loc"} => op'[s] = op[s] /\ pc'[s] = pc[s]
  BY <1>1
<1>4. \A k \in UserKey : saved'[k] # NoLoc =>
        \E i \in 1..Len(tmp'[BucketOf[k]]) : LoggedAt(k, i)'
  BY <1>1, <1>3, LogFrame
<1>6. ASSUME NEW s \in Thread PROVE WriterInv(s)'
  <2>1. CASE s = t
    BY <1>1, <2>1 DEF Writing, WriterInv
  <2>2. CASE s # t
    BY <1>1, <2>2 DEF Writing, WriterInv, LogInv
  <2> QED BY <2>1, <2>2
<1>7. \A k \in UserKey : saved[k] # NoLoc =>
        /\ saved[k].off + saved[k].len <= nextOff[BucketOf[k]]
        /\ (\A s \in Thread : Writing(s)' => op'[s].key # k) => index[BucketOf[k]][k] = saved[k]
  BY <1>1, <1>2 DEF LogInv
<1> QED BY <1>1, <1>4, <1>6, <1>7 DEF LogInv, NoSharedBytes

\* A step of Write preserves the log invariant.
LEMMA WriteLog ==
  ASSUME ControlInv, LogInv, NEW t \in Thread,
         WriteStep(t) \/ \E k \in UserKey, v \in Value : WriteIndex(t, k, v)
  PROVE  LogInv'
<1> DEFINE b == BucketOf[op[t].key]
<1>1. ASSUME NEW k \in UserKey, NEW v \in Value, WriteIndex(t, k, v)
      PROVE  LogInv'
  <2>1. /\ k \in Key /\ BucketOf[k] \in Bucket /\ phase = "open"
        /\ pc[t] = "idle" /\ pc' = [pc EXCEPT ![t] = "data"]
        /\ op' = [op EXCEPT ![t] = [key |-> k, val |-> v]]
        /\ index' = [index EXCEPT ![BucketOf[k]][k] =
                                    [off |-> nextOff[BucketOf[k]], len |-> VLen[v]]]
        /\ mu[BucketOf[k]] = NoThread
        /\ UNCHANGED <<tmp, nextOff, saved, phase>>
    BY <1>1, ConstantsAssumption DEF WriteIndex, files, loop, hist
  <2>2. \A s \in Thread : s # t => pc'[s] = pc[s] /\ op'[s] = op[s]
    BY <2>1 DEF ControlInv, TypeOK
  <2>3. pc'[t] = "data" /\ op'[t] = [key |-> k, val |-> v]
        /\ index'[BucketOf[k]][k] = [off |-> nextOff[BucketOf[k]], len |-> VLen[v]]
        /\ \A d \in Bucket, j \in Key : d # BucketOf[k] \/ j # k => index'[d][j] = index[d][j]
    BY <2>1 DEF ControlInv, TypeOK
  <2>4. \A s \in Thread : pc[s] # "idle" => /\ op[s].key \in Key
                                            /\ BucketOf[op[s].key] \in Bucket \ {BucketOf[k]}
    BY <2>1, SentinelsAssumption, ConstantsAssumption DEF ControlInv, ThreadInv
  <2>5. ASSUME NEW s \in Thread PROVE WriterInv(s)'
    <3>1. CASE s = t
      BY <2>1, <2>3, <3>1 DEF WriterInv
    <3>2. CASE s # t
      <4>1. WriterInv(s)
        BY DEF LogInv
      <4>2. pc[s] # "idle" => index'[BucketOf[op[s].key]][op[s].key]
                                = index[BucketOf[op[s].key]][op[s].key]
        BY <2>3, <2>4
      <4> QED BY <2>1, <2>2, <3>2, <4>1, <4>2, WriterFrame
    <3> QED BY <3>1, <3>2
  <2>6. \A j \in UserKey : saved'[j] # NoLoc =>
          \E i \in 1..Len(tmp'[BucketOf[j]]) : LoggedAt(j, i)'
    <3>1. \A s \in Thread : /\ pc'[s] \in {"key", "loc"} <=> pc[s] \in {"key", "loc"}
                            /\ pc[s] \in {"key", "loc"} => op'[s] = op[s]
      BY <2>1, <2>2, <2>3
    <3> QED BY <2>1, <3>1, LogFrame
  <2>7. ASSUME NEW j \in UserKey, saved[j] # NoLoc
        PROVE  /\ saved[j].off + saved[j].len <= nextOff[BucketOf[j]]
               /\ (\A s \in Thread : Writing(s)' => op'[s].key # j)
                     => index'[BucketOf[j]][j] = saved[j]
    <3>1. saved[j].off + saved[j].len <= nextOff[BucketOf[j]]
      BY <2>1, <2>7 DEF LogInv
    <3>2. ASSUME \A s \in Thread : Writing(s)' => op'[s].key # j
          PROVE  index'[BucketOf[j]][j] = saved[j]
      <4>1. j # k
        BY <2>3, <3>2 DEF Writing
      <4>2. \A s \in Thread : Writing(s) => op[s].key # j
        BY <2>1, <2>2, <3>2 DEF Writing
      <4> QED BY <2>1, <2>3, <2>7, <4>1, <4>2, ConstantsAssumption DEF LogInv
    <3> QED BY <3>1, <3>2
  <2> QED BY <2>1, <2>5, <2>6, <2>7 DEF LogInv, NoSharedBytes
<1>2. CASE WriteData(t)
  <2>1. /\ pc[t] = "data" /\ pc' = [pc EXCEPT ![t] = "size"]
        /\ UNCHANGED <<op, tmp, index, nextOff, saved, phase>> /\ phase = "open"
    <3>1. pc[t] = "data" /\ pc' = [pc EXCEPT ![t] = "size"]
          /\ UNCHANGED <<op, tmp, index, nextOff, saved, phase>>
      BY <1>2 DEF WriteData, loop, hist
    <3> QED BY <3>1, InsideCall
  <2>2. \A s \in Thread : pc'[s] = IF s = t THEN "size" ELSE pc[s]
    BY <2>1 DEF ControlInv, TypeOK
  <2>3. \A s \in Thread : Writing(s)' <=> Writing(s)
    BY <2>1, <2>2 DEF Writing
  <2>4. ASSUME NEW s \in Thread PROVE WriterInv(s)'
    <3>0. WriterInv(s)
      BY DEF LogInv
    <3>1. CASE s = t
      BY <2>1, <2>2, <3>0, <3>1 DEF WriterInv, Writing
    <3>2. CASE s # t
      BY <2>1, <2>2, <3>0, <3>2, WriterFrame
    <3> QED BY <3>1, <3>2
  <2>5. \A j \in UserKey : saved'[j] # NoLoc =>
          \E i \in 1..Len(tmp'[BucketOf[j]]) : LoggedAt(j, i)'
    <3>1. \A s \in Thread : pc'[s] \in {"key", "loc"} <=> pc[s] \in {"key", "loc"}
      BY <2>1, <2>2
    <3> QED BY <2>1, <3>1, LogFrame
  <2> QED BY <2>1, <2>3, <2>4, <2>5 DEF LogInv, NoSharedBytes
<1>3. CASE WriteSize(t)
  <2>0. /\ phase = "open" /\ b \in Bucket /\ tmp[b] \in Seq(Record) /\ Len(tmp[b]) \in Nat
        /\ \A s \in Thread : s # t /\ pc[s] # "idle" => BucketOf[op[s].key] # b
    BY <1>3, InsideCall DEF WriteSize
  <2>1. PICK r : tmp' = [tmp EXCEPT ![b] = Append(@, r)]
    BY <1>3 DEF WriteSize
  <2>2. /\ pc[t] = "size" /\ pc' = [pc EXCEPT ![t] = "key"]
        /\ UNCHANGED <<op, index, nextOff, saved, phase>>
    BY <1>3 DEF WriteSize, mem, loop, hist
  <2>3. \A s \in Thread : pc'[s] = IF s = t THEN "key" ELSE pc[s]
    BY <2>2 DEF ControlInv, TypeOK
  <2>4. /\ Len(tmp'[b]) = Len(tmp[b]) + 1
        /\ \A i \in 1..Len(tmp[b]) : tmp'[b][i] = tmp[b][i]
        /\ \A d \in Bucket : d # b => tmp'[d] = tmp[d]
    BY <2>0, <2>1 DEF ControlInv, TypeOK
  <2>5. \A s \in Thread : Writing(s)' <=> Writing(s)
    BY <2>2, <2>3 DEF Writing
  <2>6. ASSUME NEW s \in Thread PROVE WriterInv(s)'
    <3>0. WriterInv(s)
      BY DEF LogInv
    <3>1. CASE s = t
      <4>1. index[b][op[t].key] = [off |-> nextOff[b], len |-> VLen[op[t].val]]
        BY <2>2, <3>0, <3>1 DEF WriterInv, Writing
      <4>2. pc'[t] = "key" /\ op' = op /\ index' = index /\ nextOff' = nextOff
        BY <2>2, <2>3
      <4>3. Len(tmp'[b]) > 0
        BY <2>0, <2>4
      <4> QED BY <3>1, <4>1, <4>2, <4>3 DEF WriterInv
    <3>2. CASE s # t
      <4>1. pc[s] # "idle" => tmp'[BucketOf[op[s].key]] = tmp[BucketOf[op[s].key]]
        BY <2>0, <2>4, <3>2, InsideCall
      <4> QED BY <2>2, <2>3, <3>0, <3>2, <4>1, WriterFrame
    <3> QED BY <3>1, <3>2
  <2>7. ASSUME NEW j \in UserKey, saved'[j] # NoLoc
        PROVE  \E i \in 1..Len(tmp'[BucketOf[j]]) : LoggedAt(j, i)'
    <3>0. BucketOf[j] \in Bucket
      BY ConstantsAssumption
    <3>1. PICK i \in 1..Len(tmp[BucketOf[j]]) : LoggedAt(j, i)
      BY <2>0, <2>2, <2>7 DEF LogInv
    <3>2. CASE BucketOf[j] # b
      <4>1. \A s \in Thread :
                  pc'[s] \in {"key", "loc"} /\ BucketOf[op'[s].key] = BucketOf[j]
              <=> pc[s] \in {"key", "loc"} /\ BucketOf[op[s].key] = BucketOf[j]
        BY <2>2, <2>3, <3>2
      <4>2. tmp'[BucketOf[j]] = tmp[BucketOf[j]] /\ saved'[j] = saved[j]
        BY <2>2, <2>4, <3>0, <3>2
      <4>3. LoggedAt(j, i)'
        BY <3>1, <4>1, <4>2, LoggedFrame
      <4> QED BY <3>1, <4>2, <4>3
    <3>3. CASE BucketOf[j] = b
      <4> DEFINE d == BucketOf[j]
      <4>1. \A n : ~Unfinished(d, n)
        BY <2>0, <2>2, <3>3 DEF Unfinished
      <4>2. \A n \in 1..Len(tmp'[d]) : ~Unfinished(d, n)' <=> n \in 1..Len(tmp[d])
        <5>1. \E s \in Thread : pc'[s] \in {"key", "loc"} /\ BucketOf[op'[s].key] = d
          BY <2>2, <2>3, <3>3
        <5>2. \A n : Unfinished(d, n)' <=> n = Len(tmp'[d])
          BY <5>1 DEF Unfinished
        <5>3. Len(tmp'[d]) = Len(tmp[d]) + 1 /\ Len(tmp[d]) \in Nat
          BY <2>0, <2>4, <3>3
        <5> HIDE DEF d
        <5> QED BY <5>2, <5>3
      <4>3. /\ tmp[d][i] = [key |-> j, loc |-> saved[j]]
            /\ \A m \in 1..Len(tmp[d]) : m > i => tmp[d][m].key # j
        BY <3>1, <4>1 DEF LoggedAt
      <4>4. i \in 1..Len(tmp[d]) /\ i \in 1..Len(tmp'[d])
        BY <2>0, <2>4, <3>1, <3>3
      <4>5. ~Unfinished(d, i)' /\ tmp'[d][i] = [key |-> j, loc |-> saved'[j]]
        BY <2>2, <2>4, <3>3, <4>2, <4>3, <4>4
      <4>6. \A m \in 1..Len(tmp'[d]) : m > i /\ ~Unfinished(d, m)' => tmp'[d][m].key # j
        BY <2>4, <3>3, <4>2, <4>3
      <4>7. LoggedAt(j, i)'
        BY <4>4, <4>5, <4>6 DEF LoggedAt
      <4> QED BY <4>4, <4>7
    <3> QED BY <3>2, <3>3
  <2> QED BY <2>0, <2>2, <2>5, <2>6, <2>7 DEF LogInv, NoSharedBytes
<1>4. CASE WriteKey(t)
  <2>0. /\ phase = "open" /\ b \in Bucket /\ tmp[b] \in Seq(Record) /\ op[t].key \in Key
        /\ \A s \in Thread : s # t /\ pc[s] # "idle" => BucketOf[op[s].key] # b
    BY <1>4, InsideCall DEF WriteKey
  <2>1. /\ tmp' = [tmp EXCEPT ![b][Len(tmp[b])].key = op[t].key]
        /\ pc[t] = "key" /\ pc' = [pc EXCEPT ![t] = "loc"]
        /\ UNCHANGED <<op, index, nextOff, saved, phase>>
    BY <1>4 DEF WriteKey, mem, loop, hist
  <2>2. \A s \in Thread : pc'[s] = IF s = t THEN "loc" ELSE pc[s]
    BY <2>1 DEF ControlInv, TypeOK
  <2>3. Len(tmp[b]) > 0
    BY <2>1 DEF LogInv, WriterInv
  <2>4. /\ Len(tmp'[b]) = Len(tmp[b])
        /\ tmp'[b][Len(tmp[b])].key = op[t].key
        /\ \A i \in 1..Len(tmp[b]) : i # Len(tmp[b]) => tmp'[b][i] = tmp[b][i]
        /\ \A d \in Bucket : d # b => tmp'[d] = tmp[d]
    <3>1. tmp'[b] = [tmp[b] EXCEPT ![Len(tmp[b])].key = op[t].key]
          /\ \A d \in Bucket : d # b => tmp'[d] = tmp[d]
      BY <2>0, <2>1 DEF ControlInv, TypeOK
    <3> DEFINE q == [tmp[b] EXCEPT ![Len(tmp[b])].key = op[t].key]
    <3>2. tmp[b] \in Seq(Record) /\ op[t].key \in Key /\ Len(tmp[b]) > 0
      BY <2>0, <2>3
    <3>3. /\ Len(q) = Len(tmp[b]) /\ q[Len(tmp[b])].key = op[t].key
          /\ \A i \in 1..Len(tmp[b]) : i # Len(tmp[b]) => q[i] = tmp[b][i]
      <4> HIDE DEF b
      <4> QED BY <3>2, CompleteKey
    <3>4. tmp'[b] = q
      BY <3>1
    <3> HIDE DEF q, b
    <3> QED BY <3>1, <3>3, <3>4
  <2>5. \A s \in Thread : Writing(s)' <=> Writing(s)
    BY <2>1, <2>2 DEF Writing
  <2>6. ASSUME NEW s \in Thread PROVE WriterInv(s)'
    <3>1. CASE s = t
      <4>1. index[b][op[t].key] = [off |-> nextOff[b], len |-> VLen[op[t].val]]
        BY <2>1 DEF LogInv, WriterInv, Writing
      <4> QED BY <2>1, <2>2, <2>3, <2>4, <3>1, <4>1 DEF WriterInv
    <3>2. CASE s # t
      <4>1. pc[s] # "idle" => tmp'[BucketOf[op[s].key]] = tmp[BucketOf[op[s].key]]
        BY <2>0, <2>4, <3>2, InsideCall
      <4>2. pc'[s] = pc[s] /\ WriterInv(s)
        BY <2>2, <3>2 DEF LogInv
      <4> QED BY <2>1, <2>5, <4>1, <4>2 DEF WriterInv
    <3> QED BY <3>1, <3>2
  <2>7. ASSUME NEW j \in UserKey, saved'[j] # NoLoc
        PROVE  \E i \in 1..Len(tmp'[BucketOf[j]]) : LoggedAt(j, i)'
    <3>0. BucketOf[j] \in Bucket
      BY ConstantsAssumption
    <3>1. PICK i \in 1..Len(tmp[BucketOf[j]]) : LoggedAt(j, i)
      BY <2>0, <2>1, <2>7 DEF LogInv
    <3>2. Len(tmp'[BucketOf[j]]) = Len(tmp[BucketOf[j]])
      BY <2>4, <3>0
    <3>3. \A m : Unfinished(BucketOf[j], m)' <=> Unfinished(BucketOf[j], m)
      BY <2>1, <2>2, <3>2 DEF Unfinished
    <3>4. \A m \in 1..Len(tmp[BucketOf[j]]) :
            ~Unfinished(BucketOf[j], m) => tmp'[BucketOf[j]][m] = tmp[BucketOf[j]][m]
      <4>1. CASE BucketOf[j] # b
        BY <2>4, <3>0, <4>1
      <4>2. CASE BucketOf[j] = b
        BY <2>1, <2>4, <4>2 DEF Unfinished
      <4> QED BY <4>1, <4>2
    <3>5. LoggedAt(j, i)'
      BY <2>1, <3>1, <3>2, <3>3, <3>4 DEF LoggedAt
    <3> QED BY <3>1, <3>2, <3>5
  <2> QED BY <2>0, <2>1, <2>5, <2>6, <2>7 DEF LogInv, NoSharedBytes
<1>5. CASE WriteLoc(t)
  <2> DEFINE l == [off |-> nextOff[b], len |-> VLen[op[t].val]]
             k == op[t].key
  <2>0. /\ phase = "open" /\ b \in Bucket /\ tmp[b] \in Seq(Record)
        /\ k \in UserKey /\ k \in Key /\ l \in Loc
        /\ \A s \in Thread : s # t /\ pc[s] # "idle" =>
              op[s].key \in UserKey /\ BucketOf[op[s].key] # b
    <3>1. pc[t] = "loc"
      BY <1>5 DEF WriteLoc
    <3>2. VLen[op[t].val] \in Nat /\ nextOff[b] \in Nat
      BY <3>1, InsideCall DEF Writing, ControlInv, TypeOK
    <3> QED BY <3>1, <3>2, InsideCall DEF Loc
  <2>1. /\ tmp' = [tmp EXCEPT ![b][Len(tmp[b])].loc = l]
        /\ nextOff' = [nextOff EXCEPT ![b] = @ + VLen[op[t].val]]
        /\ pc[t] = "loc" /\ pc' = [pc EXCEPT ![t] = "idle"]
        /\ op' = [op EXCEPT ![t] = NoOp]
        /\ saved' = [saved EXCEPT ![k] = l]
        /\ UNCHANGED <<index, phase>>
    BY <1>5 DEF WriteLoc, loop
  <2>2. /\ pc'[t] = "idle"
        /\ \A s \in Thread : s # t => pc'[s] = pc[s] /\ op'[s] = op[s]
        /\ saved'[k] = l /\ \A j \in UserKey : j # k => saved'[j] = saved[j]
        /\ \A d \in Bucket : d # b => tmp'[d] = tmp[d] /\ nextOff'[d] = nextOff[d]
        /\ l.off = nextOff[b] /\ nextOff'[b] = l.off + l.len
    BY <2>0, <2>1 DEF ControlInv, TypeOK
  <2>3. /\ Len(tmp[b]) > 0 /\ tmp[b][Len(tmp[b])].key = k
        /\ index[b][k] = l
    BY <2>1 DEF LogInv, WriterInv, Writing
  <2>4. /\ Len(tmp'[b]) = Len(tmp[b])
        /\ tmp'[b][Len(tmp[b])] = [key |-> k, loc |-> l]
        /\ \A i \in 1..Len(tmp[b]) : i # Len(tmp[b]) => tmp'[b][i] = tmp[b][i]
    <3>1. tmp'[b] = [tmp[b] EXCEPT ![Len(tmp[b])].loc = l]
      BY <2>0, <2>1 DEF ControlInv, TypeOK
    <3> HIDE DEF l
    <3> DEFINE q == [tmp[b] EXCEPT ![Len(tmp[b])].loc = l]
    <3>1a. tmp[b] \in Seq(Record) /\ l \in Loc /\ Len(tmp[b]) > 0
      BY <2>0, <2>3
    <3>2. /\ Len(q) = Len(tmp[b])
          /\ \A i \in 1..Len(tmp[b]) : i # Len(tmp[b]) => q[i] = tmp[b][i]
          /\ q[Len(tmp[b])] = [key |-> tmp[b][Len(tmp[b])].key, loc |-> l]
      <4> HIDE DEF b, k
      <4> QED BY <3>1a, CompleteLoc
    <3> HIDE DEF q
    <3>3. tmp'[b] = q
      BY <3>1 DEF q
    <3> QED BY <2>3, <3>2, <3>3
  <2>5. ASSUME NEW s \in Thread PROVE WriterInv(s)'
    <3>1. CASE s = t
      BY <2>2, <3>1 DEF WriterInv, Writing
    <3>2. CASE s # t
      <4>1. pc[s] # "idle" => /\ tmp'[BucketOf[op[s].key]] = tmp[BucketOf[op[s].key]]
                             /\ nextOff'[BucketOf[op[s].key]] = nextOff[BucketOf[op[s].key]]
        BY <2>0, <2>2, <3>2, ConstantsAssumption
      <4>2. WriterInv(s)
        BY DEF LogInv
      <4>3. CASE pc[s] = "idle"
        BY <2>2, <3>2, <4>3 DEF WriterInv, Writing
      <4>4. CASE pc[s] # "idle"
        <5>1. /\ pc'[s] = pc[s] /\ op'[s] = op[s] /\ index' = index
              /\ tmp'[BucketOf[op[s].key]] = tmp[BucketOf[op[s].key]]
              /\ nextOff'[BucketOf[op[s].key]] = nextOff[BucketOf[op[s].key]]
          BY <2>1, <2>2, <3>2, <4>1, <4>4
        <5> HIDE DEF l, k, b
        <5> QED BY <4>2, <5>1 DEF WriterInv, Writing
      <4> QED BY <4>3, <4>4
    <3> QED BY <3>1, <3>2
  <2>6. ASSUME NEW j \in UserKey, saved'[j] # NoLoc
        PROVE  \E i \in 1..Len(tmp'[BucketOf[j]]) : LoggedAt(j, i)'
    <3> DEFINE d == BucketOf[j]
    <3>0. d \in Bucket
      BY ConstantsAssumption
    <3>1. CASE j = k
      <4>1. Len(tmp[d]) \in 1..Len(tmp'[d]) /\ tmp'[d][Len(tmp[d])] = [key |-> j, loc |-> saved'[j]]
        <5>1. d = b /\ saved'[j] = l
          BY <2>2, <3>1
        <5>2. Len(tmp[b]) \in Nat
          BY <2>0, LenProperties
        <5>3. /\ Len(tmp[b]) > 0 /\ Len(tmp'[b]) = Len(tmp[b])
              /\ tmp'[b][Len(tmp[b])] = [key |-> k, loc |-> l]
          <6> HIDE DEF l, d, b, k
          <6> QED BY <2>3, <2>4
        <5> HIDE DEF l, d, b, k
        <5>4. Len(tmp[b]) \in 1..Len(tmp'[b])
          BY <5>2, <5>3
        <5> QED BY <3>1, <5>1, <5>3, <5>4
      <4>2. \A m \in 1..Len(tmp'[d]) : ~(m > Len(tmp[d]))
        BY <2>0, <2>4, <3>1
      <4>3. ~Unfinished(d, Len(tmp[d]))'
        BY <2>0, <2>2, <3>1 DEF Unfinished
      <4>4. LoggedAt(j, Len(tmp[d]))'
        BY <4>1, <4>2, <4>3 DEF LoggedAt
      <4> QED BY <4>1, <4>4
    <3>2. CASE j # k
      <4>0. saved[j] # NoLoc
        BY <2>2, <2>6, <3>2
      <4>1. PICK i \in 1..Len(tmp[d]) : LoggedAt(j, i)
        BY <2>0, <4>0 DEF LogInv
      <4>2. CASE d # b
        <5>1. \A s \in Thread :
                    pc'[s] \in {"key", "loc"} /\ BucketOf[op'[s].key] = d
                <=> pc[s] \in {"key", "loc"} /\ BucketOf[op[s].key] = d
          BY <2>1, <2>2, <4>2
        <5>2. tmp'[d] = tmp[d] /\ saved'[j] = saved[j]
          <6> HIDE DEF l, d, b, k
          <6> QED BY <2>2, <3>0, <3>2, <4>2
        <5>3. LoggedAt(j, i)'
          BY <4>1, <5>1, <5>2, LoggedFrame
        <5> QED BY <4>1, <5>2, <5>3
      <4>3. CASE d = b
        <5>1. /\ \A m \in 1..Len(tmp[d]) : Unfinished(d, m) <=> m = Len(tmp[d])
              /\ \A m \in 1..Len(tmp[d]) : ~Unfinished(d, m)'
          BY <2>0, <2>1, <2>2, <4>3 DEF Unfinished
        <5>2. /\ i # Len(tmp[d]) /\ tmp[d][i] = [key |-> j, loc |-> saved[j]]
              /\ \A m \in 1..Len(tmp[d]) : m > i /\ m # Len(tmp[d]) => tmp[d][m].key # j
          BY <4>1, <5>1 DEF LoggedAt
        <5>3. \A m \in 1..Len(tmp'[d]) : m > i => tmp'[d][m].key # j
          <6> SUFFICES ASSUME NEW m \in 1..Len(tmp'[d]), m > i
                       PROVE  tmp'[d][m].key # j
            OBVIOUS
          <6>1. CASE m = Len(tmp[b])
            <7>1. tmp'[d][m] = [key |-> k, loc |-> l]
              BY <2>4, <4>3, <6>1
            <7> HIDE DEF l, k, d, b
            <7> QED BY <3>2, <7>1
          <6>2. CASE m # Len(tmp[b])
            <7> HIDE DEF l, k, d, b
            <7>1. m \in 1..Len(tmp[b]) /\ tmp'[d][m] = tmp[d][m]
              BY <2>4, <4>3, <6>2
            <7> QED BY <4>3, <5>2, <6>2, <7>1
          <6> QED BY <6>1, <6>2
        <5>4. LoggedAt(j, i)' /\ i \in 1..Len(tmp'[d])
          <6>1. Len(tmp'[d]) = Len(tmp[d]) /\ saved'[j] = saved[j]
            BY <2>2, <2>4, <3>2, <4>3
          <6>2. i \in 1..Len(tmp'[d]) /\ tmp'[d][i] = [key |-> j, loc |-> saved'[j]]
            BY <2>4, <4>1, <4>3, <5>2, <6>1
          <6>3. ~Unfinished(d, i)'
            BY <4>1, <5>1
          <6> QED BY <5>3, <6>2, <6>3 DEF LoggedAt
        <5> QED BY <5>4
      <4> QED BY <4>2, <4>3
    <3> QED BY <3>1, <3>2
  <2>7. ASSUME NEW j \in UserKey, saved'[j] # NoLoc
        PROVE  /\ saved'[j].off + saved'[j].len <= nextOff'[BucketOf[j]]
               /\ (\A s \in Thread : Writing(s)' => op'[s].key # j)
                     => index'[BucketOf[j]][j] = saved'[j]
    <3>0. BucketOf[j] \in Bucket
      BY ConstantsAssumption
    <3>1. CASE j = k
      <4>1. BucketOf[j] = b /\ saved'[j] = l /\ index'[b][j] = l
        BY <2>1, <2>2, <2>3, <3>1
      <4>2. nextOff'[b] = l.off + l.len /\ l.off \in Nat /\ l.len \in Nat
        <5>1. nextOff'[b] = l.off + l.len
          BY <2>2
        <5> HIDE DEF l
        <5> QED BY <2>0, <5>1 DEF Loc
      <4> HIDE DEF l, b
      <4>3. l.off + l.len <= nextOff'[b]
        BY <4>2
      <4> QED BY <4>1, <4>3
    <3>2. CASE j # k
      <4>1. saved[j] # NoLoc /\ saved[j] \in Loc /\ nextOff[BucketOf[j]] \in Nat
        BY <2>2, <2>7, <3>0, <3>2 DEF ControlInv, TypeOK
      <4>2. saved[j].off + saved[j].len <= nextOff[BucketOf[j]]
        BY <2>0, <4>1 DEF LogInv
      <4>3. nextOff[BucketOf[j]] <= nextOff'[BucketOf[j]]
        BY <2>0, <2>2, <3>0, <4>1 DEF Loc
      <4>4. saved'[j].off + saved'[j].len <= nextOff'[BucketOf[j]]
        <5>1. nextOff'[BucketOf[j]] \in Nat
          BY <2>0, <2>2, <3>0, <4>1 DEF Loc
        <5>2. saved'[j] = saved[j]
          BY <2>2, <3>2
        <5> HIDE DEF l, k, b
        <5> QED BY <4>1, <4>2, <4>3, <5>1, <5>2 DEF Loc
      <4>5. ASSUME \A s \in Thread : Writing(s)' => op'[s].key # j
            PROVE  index'[BucketOf[j]][j] = saved'[j]
        <5>1. \A s \in Thread : Writing(s) => op[s].key # j
          BY <2>2, <3>2, <4>5 DEF Writing
        <5>2. index[BucketOf[j]][j] = saved[j]
          BY <2>0, <4>1, <5>1 DEF LogInv
        <5>3. index' = index /\ saved'[j] = saved[j]
          BY <2>1, <2>2, <3>2
        <5> QED BY <5>2, <5>3
      <4> QED BY <4>4, <4>5
    <3> QED BY <3>1, <3>2
  <2>8. NoSharedBytes'
    <3> SUFFICES ASSUME NEW i \in UserKey, NEW j \in UserKey, i # j,
                        BucketOf[i] = BucketOf[j], saved'[i] # NoLoc, saved'[j] # NoLoc
                 PROVE  \/ saved'[i].off + saved'[i].len <= saved'[j].off
                        \/ saved'[j].off + saved'[j].len <= saved'[i].off
      BY DEF NoSharedBytes
    <3>1. CASE i # k /\ j # k
      BY <2>2, <3>1 DEF LogInv, NoSharedBytes
    <3>2. CASE i = k
      <4>1. saved[j] # NoLoc /\ saved'[j] = saved[j]
        BY <2>2, <3>2
      <4> QED BY <2>0, <2>2, <3>2, <4>1 DEF LogInv
    <3>3. CASE j = k
      <4>1. saved[i] # NoLoc /\ saved'[i] = saved[i]
        BY <2>2, <3>3
      <4> QED BY <2>0, <2>2, <3>3, <4>1 DEF LogInv
    <3> QED BY <3>1, <3>2, <3>3
  <2> QED BY <2>0, <2>1, <2>5, <2>6, <2>7, <2>8 DEF LogInv
<1>6. CASE WriteOverflow(t)
  BY <1>6, LogDown DEF WriteOverflow
<1> QED BY <1>1, <1>2, <1>3, <1>4, <1>5, <1>6 DEF WriteStep

-----------------------------------------------------------------------------
(* The inductive invariant and what follows from it. *)

LEMMA InitInd == Init => IndInv
<1> SUFFICES ASSUME Init PROVE IndInv
  OBVIOUS
<1>1. ControlInv
  BY InitControl
<1>2. LogInv
  BY DEF Init, LogInv, WriterInv, Writing, NoSharedBytes
<1> QED BY <1>1, <1>2 DEF ControlInv, IndInv

LEMMA NextInd == IndInv /\ [Next]_vars => IndInv'
<1> SUFFICES ASSUME ControlInv, LogInv, [Next]_vars PROVE LogInv'
  BY NextControl DEF IndInv, ControlInv
<1>1. CASE UNCHANGED vars
  <2> USE <1>1 DEF vars, files, mem, threads, saving, loop, hist
  <2>1. \A t \in Thread : WriterInv(t)' <=> WriterInv(t)
    BY DEF WriterInv, Writing
  <2>2. \A k \in UserKey : \A i : LoggedAt(k, i)' <=> LoggedAt(k, i)
    BY DEF LoggedAt, Unfinished
  <2>3. NoSharedBytes'
    BY DEF LogInv, NoSharedBytes
  <2>4. \A t \in Thread : Writing(t)' <=> Writing(t)
    BY DEF Writing
  <2> QED BY <2>1, <2>2, <2>3, <2>4 DEF LogInv
<1>2. CASE Kill
  BY <1>2, LogDown DEF Kill
<1>3. CASE Done
  BY <1>1, <1>3 DEF Done
<1> QED BY <1>1, <1>2, <1>3, OpenLog, CloseLog, WriteLog, ReadLog DEF Next

\* The inductive invariant holds in every reachable state.
THEOREM Inductive == Spec => []IndInv
BY InitInd, NextInd, PTL DEF Spec

\* What a reader of the log finds for a key is the location in its last record.
LEMMA LoadLast ==
  ASSUME NEW idx, NEW recs \in Seq(Record), NEW k \in Key, NEW i \in 1..Len(recs),
         CStr[recs[i].key] = k,
         \A j \in 1..Len(recs) : j > i => CStr[recs[j].key] # k
  PROVE  Load(idx, recs)[k] = recs[i].loc
<1>1. Found(recs, k)
  BY DEF Found
<1>2. LastOf(recs, k) = i
  BY <1>1, LastOfIsLast
<1> QED BY <1>1, <1>2 DEF Load

\* What Open would take from index_i.tmp between two Writes, whatever it has before.
LEMMA LogIsLoaded ==
  ASSUME IndInv, NEW idx, NEW k \in UserKey,
         phase = "open" \/ (phase = "closing" /\ tmp[BucketOf[k]] # NoFile),
         saved[k] # NoLoc, Settled(BucketOf[k]), ReadBackAlone(k)
  PROVE  tmp[BucketOf[k]] # NoFile /\ Load(idx, tmp[BucketOf[k]])[k] = saved[k]
<1> DEFINE b == BucketOf[k]
<1>1. b \in Bucket /\ k \in Key
  BY ConstantsAssumption
<1>2. tmp[b] # NoFile /\ tmp[b] \in Seq(Record)
  BY <1>1 DEF IndInv, LoopInv, TypeOK, FileOf
<1>3. PICK i \in 1..Len(tmp[b]) : LoggedAt(k, i)
  BY DEF IndInv, LogInv
<1>4. /\ tmp[b][i] = [key |-> k, loc |-> saved[k]]
      /\ \A j \in 1..Len(tmp[b]) : j > i => tmp[b][j].key # k
  BY <1>3 DEF LoggedAt, Unfinished, Settled
<1>5. \A j \in 1..Len(tmp[b]) : tmp[b][j].key \in Key
  <2>1. \A j \in 1..Len(tmp[b]) : tmp[b][j] \in Record
    <3> HIDE DEF b
    <3> QED BY <1>2, ElementOfSeq
  <2> HIDE DEF b
  <2> QED BY <2>1 DEF Record
<1>6. CStr[k] = k /\ \A j \in 1..Len(tmp[b]) : j > i => CStr[tmp[b][j].key] # k
  BY <1>4, <1>5 DEF ReadBackAlone
<1>7. Load(idx, tmp[b])[k] = tmp[b][i].loc
  BY <1>1, <1>2, <1>4, <1>6, LoadLast
<1> QED BY <1>2, <1>4, <1>7

\* Acknowledged Writes of the session survive in index_i.tmp (engine_race.cc:262-269): at any
\* moment between two Writes of a bucket, what Open would read from index_i.tmp after a
\* kill -9 is the location that the last Write of each key was given, for any number of
\* threads, buckets, keys and crashes, any garbage in nextLoc and any failing call.
THEOREM LogIsComplete == Spec => []AckedInTmp
<1>1. IndInv => AckedInTmp
  BY LogIsLoaded DEF AckedInTmp
<1> QED BY <1>1, Inductive, PTL

\* When no thread is inside a call on a bucket, Read looks up the acknowledged location
\* (engine_race.cc:244, 280), which is what index_i.tmp would give back after a crash.
THEOREM IndexIsCurrent == Spec => []IndexMatchesTmp
<1>1. IndInv => IndexMatchesTmp
  <2> SUFFICES ASSUME IndInv, NEW k \in UserKey, phase = "open", mu[BucketOf[k]] = NoThread,
                      saved[k] # NoLoc
               PROVE  index[BucketOf[k]][k] = saved[k]
    BY DEF IndexMatchesTmp
  <2>1. \A t \in Thread : Writing(t) => op[t].key # k
    BY SentinelsAssumption DEF IndInv, ThreadInv, Writing
  <2> QED BY <2>1 DEF IndInv, LogInv
<1> QED BY <1>1, Inductive, PTL

\* Two keys of a bucket that were written in one session are never given the same bytes of
\* data_i (engine_race.cc:243, 271).
THEOREM LocationsDisjoint == Spec => []NoSharedBytes
<1>1. IndInv => NoSharedBytes
  BY DEF IndInv, LogInv
<1> QED BY <1>1, Inductive, PTL
=============================================================================
