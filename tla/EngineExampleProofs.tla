------------------------- MODULE EngineExampleProofs -------------------------
(* Theorems about EngineExample, for every value of its constants. *)
EXTENDS EngineExampleProps, SequenceTheorems, WellFoundedInduction, TLAPS

-----------------------------------------------------------------------------
(* Linear probing, in any table *)

TryPlace(tab, i, k) == tab[i].in_use = 0 \/ tab[i].key = k

\* CalcIndex as a function of the table
IndexIn(tab, k) ==
  LET fit == {d \in Slot : TryPlace(tab, Probe(k, d), k)}
  IN  IF fit = {} THEN -1 ELSE Probe(k, CHOOSE d \in fit : \A e \in fit : d <= e)

\* Probing stays within the table (door_plate.cc:93).
LEMMA ProbeInSlot ==
  ASSUME NEW k \in UserKey, NEW d \in Slot
  PROVE  Probe(k, d) \in Slot
<1>1. StrHash[k] + d \in Nat /\ kMaxDoorCnt \in Nat \ {0}
  BY ExampleAssumption DEF Slot
<1>2. (StrHash[k] + d) % kMaxDoorCnt \in 0..(kMaxDoorCnt - 1)
  BY <1>1
<1> QED BY <1>2 DEF Probe, Slot

\* Among the steps of a probe that find a place there is a first one.
LEMMA FirstStep ==
  ASSUME NEW S \in SUBSET Slot, S # {}
  PROVE  \E d \in S : \A e \in S : d <= e
<1>1. S \in SUBSET Nat
  BY DEF Slot
<1>2. PICK d \in S : \A e \in S : ~(<<e, d>> \in OpToRel(<, Nat))
  BY <1>1, WFMin, NatLessThanWellFounded
<1>3. \A e \in S : ~(e < d)
  BY <1>1, <1>2 DEF OpToRel
<1> QED BY <1>1, <1>3

\* An index is the slot at the first step that finds a place.
LEMMA IndexFits ==
  ASSUME NEW tab, NEW k \in UserKey, IndexIn(tab, k) # -1
  PROVE  \E d \in Slot : /\ IndexIn(tab, k) = Probe(k, d)
                         /\ TryPlace(tab, Probe(k, d), k)
                         /\ \A e \in Slot : TryPlace(tab, Probe(k, e), k) => d <= e
<1> DEFINE fit == {d \in Slot : TryPlace(tab, Probe(k, d), k)}
<1>1. fit # {} /\ fit \in SUBSET Slot
  BY DEF IndexIn
<1>2. \E d \in fit : \A e \in fit : d <= e
  BY <1>1, FirstStep
<1> DEFINE f == CHOOSE d \in fit : \A e \in fit : d <= e
<1>3. f \in fit /\ \A e \in fit : f <= e
  BY <1>2
<1>4. IndexIn(tab, k) = Probe(k, f)
  BY <1>1 DEF IndexIn
<1> QED BY <1>3, <1>4

LEMMA IndexInSlot ==
  ASSUME NEW tab, NEW k \in UserKey, IndexIn(tab, k) # -1
  PROVE  IndexIn(tab, k) \in Slot /\ TryPlace(tab, IndexIn(tab, k), k)
BY IndexFits, ProbeInSlot

\* The first step that finds a place is the index.
LEMMA FirstIsIndex ==
  ASSUME NEW tab, NEW k \in UserKey, NEW d \in Slot, TryPlace(tab, Probe(k, d), k),
         \A e \in Slot : TryPlace(tab, Probe(k, e), k) => d <= e
  PROVE  IndexIn(tab, k) = Probe(k, d)
<1> DEFINE fit == {c \in Slot : TryPlace(tab, Probe(k, c), k)}
           f == CHOOSE c \in fit : \A e \in fit : c <= e
<1>1. d \in fit /\ \A e \in fit : d <= e
  OBVIOUS
<1>2. f \in fit /\ \A e \in fit : f <= e
  BY <1>1
<1>3. f <= d /\ d <= f /\ f \in Nat /\ d \in Nat
  BY <1>1, <1>2 DEF Slot
<1>4. f = d
  BY <1>3
<1>5. IndexIn(tab, k) = Probe(k, f)
  BY <1>1 DEF IndexIn
<1> QED BY <1>4, <1>5

\* A table in which fewer slots take a key, but still the one that is its index, gives it
\* the same index.
LEMMA SameIndex ==
  ASSUME NEW tab, NEW tab2, NEW k \in UserKey, IndexIn(tab, k) # -1,
         TryPlace(tab2, IndexIn(tab, k), k),
         \A i \in Slot : TryPlace(tab2, i, k) => TryPlace(tab, i, k)
  PROVE  IndexIn(tab2, k) = IndexIn(tab, k)
<1>1. PICK d \in Slot : /\ IndexIn(tab, k) = Probe(k, d)
                        /\ \A e \in Slot : TryPlace(tab, Probe(k, e), k) => d <= e
  BY IndexFits
<1>2. TryPlace(tab2, Probe(k, d), k)
  BY <1>1
<1>3. \A e \in Slot : TryPlace(tab2, Probe(k, e), k) => d <= e
  BY <1>1, ProbeInSlot
<1> QED BY <1>1, <1>2, <1>3, FirstIsIndex

\* A table in which the same slots take a key gives it the same index, or none.
LEMMA SameSlots ==
  ASSUME NEW tab, NEW tab2, NEW k \in UserKey,
         \A i \in Slot : TryPlace(tab2, i, k) <=> TryPlace(tab, i, k)
  PROVE  IndexIn(tab2, k) = IndexIn(tab, k)
<1>1. CASE IndexIn(tab, k) # -1
  BY <1>1, SameIndex, IndexInSlot
<1>2. CASE IndexIn(tab2, k) # -1
  BY <1>2, SameIndex, IndexInSlot
<1> QED BY <1>1, <1>2

-----------------------------------------------------------------------------
(* The inductive invariant *)

\* Who is inside Write: its process is open and holds LOCK, and the mutex if it is past it.
CallInv ==
  /\ \A p \in Process : phase[p] = "open" <=> lock = p
  /\ \A t \in Thread :
       /\ pc[t] = "idle" <=> args[t] = Idle
       /\ pc[t] # "idle" => phase[HostOf[t]] = "open"
       /\ pc[t] \notin {"idle", "lock"} => mu[HostOf[t]] = t
       /\ sent[t] <= Len(args[t].val) \/ pc[t] = "idle"
       /\ pc[t] \in {"idle", "lock"} => sent[t] = 0

\* Where items are, and where the thread in AddOrUpdate is.
TableInv ==
  /\ \A i \in Used : items[i].key \in UserKey /\ IndexIn(items, items[i].key) = i
  /\ \A t \in Thread : pc[t] \in AddOrUpdate =>
       LET i == IndexIn(items, args[t].key) IN
       /\ i # -1
       /\ items[i].key = args[t].key
       /\ items[i].in_use = IF pc[t] = "use" THEN 0 ELSE 1

\* A thread inside Write has a Write.
LEMMA InsideHasWrite ==
  ASSUME TypeOK, CallInv, NEW t \in Thread, pc[t] # "idle"
  PROVE  /\ args[t] \in [key : UserKey, val : Value]
         /\ args[t].val \in Seq(Byte)
         /\ Len(args[t].val) \in Nat
         /\ HostOf[t] \in Process
<1>1. args[t] \in [key : UserKey, val : Value] /\ HostOf[t] \in Process
  BY ExampleAssumption DEF TypeOK, CallInv
<1> QED BY <1>1, ExampleAssumption

\* Two threads past the mutex are one.
LEMMA OneInside ==
  ASSUME CallInv, NEW t \in Thread, NEW u \in Thread,
         pc[t] \notin {"idle", "lock"}, pc[u] \notin {"idle", "lock"}
  PROVE  t = u
<1>1. HostOf[t] \in Process /\ HostOf[u] \in Process
  BY ExampleAssumption
<1>2. HostOf[t] = lock /\ HostOf[u] = lock
  BY <1>1 DEF CallInv
<1> QED BY <1>2 DEF CallInv

\* The end of the data is a place in the last file.
LEMMA EndIsLocation ==
  ASSUME TypeOK
  PROVE  /\ EndOfData \in Location
         /\ EndOfData.file_no + 1 = Len(files)
         /\ EndOfData.offset = Len(files[Len(files)])
<1>1. Len(files) \in Nat \ {0} /\ Len(files) \in 1..Len(files)
  BY EmptySeq DEF TypeOK
<1>2. files[Len(files)] \in Seq(Byte)
  BY <1>1, ElementOfSeq DEF TypeOK
<1>3. Len(files[Len(files)]) \in Nat
  BY <1>2
<1> QED BY <1>1, <1>3 DEF EndOfData, Location

LEMMA LocationParts ==
  ASSUME NEW l \in Location, NEW m \in Location, NEW n \in Nat
  PROVE  /\ l.file_no \in Nat /\ l.offset \in Nat /\ l.len \in Nat
         /\ [l EXCEPT !.len = m.len] \in Location
         /\ [l EXCEPT !.len = n] \in Location
         /\ [l EXCEPT !.file_no = n] \in Location
         /\ [l EXCEPT !.offset = @ + n] \in Location
BY DEF Location

LEMMA ItemParts ==
  ASSUME NEW x \in Item, NEW l \in Location, NEW k \in UserKey, NEW n \in Nat
  PROVE  /\ x.location \in Location
         /\ [x EXCEPT !.key = k] \in Item
         /\ [x EXCEPT !.in_use = 1] \in Item
         /\ [x EXCEPT !.location = l] \in Item
         /\ [x EXCEPT !.location.len = n] \in Item
<1>1. x.location \in Location
  BY DEF Item
<1>2. [x.location EXCEPT !.len = n] \in Location
  BY <1>1, LocationParts
<1> QED BY <1>1, <1>2 DEF Item

LEMMA TypeInit == Init => TypeOK
<1> SUFFICES ASSUME Init PROVE TypeOK
  OBVIOUS
<1>1. FreeItem \in Item /\ ZeroLocation \in Location
  BY DEF FreeItem, Item, ZeroLocation, Location
<1>2. << <<>> >> \in Seq(Seq(Byte)) /\ << <<>> >> # <<>>
  OBVIOUS
<1> QED BY <1>1, <1>2, ExampleAssumption DEF Init, TypeOK

\* Steps of a process keep the types.
LEMMA TypeProcess ==
  ASSUME TypeOK, NEW p \in Process,
         Load(p) \/ Locks(p) \/ LockFails(p) \/ Close(p) \/ Kill(p)
  PROVE  TypeOK'
<1>1. ZeroLocation \in Location /\ EndOfData \in Location
  BY EndIsLocation DEF ZeroLocation, Location
<1>2. CASE Load(p)
  BY <1>1, <1>2 DEF TypeOK, Load, disk, thread
<1>3. CASE Locks(p)
  BY <1>3 DEF TypeOK, Locks, disk, thread
<1>4. CASE LockFails(p)
  BY <1>1, <1>4 DEF TypeOK, LockFails, Gone, disk, thread
<1>5. CASE Close(p)
  BY <1>1, <1>5 DEF TypeOK, Close, Gone, disk, thread
<1>6. CASE Kill(p)
  BY <1>1, <1>6 DEF TypeOK, Kill, Gone, disk
<1> QED BY <1>2, <1>3, <1>4, <1>5, <1>6

\* A file that grows at its end is a file, and its files stay files.
LEMMA GrownFiles ==
  ASSUME TypeOK, NEW f, NEW w \in Seq(Byte)
  PROVE  LET g == [files EXCEPT ![f] = @ \o w] IN g \in Seq(Seq(Byte)) /\ g # <<>>
<1> DEFINE g == [files EXCEPT ![f] = @ \o w]
<1>1. Len(files) \in Nat \ {0} /\ files \in [1..Len(files) -> Seq(Byte)]
  BY EmptySeq, LenProperties DEF TypeOK
<1>2. f \in 1..Len(files) => files[f] \o w \in Seq(Byte)
  BY <1>1, ConcatProperties
<1>3. g \in [1..Len(files) -> Seq(Byte)]
  BY <1>1, <1>2
<1>4. g \in Seq(Seq(Byte)) /\ Len(g) = Len(files)
  BY <1>1, <1>3
<1> QED BY <1>1, <1>4

\* Steps of a thread keep the types.
LEMMA TypeThread ==
  ASSUME TypeOK, CallInv, NEW t \in Thread,
         WriteStep(t) \/ \E k \in UserKey, v \in Value : Call(t, k, v)
  PROVE  TypeOK'
<1> DEFINE p == HostOf[t]  k == args[t].key  v == args[t].val  i == CalcIndex(k)
<1>1. ZeroLocation \in Location /\ p \in Process
  BY ExampleAssumption DEF ZeroLocation, Location
<1>2. pc[t] # "idle" => k \in UserKey /\ v \in Seq(Byte) /\ Len(v) \in Nat
  BY InsideHasWrite
<1>3. CASE \E key \in UserKey, val \in Value : Call(t, key, val)
  BY <1>3, ExampleAssumption DEF TypeOK, Call, disk, engine
<1>4. CASE Enter(t)
  <2>1. next_location[p] \in Location
    BY <1>1 DEF TypeOK
  <2>2. next_location[p].file_no + 1 \in Nat
    BY <2>1 DEF Location
  <2>3. [ZeroLocation EXCEPT !.file_no = next_location[p].file_no + 1] \in Location
    BY <1>1, <2>2, LocationParts
  <2>4. <<>> \in Seq(Byte) /\ files \in Seq(Seq(Byte))
    BY EmptySeq DEF TypeOK
  <2>5. Append(files, <<>>) \in Seq(Seq(Byte)) /\ Append(files, <<>>) # <<>>
    BY <2>4, AppendProperties
  <2>6. files' \in Seq(Seq(Byte)) /\ files' # <<>>
    BY <1>4, <2>5 DEF Enter, TypeOK
  <2>7. next_location' \in [Process -> Location]
    BY <1>4, <2>3 DEF Enter, TypeOK
  <2> QED BY <1>4, <2>6, <2>7 DEF TypeOK, Enter
<1>5. CASE FileAppend(t)
  <2>1. PICK n \in (sent[t] + 1)..Len(v) :
          /\ files' = [files EXCEPT ![next_location[p].file_no + 1] =
                         @ \o SubSeq(v, sent[t] + 1, n)]
          /\ sent' = [sent EXCEPT ![t] = n]
    BY <1>5 DEF FileAppend
  <2>2. pc[t] = "append" /\ sent[t] \in Nat /\ n \in Nat
    BY <1>5, <1>2, <2>1 DEF FileAppend, TypeOK
  <2>3. SubSeq(v, sent[t] + 1, n) \in Seq(Byte)
    BY <1>2, <2>1, <2>2, SubSeqProperties
  <2>4. files' \in Seq(Seq(Byte)) /\ files' # <<>>
    BY <2>1, <2>3, GrownFiles
  <2> QED BY <1>5, <2>1, <2>2, <2>4 DEF TypeOK, FileAppend, engine
<1>6. CASE AppendFails(t)
  BY <1>1, <1>6 DEF TypeOK, AppendFails, Return, disk
<1>7. CASE Appended(t)
  <2>1. pc[t] = "append" /\ next_location[p] \in Location
    BY <1>1, <1>7 DEF Appended, TypeOK
  <2>2. [next_location[p] EXCEPT !.len = Len(v)] \in Location
    BY <1>2, <2>1 DEF Location
  <2>3. [next_location[p] EXCEPT !.offset = @ + Len(v)] \in Location
    BY <1>2, <2>1 DEF Location
  <2>4. next_location' \in [Process -> Location] /\ location' \in [Thread -> Location]
    BY <1>1, <1>7, <2>2, <2>3 DEF Appended, TypeOK
  <2> QED BY <1>7, <2>4 DEF TypeOK, Appended, disk
<1>8. CASE Rejected(t)
  BY <1>1, <1>8 DEF TypeOK, Rejected, Return, disk
<1>9. CASE Place(t)
  <2>1. pc[t] # "idle" /\ (i \in Slot => items[i] \in Item)
    BY <1>9 DEF TypeOK, Place
  <2>2. i \in Slot => Keep(i, k) \in Item
    BY <1>1, <1>2, <2>1, ItemParts DEF Keep
  <2>3. items' \in [Slot -> Item]
    BY <1>9, <2>2 DEF Place, TypeOK
  <2> QED BY <1>9, <2>3 DEF TypeOK, Place, engine
<1>10. CASE Use(t)
  <2>1. i \in Slot => items[i] \in Item
    BY DEF TypeOK
  <2>2. pc[t] # "idle"
    BY <1>10 DEF Use
  <2>3. i \in Slot => [items[i] EXCEPT !.in_use = 1] \in Item
    BY <1>1, <1>2, <2>1, <2>2, ItemParts
  <2>4. items' \in [Slot -> Item]
    BY <1>10, <2>3 DEF Use, TypeOK
  <2> QED BY <1>10, <2>4 DEF TypeOK, Use, engine
<1>11. CASE Locate(t)
  <2>1. location[t] \in Location /\ (i \in Slot => items[i] \in Item)
    BY DEF TypeOK
  <2>2. pc[t] # "idle"
    BY <1>11 DEF Locate
  <2>3. i \in Slot => [items[i] EXCEPT !.location =
                       [location[t] EXCEPT !.len = items[i].location.len]] \in Item
    BY <1>2, <2>1, <2>2, ItemParts, LocationParts
  <2>4. items' \in [Slot -> Item]
    BY <1>11, <2>3 DEF Locate, TypeOK
  <2> QED BY <1>11, <2>4 DEF TypeOK, Locate, engine
<1>12. CASE LocateLen(t)
  <2>1. location[t] \in Location /\ (i \in Slot => items[i] \in Item)
    BY DEF TypeOK
  <2>2. pc[t] # "idle"
    BY <1>12 DEF LocateLen
  <2>3. i \in Slot => [items[i] EXCEPT !.location.len = location[t].len] \in Item
    BY <1>2, <2>1, <2>2, ItemParts, LocationParts
  <2>4. items' \in [Slot -> Item]
    BY <1>12, <2>3 DEF LocateLen, TypeOK
  <2> QED BY <1>1, <1>12, <2>4 DEF TypeOK, LocateLen, Return
<1> QED BY <1>3, <1>4, <1>5, <1>6, <1>7, <1>8, <1>9, <1>10, <1>11, <1>12 DEF WriteStep

LEMMA CallInit == Init => CallInv
BY ExampleAssumption DEF Init, CallInv

\* Steps of a process keep who is inside.
LEMMA CallProcess ==
  ASSUME TypeOK, CallInv, NEW p \in Process,
         Load(p) \/ Locks(p) \/ LockFails(p) \/ Close(p) \/ Kill(p)
  PROVE  CallInv'
<1>1. CASE Load(p)
  BY <1>1, ExampleAssumption DEF TypeOK, CallInv, Load, disk, thread
<1>2. CASE Locks(p)
  BY <1>2, ExampleAssumption DEF TypeOK, CallInv, Locks, disk, thread
<1>3. CASE LockFails(p)
  BY <1>3, ExampleAssumption DEF TypeOK, CallInv, LockFails, Gone, disk, thread
<1>4. CASE Close(p)
  BY <1>4, ExampleAssumption DEF TypeOK, CallInv, Close, Gone, disk, thread
<1>5. CASE Kill(p)
  BY <1>5, ExampleAssumption DEF TypeOK, CallInv, Kill, Gone, disk
<1> QED BY <1>1, <1>2, <1>3, <1>4, <1>5

\* Steps of a thread keep who is inside.
LEMMA CallThread ==
  ASSUME TypeOK, CallInv, NEW t \in Thread,
         WriteStep(t) \/ \E k \in UserKey, v \in Value : Call(t, k, v)
  PROVE  CallInv'
<1>1. HostOf \in [Thread -> Process] /\ NoKey \notin UserKey /\ Idle.key = NoKey
  BY ExampleAssumption DEF Idle
<1>2. pc[t] # "idle" => args[t].key # NoKey /\ Len(args[t].val) \in Nat
  BY <1>1, InsideHasWrite
<1>13. pc[t] \notin {"idle", "lock"} => \A u \in Thread \ {t} : pc[u] \in {"idle", "lock"}
  BY OneInside
<1>3. CASE \E k \in UserKey, v \in Value : Call(t, k, v)
  <2>1. PICK k \in UserKey, v \in Value : Call(t, k, v)
    BY <1>3
  <2>2. [key |-> k, val |-> v] # Idle /\ Len(v) \in Nat
    BY <1>1, ExampleAssumption
  <2> QED BY <1>1, <2>1, <2>2 DEF TypeOK, CallInv, Call, disk, engine
<1>4. CASE Enter(t)
  <2>1. \A u \in Thread : pc[u] \notin {"idle", "lock"} => HostOf[u] # HostOf[t]
    BY <1>4, ExampleAssumption DEF CallInv, Enter
  <2> QED BY <1>1, <1>2, <1>4, <2>1 DEF TypeOK, CallInv, Enter
<1>5. CASE FileAppend(t)
  <2>1. PICK n \in (sent[t] + 1)..Len(args[t].val) : sent' = [sent EXCEPT ![t] = n]
    BY <1>5 DEF FileAppend
  <2> QED BY <1>1, <1>2, <1>5, <2>1 DEF TypeOK, CallInv, FileAppend, engine
<1>6. CASE AppendFails(t)
  BY <1>1, <1>13, <1>6 DEF TypeOK, CallInv, AppendFails, Return, disk
<1>7. CASE Appended(t)
  BY <1>1, <1>7 DEF TypeOK, CallInv, Appended, disk
<1>8. CASE Rejected(t)
  BY <1>1, <1>13, <1>8 DEF TypeOK, CallInv, Rejected, Return, disk
<1>9. CASE Place(t)
  BY <1>1, <1>9 DEF TypeOK, CallInv, Place, engine
<1>10. CASE Use(t)
  BY <1>1, <1>10 DEF TypeOK, CallInv, Use, engine
<1>11. CASE Locate(t)
  BY <1>1, <1>11 DEF TypeOK, CallInv, Locate, engine
<1>12. CASE LocateLen(t)
  BY <1>1, <1>13, <1>12 DEF TypeOK, CallInv, LocateLen, Return
<1> QED BY <1>3, <1>4, <1>5, <1>6, <1>7, <1>8, <1>9, <1>10, <1>11, <1>12 DEF WriteStep

-----------------------------------------------------------------------------
(* The table *)

LEMMA TableIndex ==
  ASSUME NEW k
  PROVE  CalcIndex(k) = IndexIn(items, k)
BY DEF CalcIndex, IndexIn, ItemTryPlace, ItemKeyMatch, TryPlace

LEMMA TableInit == Init => TableInv
BY DEF Init, TableInv, Used, FreeItem, AddOrUpdate

\* A step that leaves the table alone, and lets no thread into AddOrUpdate.
LEMMA TableUnchanged ==
  ASSUME TableInv, items' = items,
         \A t \in Thread : pc'[t] \in AddOrUpdate => pc'[t] = pc[t] /\ args'[t] = args[t]
  PROVE  TableInv'
BY DEF TableInv, Used

LEMMA TableProcess ==
  ASSUME TypeOK, TableInv, NEW p \in Process,
         Load(p) \/ Locks(p) \/ LockFails(p) \/ Close(p) \/ Kill(p)
  PROVE  TableInv'
<1>1. items' = items
  BY DEF Load, Locks, LockFails, Close, Kill, disk
<1>2. \A t \in Thread : pc'[t] \in AddOrUpdate => pc'[t] = pc[t] /\ args'[t] = args[t]
  BY DEF Load, Locks, LockFails, Close, Kill, thread, AddOrUpdate
<1> QED BY <1>1, <1>2, TableUnchanged

\* AddOrUpdate keeps every item where probing finds it.
LEMMA TableThread ==
  ASSUME TypeOK, CallInv, TableInv, NEW t \in Thread,
         WriteStep(t) \/ \E k \in UserKey, v \in Value : Call(t, k, v)
  PROVE  TableInv'
<1> DEFINE k == args[t].key  i == IndexIn(items, k)
<1>1. pc[t] # "idle" => k \in UserKey
  BY InsideHasWrite
<1>2. CASE \/ \E key \in UserKey, val \in Value : Call(t, key, val)
           \/ Enter(t) \/ FileAppend(t) \/ AppendFails(t) \/ Appended(t) \/ Rejected(t)
  <2>1. items' = items
    BY <1>2 DEF Call, Enter, FileAppend, AppendFails, Appended, Rejected, disk
  <2>2. \A u \in Thread : pc'[u] \in AddOrUpdate => pc'[u] = pc[u] /\ args'[u] = args[u]
    BY <1>2 DEF Call, Enter, FileAppend, AppendFails, Appended, Rejected, Return, TypeOK,
                AddOrUpdate
  <2> QED BY <2>1, <2>2, TableUnchanged
<1>3. CASE Place(t)
  <2>1. k \in UserKey /\ i # -1
    BY <1>1, <1>3, TableIndex DEF Place
  <2>2. i \in Slot /\ TryPlace(items, i, k)
    BY <2>1, IndexInSlot
  <2>3. \A u \in Thread : pc'[u] \in AddOrUpdate => u = t
    BY <1>3, OneInside DEF Place, TypeOK, AddOrUpdate
  <2>4. CASE items[i].in_use = 0
    <3>1. items' = [items EXCEPT ![i] = Keep(i, k)] /\ pc'[t] = "use" /\ args' = args
      BY <1>3, <2>4, TableIndex DEF Place, TypeOK
    <3>2. items'[i].in_use = 0 /\ items'[i].key = k /\ \A j \in Slot \ {i} : items'[j] = items[j]
      BY <2>2, <2>4, <3>1 DEF Keep, TypeOK, Item
    <3>3. \A key \in UserKey : \A j \in Slot : TryPlace(items', j, key) <=> TryPlace(items, j, key)
      BY <2>4, <3>2 DEF TryPlace
    <3>4. \A key \in UserKey : IndexIn(items', key) = IndexIn(items, key)
      BY <3>3, SameSlots
    <3>5. \A j \in Used' : j \in Used /\ items'[j] = items[j]
      BY <3>2 DEF Used
    <3>6. \A j \in Used' : items'[j].key \in UserKey /\ IndexIn(items', items'[j].key) = j
      BY <3>4, <3>5 DEF TableInv
    <3>7. ASSUME NEW u \in Thread, pc'[u] \in AddOrUpdate
          PROVE  args'[u].key = k /\ pc'[u] = "use" /\ IndexIn(items', k) = i
      BY <2>1, <2>3, <3>1, <3>4, <3>7
    <3> QED BY <2>1, <3>2, <3>6, <3>7 DEF TableInv
  <2>5. CASE items[i].in_use # 0
    <3>1. items' = items /\ pc'[t] = "locate" /\ args' = args
      BY <1>3, <2>5, TableIndex DEF Place, TypeOK
    <3>2. items[i].key = k /\ items[i].in_use = 1
      BY <2>2, <2>5 DEF TryPlace, TypeOK, Item
    <3> QED BY <2>1, <2>3, <3>1, <3>2 DEF TableInv, Used
  <2> QED BY <2>4, <2>5
<1>4. CASE Use(t)
  <2>1. pc[t] = "use" /\ k \in UserKey /\ i # -1
    BY <1>1, <1>4 DEF Use, TableInv, AddOrUpdate
  <2>2. i \in Slot /\ items[i].key = k /\ items[i].in_use = 0
    BY <2>1, IndexInSlot DEF TableInv, AddOrUpdate
  <2>3. items' = [items EXCEPT ![i].in_use = 1] /\ pc' = [pc EXCEPT ![t] = "locate"] /\ args' = args
    BY <1>4, TableIndex DEF Use
  <2>4. items'[i].in_use = 1 /\ items'[i].key = k /\ \A j \in Slot \ {i} : items'[j] = items[j]
    BY <2>2, <2>3 DEF TypeOK, Item
  <2>5. \A key \in UserKey : \A j \in Slot : TryPlace(items', j, key) => TryPlace(items, j, key)
    BY <2>2, <2>4 DEF TryPlace
  <2>6. IndexIn(items', k) = i
    <3>1. TryPlace(items', i, k)
      BY <2>4 DEF TryPlace
    <3> QED BY <2>1, <2>5, <3>1, SameIndex
  <2>7. ASSUME NEW j \in Used', j # i
        PROVE  items'[j].key \in UserKey /\ IndexIn(items', items'[j].key) = j
    <3>1. j \in Used /\ items'[j] = items[j] /\ j \in Slot
      BY <2>4, <2>7 DEF Used
    <3>2. items[j].key \in UserKey /\ IndexIn(items, items[j].key) = j /\ j # -1
      BY <3>1 DEF TableInv, Slot
    <3>3. TryPlace(items', j, items[j].key)
      BY <3>1 DEF TryPlace
    <3>4. IndexIn(items', items[j].key) = j
      BY <2>5, <3>2, <3>3, SameIndex
    <3> QED BY <3>1, <3>2, <3>4
  <2>8. \A j \in Used' : items'[j].key \in UserKey /\ IndexIn(items', items'[j].key) = j
    BY <2>1, <2>4, <2>6, <2>7
  <2>9. \A u \in Thread : pc'[u] \in AddOrUpdate => u = t
    BY <2>1, <2>3, OneInside DEF TypeOK, AddOrUpdate
  <2> QED BY <2>1, <2>3, <2>4, <2>6, <2>8, <2>9 DEF TableInv, TypeOK
<1>5. CASE Locate(t) \/ LocateLen(t)
  <2>1. pc[t] \in AddOrUpdate /\ pc[t] # "use"
    BY <1>5 DEF Locate, LocateLen, AddOrUpdate
  <2>2. k \in UserKey /\ i # -1 /\ items[i].key = k /\ items[i].in_use = 1
    BY <1>1, <2>1 DEF TableInv, AddOrUpdate
  <2>3. i \in Slot
    BY <2>2, IndexInSlot
  <2>4. \A j \in Slot : items'[j].key = items[j].key /\ items'[j].in_use = items[j].in_use
    <3>1. CASE Locate(t)
      BY <2>3, <3>1, TableIndex DEF Locate, TypeOK, Item
    <3>2. CASE LocateLen(t)
      BY <2>3, <3>2, TableIndex DEF LocateLen, TypeOK, Item
    <3> QED BY <1>5, <3>1, <3>2
  <2>5. \A key \in UserKey : \A j \in Slot : TryPlace(items', j, key) <=> TryPlace(items, j, key)
    BY <2>4 DEF TryPlace
  <2>6. \A key \in UserKey : IndexIn(items', key) = IndexIn(items, key)
    BY <2>5, SameSlots
  <2>7. \A u \in Thread : pc'[u] \in AddOrUpdate => u = t /\ pc'[u] = "len" /\ args'[u] = args[u]
    <3>1. \A u \in Thread \ {t} : pc[u] \in {"idle", "lock"}
      BY <2>1, OneInside DEF AddOrUpdate
    <3> QED BY <1>5, <3>1 DEF Locate, LocateLen, Return, TypeOK, AddOrUpdate
  <2>8. \A j \in Used' : items'[j].key \in UserKey /\ IndexIn(items', items'[j].key) = j
    BY <2>4, <2>6 DEF TableInv, Used
  <2> QED BY <2>2, <2>3, <2>4, <2>6, <2>7, <2>8 DEF TableInv
<1> QED BY <1>2, <1>3, <1>4, <1>5 DEF WriteStep

IInv == TypeOK /\ CallInv /\ TableInv

LEMMA StutterKeeps == IInv /\ UNCHANGED vars => IInv'
BY DEF IInv, vars, disk, engine, thread, TypeOK, CallInv, TableInv, Used

\* The invariant is inductive, whatever meets: kills in AddOrUpdate, writes that fail half
\* way, a process that locks what has changed since it looked.
LEMMA Inductive == Spec => []IInv
<1>1. Init => IInv
  BY TypeInit, CallInit, TableInit DEF IInv
<1>2. IInv /\ [Next]_vars => IInv'
  <2> SUFFICES ASSUME IInv, [Next]_vars
               PROVE  IInv'
    OBVIOUS
  <2>1. CASE \E p \in Process : Load(p) \/ Locks(p) \/ LockFails(p) \/ Close(p) \/ Kill(p)
    BY <2>1, TypeProcess, CallProcess, TableProcess DEF IInv
  <2>2. CASE \E t \in Thread : WriteStep(t) \/ \E k \in UserKey, v \in Value : Call(t, k, v)
    BY <2>2, TypeThread, CallThread, TableThread DEF IInv
  <2>3. CASE UNCHANGED vars
    BY <2>3, StutterKeeps
  <2> QED BY <2>1, <2>2, <2>3 DEF Next
<1> QED BY <1>1, <1>2, PTL DEF Spec

\* The type invariant: in particular no file number, offset or index leaves its range.
THEOREM TypeCorrect == Spec => []TypeOK
BY Inductive, PTL DEF IInv

\* CalcIndex (door_plate.cc:93) finds every item of the table, for every hash function and
\* every size of the table, also while AddOrUpdate (door_plate.cc:108) is half way and
\* after a kill in the middle of it.
THEOREM Reachable == Spec => []TableIsReachable
<1>1. IInv => TableIsReachable
  BY TableIndex DEF IInv, TableInv, TableIsReachable
<1> QED BY <1>1, Inductive, PTL

-----------------------------------------------------------------------------
(* The steps of AddOrUpdate *)

\* Only one Write is past the mutex.
LEMMA OthersOutside ==
  ASSUME IInv, NEW t \in Thread, pc[t] \notin {"idle", "lock"}
  PROVE  \A u \in Thread \ {t} : pc[u] \in {"idle", "lock"}
BY OneInside DEF IInv

LEMMA PlaceEffect ==
  ASSUME IInv, NEW t \in Thread, Place(t)
  PROVE  LET k == args[t].key  i == IndexIn(items, k) IN
         /\ k \in UserKey /\ i \in Slot
         /\ items'[i].key = k
         /\ items'[i].in_use = items[i].in_use
         /\ items'[i].location = items[i].location
         /\ items[i].in_use = 0 \/ items[i].key = k
         /\ \A j \in Slot \ {i} : items'[j] = items[j]
         /\ \A key \in UserKey : IndexIn(items', key) = IndexIn(items, key)
         /\ pc' = [pc EXCEPT ![t] = IF items[i].in_use = 0 THEN "use" ELSE "locate"]
<1> DEFINE k == args[t].key  i == IndexIn(items, k)
<1>0. pc[t] = "place"
  BY DEF Place
<1>1. k \in UserKey /\ i # -1
  BY <1>0, InsideHasWrite, TableIndex DEF Place, IInv
<1>2. i \in Slot /\ TryPlace(items, i, k)
  BY <1>1, IndexInSlot
<1>3. CASE items[i].in_use = 0
  <2>1. items' = [items EXCEPT ![i] = [items[i] EXCEPT !.key = k]]
    BY <1>3, TableIndex DEF Place, Keep
  <2>2. /\ items'[i].key = k
        /\ items'[i].in_use = items[i].in_use
        /\ items'[i].location = items[i].location
        /\ \A j \in Slot \ {i} : items'[j] = items[j]
    BY <1>2, <2>1 DEF IInv, TypeOK, Item
  <2>3. \A key \in UserKey : \A j \in Slot : TryPlace(items', j, key) <=> TryPlace(items, j, key)
    BY <1>3, <2>2 DEF TryPlace
  <2>4. \A key \in UserKey : IndexIn(items', key) = IndexIn(items, key)
    BY <2>3, SameSlots
  <2>5. pc' = [pc EXCEPT ![t] = "use"]
    BY <1>3, TableIndex DEF Place
  <2> QED BY <1>1, <1>2, <1>3, <2>2, <2>4, <2>5
<1>4. CASE items[i].in_use # 0
  <2>1. items' = items /\ pc' = [pc EXCEPT ![t] = "locate"]
    BY <1>4, TableIndex DEF Place
  <2>2. items[i].key = k
    BY <1>2, <1>4 DEF TryPlace
  <2> QED BY <1>1, <1>2, <1>4, <2>1, <2>2
<1> QED BY <1>3, <1>4

LEMMA UseEffect ==
  ASSUME IInv, NEW t \in Thread, Use(t)
  PROVE  LET k == args[t].key  i == IndexIn(items, k) IN
         /\ k \in UserKey /\ i \in Slot
         /\ items[i].key = k /\ items[i].in_use = 0
         /\ items'[i].key = k /\ items'[i].in_use = 1
         /\ items'[i].location = items[i].location
         /\ \A j \in Slot \ {i} : items'[j] = items[j]
<1> DEFINE k == args[t].key  i == IndexIn(items, k)
<1>1. pc[t] = "use"
  BY DEF Use
<1>2. k \in UserKey /\ i # -1 /\ items[i].key = k /\ items[i].in_use = 0
  BY <1>1, InsideHasWrite DEF IInv, TableInv, AddOrUpdate
<1>3. i \in Slot
  BY <1>2, IndexInSlot
<1>4. items' = [items EXCEPT ![i].in_use = 1]
  BY TableIndex DEF Use
<1> QED BY <1>2, <1>3, <1>4 DEF IInv, TypeOK, Item

LEMMA LocateEffect ==
  ASSUME IInv, NEW t \in Thread, Locate(t) \/ LocateLen(t)
  PROVE  LET k == args[t].key  i == IndexIn(items, k) IN
         /\ k \in UserKey /\ i \in Slot
         /\ items[i].key = k /\ items[i].in_use = 1
         /\ items'[i].key = k /\ items'[i].in_use = 1
         /\ Locate(t) => items'[i].location = [location[t] EXCEPT !.len = items[i].location.len]
         /\ LocateLen(t) => items'[i].location = [items[i].location EXCEPT !.len = location[t].len]
         /\ \A j \in Slot \ {i} : items'[j] = items[j]
         /\ \A key \in UserKey : IndexIn(items', key) = IndexIn(items, key)
<1> DEFINE k == args[t].key  i == IndexIn(items, k)
<1>1. pc[t] \in {"locate", "len"}
  BY DEF Locate, LocateLen
<1>2. k \in UserKey /\ i # -1 /\ items[i].key = k /\ items[i].in_use = 1
  BY <1>1, InsideHasWrite DEF IInv, TableInv, AddOrUpdate
<1>3. i \in Slot
  BY <1>2, IndexInSlot
<1>4. Locate(t) => items' = [items EXCEPT ![i].location =
                               [location[t] EXCEPT !.len = items[i].location.len]]
  BY TableIndex DEF Locate
<1>5. LocateLen(t) => items' = [items EXCEPT ![i].location.len = location[t].len]
  BY TableIndex DEF LocateLen
<1>6. /\ items'[i].key = k /\ items'[i].in_use = 1
      /\ Locate(t) => items'[i].location = [location[t] EXCEPT !.len = items[i].location.len]
      /\ LocateLen(t) => items'[i].location = [items[i].location EXCEPT !.len = location[t].len]
      /\ \A j \in Slot \ {i} : items'[j] = items[j]
  <2>1. items \in [Slot -> Item] /\ items[i] \in Item
    BY <1>3 DEF IInv, TypeOK
  <2>2. CASE Locate(t)
    <3>1. pc[t] = "locate" /\ ~LocateLen(t)
      BY <2>2 DEF Locate, LocateLen
    <3> QED BY <1>2, <1>3, <1>4, <2>1, <2>2, <3>1 DEF Item
  <2>3. CASE LocateLen(t)
    <3>1. pc[t] = "len" /\ ~Locate(t)
      BY <2>3 DEF Locate, LocateLen
    <3>2. /\ items'[i] = [items[i] EXCEPT !.location.len = location[t].len]
          /\ \A j \in Slot \ {i} : items'[j] = items[j]
      BY <1>3, <1>5, <2>1, <2>3
    <3>3. /\ items'[i].key = items[i].key /\ items'[i].in_use = items[i].in_use
          /\ items'[i].location = [items[i].location EXCEPT !.len = location[t].len]
      BY <2>1, <3>2 DEF Item
    <3> QED BY <1>2, <3>1, <3>2, <3>3
  <2> QED BY <2>2, <2>3
<1>7. \A key \in UserKey : \A j \in Slot : TryPlace(items', j, key) <=> TryPlace(items, j, key)
  BY <1>2, <1>6 DEF TryPlace
<1>8. \A key \in UserKey : IndexIn(items', key) = IndexIn(items, key)
  BY <1>7, SameSlots
<1> QED BY <1>2, <1>3, <1>6, <1>8

-----------------------------------------------------------------------------
(* Without kills in AddOrUpdate, failing half-way and late looks *)

Undisturbed == Meeting = {}

\* A slot that is not in use has never been touched, unless a Write is about to use it.
FreeInv ==
  \A i \in Slot : items[i].in_use = 0 =>
    \/ items[i].key = NoKey
    \/ \E t \in Thread : pc[t] = "use" /\ i = IndexIn(items, args[t].key)

LEMMA FreeInit == Init => FreeInv
BY DEF Init, FreeInv, FreeItem

LEMMA FreeProcess ==
  ASSUME Undisturbed, IInv, FreeInv, NEW p \in Process,
         Load(p) \/ Locks(p) \/ LockFails(p) \/ Close(p) \/ Kill(p)
  PROVE  FreeInv'
<1>1. items' = items
  BY DEF Load, Locks, LockFails, Close, Kill, disk
<1>2. \A t \in Thread : pc[t] = "use" => pc'[t] = "use" /\ args'[t] = args[t]
  BY DEF Undisturbed, Load, Locks, LockFails, Close, Kill, thread, AddOrUpdate
<1> QED BY <1>1, <1>2 DEF FreeInv

LEMMA FreeThread ==
  ASSUME IInv, FreeInv, NEW t \in Thread,
         WriteStep(t) \/ \E k \in UserKey, v \in Value : Call(t, k, v)
  PROVE  FreeInv'
<1>1. CASE \/ \E key \in UserKey, val \in Value : Call(t, key, val)
           \/ Enter(t) \/ FileAppend(t) \/ AppendFails(t) \/ Appended(t) \/ Rejected(t)
  <2>1. items' = items
    BY <1>1 DEF Call, Enter, FileAppend, AppendFails, Appended, Rejected, disk
  <2>2. \A u \in Thread : pc[u] = "use" => pc'[u] = "use" /\ args'[u] = args[u]
    BY <1>1 DEF Call, Enter, FileAppend, AppendFails, Appended, Rejected, Return, IInv, TypeOK
  <2> QED BY <2>1, <2>2 DEF FreeInv
<1>2. CASE Place(t)
  <2>1. pc[t] = "place" /\ args' = args
    BY <1>2 DEF Place
  <2>2. \A u \in Thread : pc[u] # "use"
    BY <2>1, OthersOutside
  <2> DEFINE i == IndexIn(items, args[t].key)
  <2>3. \A j \in Slot \ {i} : items'[j].in_use = 0 => items'[j].key = NoKey
    BY <1>2, <2>2, PlaceEffect DEF FreeInv
  <2>4. items'[i].in_use = 0 => pc'[t] = "use" /\ i = IndexIn(items', args'[t].key)
    BY <1>2, <2>1, PlaceEffect DEF IInv, TypeOK
  <2> QED BY <2>3, <2>4 DEF FreeInv
<1>3. CASE Use(t)
  <2>1. \A u \in Thread : pc[u] = "use" => u = t
    BY <1>3, OthersOutside DEF Use
  <2> DEFINE i == IndexIn(items, args[t].key)
  <2>2. \A j \in Slot \ {i} : items'[j].in_use = 0 => items'[j].key = NoKey
    BY <1>3, <2>1, UseEffect DEF FreeInv
  <2>3. items'[i].in_use # 0
    BY <1>3, UseEffect
  <2> QED BY <2>2, <2>3 DEF FreeInv
<1>4. CASE Locate(t) \/ LocateLen(t)
  <2>1. \A u \in Thread : pc[u] # "use"
    BY <1>4, OthersOutside DEF Locate, LocateLen
  <2> DEFINE i == IndexIn(items, args[t].key)
  <2>2. items'[i].in_use = 1 /\ \A j \in Slot \ {i} : items'[j] = items[j]
    <3>1. CASE Locate(t)
      BY <3>1, LocateEffect
    <3>2. CASE LocateLen(t)
      BY <3>2, LocateEffect
    <3> QED BY <1>4, <3>1, <3>2
  <2> QED BY <2>1, <2>2 DEF FreeInv
<1> QED BY <1>1, <1>2, <1>3, <1>4 DEF WriteStep

-----------------------------------------------------------------------------
(* The data files *)

\* gs holds what fs held
Grown(fs, gs) ==
  /\ Len(fs) <= Len(gs)
  /\ \A f \in 1..Len(fs) : /\ Len(fs[f]) <= Len(gs[f])
                           /\ \A j \in 1..Len(fs[f]) : gs[f][j] = fs[f][j]

\* the bytes at l are there, and are v
Holds(l, v) == InFile(l) /\ Read(l) = v

Last == files[Len(files)]

\* a process that holds LOCK knows the last file, and its end unless it is appending
EndInv ==
  \A p \in Process : phase[p] = "open" =>
    /\ next_location[p].file_no + 1 = Len(files)
    /\ (\A t \in Thread : HostOf[t] = p => pc[t] # "append")
         => next_location[p].offset = Len(Last)

AppendInv ==
  \A t \in Thread : pc[t] = "append" =>
    LET l == next_location[HostOf[t]] IN
    /\ Len(Last) = l.offset + sent[t]
    /\ \A j \in 1..sent[t] : Last[l.offset + j] = args[t].val[j]

\* what a Write is about to put into the table, and has put there by halves
PlaceInv ==
  /\ \A t \in Thread : pc[t] \in {"place"} \cup AddOrUpdate => Holds(location[t], args[t].val)
  /\ \A t \in Thread : pc[t] = "len" =>
       LET l == items[IndexIn(items, args[t].key)].location IN
       l.file_no = location[t].file_no /\ l.offset = location[t].offset

ItemInv ==
  \A i \in Slot : \/ InFile(items[i].location)
                  \/ \E t \in Thread : pc[t] = "len" /\ i = IndexIn(items, args[t].key)

DataInv == EndInv /\ AppendInv /\ PlaceInv /\ ItemInv

\* A part of a sequence is a part of one that begins with it.
LEMMA SubSeqGrown ==
  ASSUME NEW s \in Seq(Byte), NEW r \in Seq(Byte), Len(s) <= Len(r),
         \A j \in 1..Len(s) : r[j] = s[j],
         NEW o \in Nat, NEW n \in Nat, o + n <= Len(s)
  PROVE  SubSeq(r, o + 1, o + n) = SubSeq(s, o + 1, o + n)
<1>1. Len(s) \in Nat /\ Len(r) \in Nat
  OBVIOUS
<1>2. \A j \in (o + 1)..(o + n) : j \in 1..Len(s) /\ j \in 1..Len(r)
  BY <1>1
<1>3. \A j \in (o + 1)..(o + n) : s[j] \in Byte /\ r[j] \in Byte /\ r[j] = s[j]
  BY <1>2, ElementOfSeq
<1> DEFINE x == SubSeq(s, o + 1, o + n)  y == SubSeq(r, o + 1, o + n)
<1>4. o + 1 \in Int /\ o + n \in Int
  OBVIOUS
<1>5. /\ x \in Seq(Byte)
      /\ Len(x) = IF o + 1 <= o + n THEN (o + n) - (o + 1) + 1 ELSE 0
      /\ \A i \in 1..((o + n) - (o + 1) + 1) : x[i] = s[(o + 1) + i - 1]
  BY <1>3, <1>4, SubSeqProperties
<1>6. /\ y \in Seq(Byte)
      /\ Len(y) = IF o + 1 <= o + n THEN (o + n) - (o + 1) + 1 ELSE 0
      /\ \A i \in 1..((o + n) - (o + 1) + 1) : y[i] = r[(o + 1) + i - 1]
  BY <1>3, <1>4, SubSeqProperties
<1> HIDE DEF x, y
<1>7. Len(x) = n /\ Len(y) = n
  BY <1>5, <1>6
<1>8. \A i \in 1..n : i \in 1..((o + n) - (o + 1) + 1) /\ (o + 1) + i - 1 \in (o + 1)..(o + n)
  OBVIOUS
<1>9. \A i \in 1..n : y[i] = x[i]
  BY <1>3, <1>5, <1>6, <1>8
<1>10. y = x
  BY <1>5, <1>6, <1>7, <1>9, SeqEqual
<1> QED BY <1>10 DEF x, y

\* Bytes a + 1 to n of v, behind a sequence that ends with bytes 1 to a of it.
LEMMA TailGrown ==
  ASSUME NEW s \in Seq(Byte), NEW v \in Seq(Byte), NEW o \in Nat, NEW a \in Nat,
         NEW n \in (a + 1)..Len(v), Len(s) = o + a,
         \A j \in 1..a : s[o + j] = v[j]
  PROVE  LET r == s \o SubSeq(v, a + 1, n) IN
         /\ r \in Seq(Byte) /\ Len(r) = o + n /\ Len(s) <= Len(r)
         /\ \A j \in 1..n : r[o + j] = v[j]
         /\ \A j \in 1..Len(s) : r[j] = s[j]
<1> DEFINE w == SubSeq(v, a + 1, n)  r == s \o w
<1>1. Len(s) \in Nat /\ Len(v) \in Nat /\ n \in Nat /\ a + 1 \in Int /\ n <= Len(v) /\ a + 1 <= n
  OBVIOUS
<1>2. \A j \in (a + 1)..n : v[j] \in Byte
  <2>1. \A j \in (a + 1)..n : j \in 1..Len(v)
    BY <1>1
  <2> QED BY <2>1, ElementOfSeq
<1>3. /\ w \in Seq(Byte)
      /\ Len(w) = IF a + 1 <= n THEN n - (a + 1) + 1 ELSE 0
      /\ \A i \in 1..(n - (a + 1) + 1) : w[i] = v[(a + 1) + i - 1]
  BY <1>1, <1>2, SubSeqProperties
<1> HIDE DEF w
<1>4. Len(w) = n - a
  BY <1>1, <1>3
<1>5. /\ r \in Seq(Byte)
      /\ Len(r) = Len(s) + Len(w)
      /\ \A i \in 1..(Len(s) + Len(w)) : r[i] = IF i <= Len(s) THEN s[i] ELSE w[i - Len(s)]
  BY <1>3, ConcatProperties
<1> HIDE DEF r
<1>6. Len(r) = o + n /\ Len(s) <= Len(r)
  BY <1>1, <1>4, <1>5
<1>7. \A j \in 1..Len(s) : r[j] = s[j]
  BY <1>1, <1>4, <1>5
<1>8. ASSUME NEW j \in 1..n PROVE r[o + j] = v[j]
  <2>1. o + j \in 1..(Len(s) + Len(w))
    BY <1>1, <1>4
  <2>2. CASE j <= a
    <3>1. j \in 1..a /\ o + j <= Len(s)
      BY <2>2
    <3> QED BY <2>1, <3>1, <1>5
  <2>3. CASE j > a
    <3>1. ~(o + j <= Len(s)) /\ o + j - Len(s) = j - a
      BY <2>3, <1>1
    <3>2. j - a \in 1..(n - (a + 1) + 1) /\ (a + 1) + (j - a) - 1 = j
      BY <2>3, <1>1
    <3>3. r[o + j] = w[j - a]
      BY <2>1, <3>1, <1>5
    <3>4. w[j - a] = v[(a + 1) + (j - a) - 1]
      BY <3>2, <1>3
    <3> QED BY <3>2, <3>3, <3>4
  <2> QED BY <2>2, <2>3
<1> QED BY <1>5, <1>6, <1>7, <1>8 DEF r, w

\* What is in files that only grow stays there.
LEMMA GrownHolds ==
  ASSUME TypeOK, TypeOK', Grown(files, files'), NEW l \in Location, InFile(l)
  PROVE  /\ l.file_no < Len(files') /\ l.offset + l.len <= Len(files'[l.file_no + 1])
         /\ SubSeq(files'[l.file_no + 1], l.offset + 1, l.offset + l.len) = Read(l)
<1> DEFINE f == l.file_no + 1
<1>1. l.file_no \in Nat /\ l.offset \in Nat /\ l.len \in Nat
  BY DEF Location
<1>2. files \in Seq(Seq(Byte)) /\ files' \in Seq(Seq(Byte))
  BY DEF TypeOK
<1>3. Len(files) \in Nat /\ Len(files') \in Nat
  BY <1>2
<1>4. f \in 1..Len(files) /\ f \in 1..Len(files') /\ l.file_no < Len(files')
  BY <1>1, <1>3 DEF InFile, Grown
<1>5. files[f] \in Seq(Byte) /\ files'[f] \in Seq(Byte)
  BY <1>2, <1>4, ElementOfSeq
<1>6. /\ l.offset + l.len <= Len(files[f]) /\ Len(files[f]) <= Len(files'[f])
      /\ \A j \in 1..Len(files[f]) : files'[f][j] = files[f][j]
  BY <1>4 DEF InFile, Grown
<1>7. l.offset + l.len <= Len(files'[f])
  <2>1. Len(files[f]) \in Nat /\ Len(files'[f]) \in Nat
    BY <1>5
  <2> QED BY <1>1, <1>6, <2>1
<1>8. SubSeq(files'[f], l.offset + 1, l.offset + l.len)
        = SubSeq(files[f], l.offset + 1, l.offset + l.len)
  BY <1>1, <1>5, <1>6, SubSeqGrown
<1> QED BY <1>4, <1>7, <1>8 DEF Read

LEMMA HoldsOn ==
  ASSUME TypeOK, TypeOK', Grown(files, files'), NEW l \in Location, NEW v, Holds(l, v)
  PROVE  InFile(l)' /\ Read(l)' = v
BY GrownHolds DEF Holds, InFile, Read

LEMMA LastIsFile ==
  ASSUME TypeOK
  PROVE  /\ Len(files) \in Nat \ {0} /\ Len(files) \in 1..Len(files)
         /\ Last \in Seq(Byte) /\ Len(Last) \in Nat
<1>1. Len(files) \in Nat \ {0} /\ Len(files) \in 1..Len(files)
  BY EmptySeq DEF TypeOK
<1>2. files[Len(files)] \in Seq(Byte)
  BY <1>1, ElementOfSeq DEF TypeOK
<1> QED BY <1>1, <1>2 DEF Last

\* One write() of FileAppend puts its bytes behind what is there.
LEMMA AppendEffect ==
  ASSUME IInv, EndInv, AppendInv, NEW t \in Thread, FileAppend(t)
  PROVE  LET l == next_location[HostOf[t]]  v == args[t].val IN
         /\ sent'[t] \in (sent[t] + 1)..Len(v)
         /\ Len(files') = Len(files)
         /\ Len(Last') = l.offset + sent'[t]
         /\ \A j \in 1..sent'[t] : Last'[l.offset + j] = v[j]
         /\ Grown(files, files')
<1> DEFINE l == next_location[HostOf[t]]  v == args[t].val
<1>1. pc[t] = "append" /\ phase[HostOf[t]] = "open" /\ HostOf[t] \in Process
  BY ExampleAssumption DEF FileAppend, IInv, CallInv
<1>2. v \in Seq(Byte) /\ Len(v) \in Nat /\ sent[t] \in Nat /\ l.offset \in Nat
  BY <1>1, InsideHasWrite, LocationParts DEF IInv, TypeOK, Location
<1>3. l.file_no + 1 = Len(files)
  BY <1>1 DEF EndInv
<1>4. PICK n \in (sent[t] + 1)..Len(v) :
        /\ files' = [files EXCEPT ![Len(files)] = @ \o SubSeq(v, sent[t] + 1, n)]
        /\ sent' = [sent EXCEPT ![t] = n]
  BY <1>3 DEF FileAppend
<1>5. sent'[t] = n /\ n \in Nat
  BY <1>2, <1>4 DEF IInv, TypeOK
<1>6. /\ Len(files) \in Nat \ {0} /\ Len(files) \in 1..Len(files)
      /\ Last \in Seq(Byte) /\ files \in Seq(Seq(Byte))
  BY LastIsFile DEF IInv, TypeOK
<1>7. /\ Len(Last) = l.offset + sent[t]
      /\ \A j \in 1..sent[t] : Last[l.offset + j] = v[j]
  BY <1>1 DEF AppendInv
<1> DEFINE r == Last \o SubSeq(v, sent[t] + 1, n)
<1>13. l.offset \in Nat /\ sent[t] \in Nat /\ v \in Seq(Byte) /\ Last \in Seq(Byte)
  BY <1>2, <1>6
<1> HIDE DEF l, v
<1>8. /\ r \in Seq(Byte) /\ Len(r) = l.offset + n /\ Len(Last) <= Len(r)
      /\ \A j \in 1..n : r[l.offset + j] = v[j]
      /\ \A j \in 1..Len(Last) : r[j] = Last[j]
  BY <1>4, <1>7, <1>13, TailGrown
<1>9. files' = [files EXCEPT ![Len(files)] = r]
  BY <1>4, <1>6 DEF Last
<1> HIDE DEF r
<1>10. /\ Len(files') = Len(files)
       /\ \A f \in 1..Len(files) : files'[f] = IF f = Len(files) THEN r ELSE files[f]
  <2> DEFINE fs == [files EXCEPT ![Len(files)] = r]
  <2>1. /\ Len(fs) = Len(files)
        /\ \A j \in 1..Len(files) : fs[j] = IF j = Len(files) THEN r ELSE files[j]
    BY <1>6, <1>8, ExceptSeq
  <2> QED BY <2>1, <1>9
<1>11. Last' = r
  BY <1>6, <1>10 DEF Last
<1>12. Grown(files, files')
  <2>1. ASSUME NEW f \in 1..Len(files), f # Len(files)
        PROVE  files'[f] = files[f] /\ Len(files[f]) \in Nat
    <3>1. files[f] \in Seq(Byte)
      BY <1>6, ElementOfSeq
    <3> QED BY <2>1, <3>1, <1>10
  <2>2. Len(Last) <= Len(Last') /\ \A j \in 1..Len(Last) : Last'[j] = Last[j]
    BY <1>8, <1>11
  <2> QED BY <2>1, <2>2, <1>6, <1>10, <1>11 DEF Grown, Last
<1> QED BY <1>4, <1>5, <1>8, <1>10, <1>11, <1>12 DEF l, v

LEMMA SameFiles ==
  ASSUME TypeOK, files' = files
  PROVE  Grown(files, files')
<1>1. \A f \in 1..Len(files) : Len(files[f]) \in Nat
  <2>1. \A f \in 1..Len(files) : files[f] \in Seq(Byte)
    BY ElementOfSeq DEF TypeOK
  <2> QED BY <2>1
<1> QED BY <1>1, LastIsFile DEF Grown

\* A step that leaves the table alone and takes no Write into or out of AddOrUpdate.
LEMMA PlacesKept ==
  ASSUME TypeOK, TypeOK', Grown(files, files'), PlaceInv, ItemInv, items' = items,
         \A u \in Thread : pc'[u] \in {"place"} \cup AddOrUpdate =>
           pc'[u] = pc[u] /\ args'[u] = args[u] /\ location'[u] = location[u],
         \A u \in Thread : pc[u] = "len" => pc'[u] = "len" /\ args'[u] = args[u]
  PROVE  PlaceInv' /\ ItemInv'
<1>1. ASSUME NEW u \in Thread, pc'[u] \in {"place"} \cup AddOrUpdate
      PROVE  Holds(location[u], args[u].val)'
  <2>1. Holds(location[u], args[u].val) /\ location[u] \in Location
    BY <1>1 DEF PlaceInv, TypeOK
  <2>2. InFile(location[u])' /\ Read(location[u])' = args'[u].val
    <3>1. location'[u] = location[u] /\ args'[u] = args[u]
      BY <1>1
    <3>2. /\ location[u].file_no < Len(files')
          /\ location[u].offset + location[u].len <= Len(files'[location[u].file_no + 1])
          /\ SubSeq(files'[location[u].file_no + 1], location[u].offset + 1,
                    location[u].offset + location[u].len) = args[u].val
      BY <2>1, GrownHolds DEF Holds
    <3> QED BY <3>1, <3>2 DEF InFile, Read
  <2> QED BY <2>2 DEF Holds
<1>2. ASSUME NEW i \in Slot, InFile(items[i].location)
      PROVE  InFile(items[i].location)'
  <2>1. items[i].location \in Location
    BY DEF TypeOK, Item
  <2> QED BY <1>2, <2>1, GrownHolds DEF InFile
<1>3. PlaceInv'
  BY <1>1 DEF PlaceInv, AddOrUpdate
<1>4. ItemInv'
  BY <1>2 DEF ItemInv
<1> QED BY <1>3, <1>4

LEMMA DataInit == Init => DataInv
<1> SUFFICES ASSUME Init PROVE DataInv
  OBVIOUS
<1>1. Len(files) = 1 /\ files[1] = <<>> /\ Len(<<>>) = 0
  BY DEF Init
<1>2. InFile(ZeroLocation)
  BY <1>1 DEF InFile, ZeroLocation
<1>3. \A i \in Slot : InFile(items[i].location)
  BY <1>2 DEF Init, FreeItem
<1> QED BY <1>3 DEF DataInv, Init, EndInv, AppendInv, PlaceInv, ItemInv, AddOrUpdate

LEMMA DataProcess ==
  ASSUME Undisturbed, IInv, TypeOK', DataInv, NEW p \in Process,
         Load(p) \/ Locks(p) \/ LockFails(p) \/ Close(p) \/ Kill(p)
  PROVE  DataInv'
<1>1. files' = files /\ items' = items /\ Last' = Last
  BY DEF Load, Locks, LockFails, Close, Kill, disk, Last
<1>2. Grown(files, files')
  BY <1>1, SameFiles DEF IInv
<1>3. \A u \in Thread : pc'[u] # "idle" =>
        pc'[u] = pc[u] /\ args'[u] = args[u] /\ location'[u] = location[u] /\ sent'[u] = sent[u]
  BY DEF Load, Locks, LockFails, Close, Kill, thread
<1>4. \A u \in Thread : pc[u] = "len" => pc'[u] = "len"
  BY DEF Undisturbed, Load, Locks, LockFails, Close, Kill, thread, AddOrUpdate
<1>5. PlaceInv' /\ ItemInv'
  BY <1>1, <1>2, <1>3, <1>4, PlacesKept DEF DataInv, IInv, AddOrUpdate
<1>6. \A q \in Process \ {p} : next_location'[q] = next_location[q] /\ phase'[q] = phase[q]
  BY DEF Load, Locks, LockFails, Close, Kill, Gone, IInv, TypeOK
<1>7. \A u \in Thread : HostOf[u] # p => pc'[u] = pc[u]
  BY DEF Load, Locks, LockFails, Close, Kill, thread
<1>8. phase'[p] = "open" => next_location'[p] = EndOfData
  BY DEF Undisturbed, Load, Locks, LockFails, Close, Kill, Gone, IInv, TypeOK
<1>9. EndInv'
  BY <1>1, <1>6, <1>7, <1>8, EndIsLocation DEF EndInv, DataInv, Last, IInv
<1>10. \A u \in Thread : pc'[u] # "idle" => HostOf[u] # p \/ Locks(p)
  BY DEF IInv, CallInv, Load, LockFails, Close, Kill, thread
<1>11. \A u \in Thread : pc'[u] # "idle" => next_location'[HostOf[u]] = next_location[HostOf[u]]
  BY <1>6, <1>10, ExampleAssumption DEF Locks
<1>12. AppendInv'
  BY <1>1, <1>3, <1>11 DEF AppendInv, DataInv
<1> QED BY <1>5, <1>9, <1>12 DEF DataInv

\* A step that starts and ends no append.
LEMMA EndsKept ==
  ASSUME EndInv, AppendInv, files' = files, next_location' = next_location, phase' = phase,
         \A u \in Thread : pc'[u] = "append" <=> pc[u] = "append",
         \A u \in Thread : pc[u] = "append" => sent'[u] = sent[u] /\ args'[u] = args[u]
  PROVE  EndInv' /\ AppendInv'
<1>1. Last' = Last
  BY DEF Last
<1> QED BY <1>1 DEF EndInv, AppendInv

\* The bytes at the end of a sequence.
LEMMA TailRead ==
  ASSUME NEW s \in Seq(Byte), NEW v \in Seq(Byte), NEW o \in Nat,
         Len(s) = o + Len(v), \A j \in 1..Len(v) : s[o + j] = v[j]
  PROVE  SubSeq(s, o + 1, o + Len(v)) = v
<1> DEFINE n == Len(v)  w == SubSeq(s, o + 1, o + n)
<1>1. n \in Nat /\ Len(s) \in Nat /\ o + 1 \in Int /\ o + n \in Int
  OBVIOUS
<1>2. \A j \in (o + 1)..(o + n) : s[j] \in Byte
  <2>1. \A j \in (o + 1)..(o + n) : j \in 1..Len(s)
    BY <1>1
  <2> QED BY <2>1, ElementOfSeq
<1>3. /\ w \in Seq(Byte)
      /\ Len(w) = IF o + 1 <= o + n THEN (o + n) - (o + 1) + 1 ELSE 0
      /\ \A i \in 1..((o + n) - (o + 1) + 1) : w[i] = s[(o + 1) + i - 1]
  BY <1>1, <1>2, SubSeqProperties
<1> HIDE DEF w
<1>4. Len(w) = n
  BY <1>1, <1>3
<1>5. \A i \in 1..n : i \in 1..((o + n) - (o + 1) + 1) /\ (o + 1) + i - 1 = o + i
  BY <1>1
<1>6. \A i \in 1..n : w[i] = v[i]
  BY <1>3, <1>5
<1>7. w = v
  BY <1>3, <1>4, <1>6, SeqEqual
<1> QED BY <1>7 DEF w

\* Enter goes to the end of the last file, or of a new one.
LEMMA DataEnter ==
  ASSUME IInv, TypeOK', DataInv, NEW t \in Thread, Enter(t)
  PROVE  DataInv'
<1> DEFINE p == HostOf[t]
<1>1. pc[t] = "lock" /\ mu[p] = NoThread /\ p \in Process /\ phase[p] = "open" /\ lock = p
  BY ExampleAssumption DEF Enter, IInv, CallInv
<1>2. \A u \in Thread : pc[u] \in {"idle", "lock"}
  <2>1. \A u \in Thread : pc[u] \notin {"idle", "lock"} => mu[HostOf[u]] = u /\ HostOf[u] = lock
    BY ExampleAssumption DEF IInv, CallInv
  <2> QED BY <1>1, <2>1, ExampleAssumption
<1>3. next_location[p].file_no + 1 = Len(files) /\ next_location[p].offset = Len(Last)
  BY <1>1, <1>2 DEF DataInv, EndInv
<1>4. /\ pc' = [pc EXCEPT ![t] = "append"] /\ items' = items /\ args' = args /\ sent' = sent
      /\ phase' = phase /\ sent[t] = 0 /\ pc'[t] = "append"
  BY <1>1 DEF Enter, IInv, CallInv, TypeOK
<1>5. /\ Len(files) \in Nat \ {0} /\ Len(files) \in 1..Len(files)
      /\ Len(Last) \in Nat /\ files \in Seq(Seq(Byte)) /\ <<>> \in Seq(Byte)
  BY LastIsFile, EmptySeq DEF IInv, TypeOK
<1>6. /\ next_location'[p].file_no + 1 = Len(files')
      /\ next_location'[p].offset = Len(Last')
      /\ Grown(files, files')
  <2>1. CASE Overflows(next_location[p], Len(args[t].val))
    <3>1. /\ files' = Append(files, <<>>)
          /\ next_location' = [next_location EXCEPT ![p] =
                                 [ZeroLocation EXCEPT !.file_no = Len(files)]]
      BY <2>1, <1>3 DEF Enter
    <3>2. next_location'[p].file_no = Len(files) /\ next_location'[p].offset = 0
      BY <1>1, <3>1 DEF IInv, TypeOK, ZeroLocation
    <3>3. /\ Len(files') = Len(files) + 1 /\ files'[Len(files) + 1] = <<>>
          /\ \A f \in 1..Len(files) : files'[f] = files[f]
      BY <1>5, <3>1, AppendProperties
    <3>4. Last' = <<>> /\ Len(Last') = 0
      BY <3>3 DEF Last
    <3>5. \A f \in 1..Len(files) : Len(files[f]) \in Nat
      <4>1. \A f \in 1..Len(files) : files[f] \in Seq(Byte)
        BY <1>5, ElementOfSeq
      <4> QED BY <4>1
    <3>6. Grown(files, files')
      BY <1>5, <3>3, <3>5 DEF Grown
    <3> QED BY <3>2, <3>3, <3>4, <3>6
  <2>2. CASE ~Overflows(next_location[p], Len(args[t].val))
    <3>1. files' = files /\ next_location' = next_location /\ Last' = Last
      BY <2>2 DEF Enter, Last
    <3> QED BY <1>3, <3>1, SameFiles DEF IInv
  <2> QED BY <2>1, <2>2
<1>7. EndInv'
  BY <1>1, <1>4, <1>6 DEF EndInv, IInv, CallInv
<1>8. AppendInv'
  <2>1. \A u \in Thread : pc'[u] = "append" => u = t
    BY <1>2, <1>4 DEF IInv, TypeOK
  <2>2. next_location'[p].offset + sent'[t] = Len(Last')
    <3>1. Len(Last') \in Nat
      BY LastIsFile, <1>6 DEF TypeOK, Location
    <3> QED BY <1>4, <1>6, <3>1
  <2>3. 1..sent'[t] = {}
    BY <1>4
  <2> QED BY <2>1, <2>2, <2>3 DEF AppendInv
<1>9. \A u \in Thread : pc'[u] \notin {"place"} \cup AddOrUpdate /\ pc[u] # "len"
  BY <1>2, <1>4 DEF AddOrUpdate, IInv, TypeOK
<1>10. PlaceInv' /\ ItemInv'
  BY <1>4, <1>6, <1>9, PlacesKept DEF DataInv, IInv
<1> QED BY <1>7, <1>8, <1>10 DEF DataInv

LEMMA DataAppend ==
  ASSUME IInv, TypeOK', DataInv, NEW t \in Thread, FileAppend(t)
  PROVE  DataInv'
<1> DEFINE p == HostOf[t]
<1>1. pc[t] = "append" /\ \A u \in Thread \ {t} : pc[u] \in {"idle", "lock"}
  BY OthersOutside DEF FileAppend
<1>2. /\ pc' = pc /\ args' = args /\ items' = items /\ next_location' = next_location
      /\ phase' = phase
  BY DEF FileAppend, engine
<1>3. /\ Len(files') = Len(files)
      /\ Len(Last') = next_location[p].offset + sent'[t]
      /\ \A j \in 1..sent'[t] : Last'[next_location[p].offset + j] = args[t].val[j]
      /\ Grown(files, files')
  BY AppendEffect DEF DataInv
<1>4. EndInv'
  <2>1. \A q \in Process : phase[q] = "open" => q = p
    BY <1>1, ExampleAssumption DEF IInv, CallInv
  <2> QED BY <1>1, <1>2, <1>3, <2>1 DEF EndInv, DataInv
<1>5. AppendInv'
  BY <1>1, <1>2, <1>3 DEF AppendInv
<1>6. \A u \in Thread : pc'[u] \notin {"place"} \cup AddOrUpdate /\ pc[u] # "len"
  BY <1>1, <1>2 DEF AddOrUpdate
<1>7. PlaceInv' /\ ItemInv'
  BY <1>2, <1>3, <1>6, PlacesKept DEF DataInv, IInv
<1> QED BY <1>4, <1>5, <1>7 DEF DataInv

LEMMA DataAppended ==
  ASSUME IInv, TypeOK', DataInv, NEW t \in Thread, Appended(t)
  PROVE  DataInv'
<1> DEFINE p == HostOf[t]  v == args[t].val  l == next_location[p]
<1>1. /\ pc[t] = "append" /\ sent[t] = Len(v) /\ phase[p] = "open" /\ p \in Process
      /\ \A u \in Thread \ {t} : pc[u] \in {"idle", "lock"}
  BY OthersOutside, ExampleAssumption DEF Appended, IInv, CallInv
<1>2. /\ items' = items /\ files' = files /\ args' = args /\ Last' = Last /\ phase' = phase
      /\ location'[t] = [l EXCEPT !.len = Len(v)]
      /\ next_location' = [next_location EXCEPT ![p].offset = @ + Len(v)]
      /\ pc' = [pc EXCEPT ![t] = "place"]
  BY DEF Appended, disk, IInv, TypeOK, Last
<1>3. /\ l \in Location /\ l.offset \in Nat /\ v \in Seq(Byte) /\ Len(v) \in Nat
      /\ Last \in Seq(Byte) /\ Len(files) \in 1..Len(files)
  BY <1>1, InsideHasWrite, LastIsFile DEF IInv, TypeOK, Location
<1>4. /\ l.file_no + 1 = Len(files) /\ Len(Last) = l.offset + Len(v)
      /\ \A j \in 1..Len(v) : Last[l.offset + j] = v[j]
  BY <1>1 DEF DataInv, EndInv, AppendInv
<1>5. EndInv'
  <2>1. next_location'[p].file_no = l.file_no /\ next_location'[p].offset = l.offset + Len(v)
    BY <1>1, <1>2, <1>3 DEF IInv, TypeOK, Location
  <2>2. \A q \in Process : phase[q] = "open" => q = p
    BY <1>1 DEF IInv, CallInv
  <2> QED BY <1>2, <1>4, <2>1, <2>2 DEF EndInv
<1>6. AppendInv'
  <2>1. \A u \in Thread : pc'[u] # "append"
    BY <1>1, <1>2 DEF IInv, TypeOK
  <2> QED BY <2>1 DEF AppendInv
<1>7. Holds(location[t], v)'
  <2>1. location'[t].file_no = l.file_no /\ location'[t].offset = l.offset /\ location'[t].len = Len(v)
    BY <1>2, <1>3 DEF Location
  <2>2. SubSeq(Last, l.offset + 1, l.offset + Len(v)) = v
    <3> HIDE DEF v, l
    <3> QED BY <1>3, <1>4, TailRead
  <2>3. l.file_no < Len(files) /\ l.offset + Len(v) <= Len(Last)
    BY <1>3, <1>4 DEF Location
  <2> QED BY <1>2, <1>4, <2>1, <2>2, <2>3 DEF Holds, InFile, Read, Last
<1>8. PlaceInv'
  <2>1. \A u \in Thread : pc'[u] \in {"place"} \cup AddOrUpdate => u = t /\ pc'[u] = "place"
    BY <1>1, <1>2 DEF IInv, TypeOK, AddOrUpdate
  <2> QED BY <1>2, <1>7, <2>1 DEF PlaceInv, AddOrUpdate
<1>9. ItemInv'
  <2>1. \A u \in Thread : pc[u] # "len"
    BY <1>1
  <2> QED BY <1>2, <2>1 DEF DataInv, ItemInv, InFile
<1> QED BY <1>5, <1>6, <1>8, <1>9 DEF DataInv

\* AddOrUpdate points items only at what has been appended.
LEMMA DataPlace ==
  ASSUME IInv, TypeOK', DataInv, NEW t \in Thread,
         Place(t) \/ Use(t) \/ Locate(t) \/ LocateLen(t)
  PROVE  DataInv'
<1> DEFINE i == IndexIn(items, args[t].key)
<1>1. /\ pc[t] \in {"place"} \cup AddOrUpdate
      /\ \A u \in Thread \ {t} : pc[u] \in {"idle", "lock"}
      /\ \A u \in Thread \ {t} : pc'[u] \in {"idle", "lock"}
  <2>1. pc[t] \in {"place"} \cup AddOrUpdate /\ pc[t] \notin {"idle", "lock"}
    BY DEF Place, Use, Locate, LocateLen, AddOrUpdate
  <2> QED BY <2>1, OthersOutside DEF Place, Use, Locate, LocateLen, Return, IInv, TypeOK
<1>2. /\ files' = files /\ next_location' = next_location /\ phase' = phase
      /\ pc'[t] \in {"use", "locate", "len", "idle"}
      /\ \A u \in Thread \ {t} : sent'[u] = sent[u] /\ args'[u] = args[u]
  BY DEF Place, Use, Locate, LocateLen, Return, engine, IInv, TypeOK
<1>3. EndInv' /\ AppendInv'
  <2>1. pc[t] # "append" /\ pc'[t] # "append"
    BY <1>1, <1>2 DEF AddOrUpdate
  <2>2. \A u \in Thread : pc'[u] = "append" <=> pc[u] = "append"
    BY <1>1, <2>1
  <2>3. \A u \in Thread : pc[u] = "append" => sent'[u] = sent[u] /\ args'[u] = args[u]
    BY <1>1, <2>1
  <2> QED BY <1>2, <2>2, <2>3, EndsKept DEF DataInv
<1>4. location[t] \in Location /\ Holds(location[t], args[t].val)
  BY <1>1 DEF DataInv, PlaceInv, IInv, TypeOK
<1>5. \A l : InFile(l)' = InFile(l) /\ Read(l)' = Read(l)
  BY <1>2 DEF InFile, Read
<1>6. CASE Place(t) \/ Use(t)
  <2>1. /\ pc[t] # "len" /\ pc'[t] # "len" /\ args' = args /\ location' = location
    BY <1>6, <1>2 DEF Place, Use, IInv, TypeOK
  <2>2. \A u \in Thread : pc[u] # "len" /\ pc'[u] # "len"
    BY <1>1, <2>1
  <2>3. \A j \in Slot : items'[j].location = items[j].location
    <3>1. CASE Place(t)
      BY <3>1, PlaceEffect
    <3>2. CASE Use(t)
      BY <3>2, UseEffect
    <3> QED BY <1>6, <3>1, <3>2
  <2>4. ItemInv'
    BY <1>2, <2>2, <2>3 DEF DataInv, ItemInv, InFile
  <2>5. Holds(location[t], args[t].val)'
    BY <1>2, <1>4, <2>1 DEF Holds, InFile, Read
  <2>6. PlaceInv'
    BY <1>1, <2>2, <2>5 DEF PlaceInv, AddOrUpdate
  <2> QED BY <1>3, <2>4, <2>6 DEF DataInv
<1>7. CASE Locate(t)
  <2>1. /\ pc[t] = "locate" /\ pc'[t] = "len" /\ args' = args /\ location' = location
    BY <1>7 DEF Locate, IInv, TypeOK
  <2>2. /\ i \in Slot
        /\ items'[i].location = [location[t] EXCEPT !.len = items[i].location.len]
        /\ \A j \in Slot \ {i} : items'[j] = items[j]
        /\ IndexIn(items', args[t].key) = i
    BY <1>7, LocateEffect
  <2>3. /\ items'[i].location.file_no = location[t].file_no
        /\ items'[i].location.offset = location[t].offset
    BY <1>4, <2>2 DEF Location
  <2>4. \A u \in Thread : pc[u] # "len"
    BY <1>1, <2>1
  <2>5. ItemInv'
    BY <1>2, <2>1, <2>2, <2>4 DEF DataInv, ItemInv, InFile
  <2>6. Holds(location[t], args[t].val)'
    BY <1>2, <1>4, <2>1 DEF Holds, InFile, Read
  <2>7. PlaceInv'
    BY <1>1, <2>1, <2>2, <2>3, <2>6 DEF PlaceInv, AddOrUpdate
  <2> QED BY <1>3, <2>5, <2>7 DEF DataInv
<1>8. CASE LocateLen(t)
  <2>1. pc[t] = "len" /\ pc'[t] = "idle"
    BY <1>8 DEF LocateLen, Return, IInv, TypeOK
  <2>2. /\ i \in Slot
        /\ items'[i].location = [items[i].location EXCEPT !.len = location[t].len]
        /\ \A j \in Slot \ {i} : items'[j] = items[j]
    BY <1>8, LocateEffect
  <2>3. /\ items[i].location.file_no = location[t].file_no
        /\ items[i].location.offset = location[t].offset
        /\ items[i].location \in Location
    BY <2>1, <2>2 DEF DataInv, PlaceInv, IInv, TypeOK, Item
  <2>4. /\ items'[i].location.file_no = location[t].file_no
        /\ items'[i].location.offset = location[t].offset
        /\ items'[i].location.len = location[t].len
    <3> DEFINE m == items[i].location  n == location[t].len
    <3>1. [m EXCEPT !.len = n].file_no = m.file_no /\ [m EXCEPT !.len = n].offset = m.offset
          /\ [m EXCEPT !.len = n].len = n
      BY <2>3 DEF Location
    <3> HIDE DEF m, n
    <3>2. items'[i].location = [m EXCEPT !.len = n]
      BY <2>2 DEF m, n
    <3> QED BY <2>3, <3>1, <3>2 DEF m, n
  <2>5. LET l == items'[i].location IN
        l.file_no < Len(files') /\ l.offset + l.len <= Len(files'[l.file_no + 1])
    BY <1>2, <1>4, <2>4 DEF Holds, InFile
  <2>6. ASSUME NEW j \in Slot, j # i
        PROVE  InFile(items[j].location)
    <3>1. \A u \in Thread : pc[u] = "len" => u = t
      BY <1>1
    <3>2. ItemInv
      BY DEF DataInv
    <3>3. PICK u \in Thread : InFile(items[j].location) \/ (pc[u] = "len" /\ j = IndexIn(items, args[u].key))
      BY <3>2 DEF ItemInv
    <3> QED BY <2>6, <3>1, <3>3
  <2>7. ItemInv'
    BY <1>2, <2>2, <2>5, <2>6 DEF ItemInv, InFile
  <2>8. PlaceInv'
    BY <1>1, <2>1 DEF PlaceInv, AddOrUpdate
  <2> QED BY <1>3, <2>7, <2>8 DEF DataInv
<1> QED BY <1>6, <1>7, <1>8

LEMMA DataThread ==
  ASSUME Undisturbed, IInv, TypeOK', DataInv, NEW t \in Thread,
         WriteStep(t) \/ \E k \in UserKey, v \in Value : Call(t, k, v)
  PROVE  DataInv'
<1>1. CASE Rejected(t) \/ \E k \in UserKey, v \in Value : Call(t, k, v)
  <2>1. /\ items' = items /\ files' = files /\ next_location' = next_location /\ phase' = phase
        /\ pc[t] \in {"idle", "place"} /\ pc'[t] \in {"idle", "lock"}
        /\ \A u \in Thread \ {t} : /\ pc'[u] = pc[u] /\ args'[u] = args[u]
                                   /\ location'[u] = location[u] /\ sent'[u] = sent[u]
    BY <1>1 DEF Call, Rejected, Return, disk, engine, IInv, TypeOK
  <2>2. EndInv' /\ AppendInv'
    <3>1. \A u \in Thread : pc'[u] = "append" <=> pc[u] = "append"
      BY <2>1
    <3>2. \A u \in Thread : pc[u] = "append" => sent'[u] = sent[u] /\ args'[u] = args[u]
      BY <2>1
    <3> QED BY <2>1, <3>1, <3>2, EndsKept DEF DataInv
  <2>3. Grown(files, files')
    BY <2>1, SameFiles DEF IInv
  <2>4. \A u \in Thread : pc'[u] \in {"place"} \cup AddOrUpdate =>
          pc'[u] = pc[u] /\ args'[u] = args[u] /\ location'[u] = location[u]
    BY <2>1 DEF AddOrUpdate
  <2>5. \A u \in Thread : pc[u] = "len" => pc'[u] = "len" /\ args'[u] = args[u]
    BY <2>1
  <2>6. PlaceInv' /\ ItemInv'
    BY <2>1, <2>3, <2>4, <2>5, PlacesKept DEF DataInv, IInv
  <2> QED BY <2>2, <2>6 DEF DataInv
<1>2. CASE AppendFails(t)
  <2>1. /\ items' = items /\ files' = files /\ next_location' = next_location /\ phase' = phase
        /\ pc[t] = "append" /\ sent[t] = 0 /\ pc' = [pc EXCEPT ![t] = "idle"] /\ Last' = Last
    BY <1>2 DEF AppendFails, Return, disk, Undisturbed, Last
  <2>2. \A u \in Thread : pc'[u] \in {"idle", "lock"} /\ (u # t => pc[u] \in {"idle", "lock"})
    BY <2>1, OthersOutside DEF IInv, TypeOK
  <2>3. /\ phase[HostOf[t]] = "open" /\ HostOf[t] \in Process
        /\ next_location[HostOf[t]].offset \in Nat
    <3>1. HostOf[t] \in Process
      BY ExampleAssumption
    <3>2. next_location[HostOf[t]] \in Location
      BY <3>1 DEF IInv, TypeOK
    <3> QED BY <2>1, <3>1, <3>2 DEF IInv, CallInv, Location
  <2>4. next_location[HostOf[t]].offset = Len(Last)
    BY <2>1, <2>3 DEF DataInv, AppendInv
  <2>5. EndInv'
    <3>1. \A q \in Process : phase[q] = "open" => q = HostOf[t]
      BY <2>3 DEF IInv, CallInv
    <3> QED BY <2>1, <2>3, <2>4, <3>1 DEF DataInv, EndInv
  <2>6. AppendInv' /\ PlaceInv'
    BY <2>2 DEF AppendInv, PlaceInv, AddOrUpdate
  <2>7. \A u \in Thread : pc[u] # "len"
    BY <2>1, <2>2
  <2>8. ItemInv'
    BY <2>1, <2>7 DEF DataInv, ItemInv, InFile
  <2> QED BY <2>5, <2>6, <2>8 DEF DataInv
<1> QED BY <1>1, <1>2, DataEnter, DataAppend, DataAppended, DataPlace DEF WriteStep

-----------------------------------------------------------------------------
StoreInv == IInv /\ FreeInv /\ DataInv

LEMMA StoreStutter == StoreInv /\ UNCHANGED vars => StoreInv'
BY StutterKeeps DEF StoreInv, vars, disk, engine, thread, FreeInv, DataInv, EndInv, AppendInv,
   PlaceInv, ItemInv, Holds, InFile, Read, Last

LEMMA StoreStep ==
  ASSUME Undisturbed
  PROVE  StoreInv /\ [Next]_vars => StoreInv'
<1> SUFFICES ASSUME StoreInv, [Next]_vars
             PROVE  StoreInv'
  OBVIOUS
<1>1. CASE \E p \in Process : Load(p) \/ Locks(p) \/ LockFails(p) \/ Close(p) \/ Kill(p)
  BY <1>1, TypeProcess, CallProcess, TableProcess, FreeProcess, DataProcess DEF StoreInv, IInv
<1>2. CASE \E t \in Thread : WriteStep(t) \/ \E k \in UserKey, v \in Value : Call(t, k, v)
  BY <1>2, TypeThread, CallThread, TableThread, FreeThread, DataThread DEF StoreInv, IInv
<1>3. CASE UNCHANGED vars
  BY <1>3, StoreStutter
<1> QED BY <1>1, <1>2, <1>3 DEF Next

\* The stronger invariant is inductive when nothing disturbs.
LEMMA StoreInductive ==
  ASSUME Undisturbed
  PROVE  Spec => []StoreInv
<1>1. Init => StoreInv
  BY TypeInit, CallInit, TableInit, FreeInit, DataInit DEF StoreInv, IInv
<1> QED BY <1>1, StoreStep, PTL DEF Spec

\* The loop in Read (data_store.cc:95), which has no way out at the end of the file, ends
\* for every item, with any number of processes, failing calls and kills outside AddOrUpdate.
THEOREM ReadsEnd ==
  ASSUME Undisturbed
  PROVE  Spec => []ReadEnds
<1>1. StoreInv => ReadEnds
  BY DEF StoreInv, DataInv, ItemInv, ReadEnds, Settled, Used, AddOrUpdate
<1> QED BY <1>1, StoreInductive, PTL

\* A key is found exactly when an item that is in use holds it.
LEMMA FoundIsUsed ==
  StoreInv /\ Settled => \A k \in UserKey : Find(k) <=> \E i \in Used : items[i].key = k
<1> SUFFICES ASSUME StoreInv, Settled, NEW k \in UserKey
             PROVE  Find(k) <=> \E i \in Used : items[i].key = k
  OBVIOUS
<1>1. ASSUME Find(k) PROVE \E i \in Used : items[i].key = k
  <2> DEFINE i == IndexIn(items, k)
  <2>1. i # -1 /\ items[i].key = k
    BY <1>1, TableIndex DEF Find, ItemKeyMatch
  <2>2. i \in Slot
    BY <2>1, IndexInSlot
  <2>3. items[i].key # NoKey
    BY <2>1, ExampleAssumption
  <2>4. items[i].in_use # 0
    BY <2>2, <2>3 DEF StoreInv, FreeInv, Settled, AddOrUpdate
  <2>5. i \in Used
    BY <2>2, <2>4 DEF StoreInv, IInv, TypeOK, Item, Used
  <2> QED BY <2>1, <2>5
<1>2. ASSUME NEW i \in Used, items[i].key = k PROVE Find(k)
  <2>1. CalcIndex(k) = i /\ i \in Nat
    BY <1>2, TableIndex DEF StoreInv, IInv, TableInv, Used, Slot
  <2> QED BY <1>2, <2>1 DEF Find, ItemKeyMatch
<1> QED BY <1>1, <1>2

\* Range (door_plate.cc:140) and Find (door_plate.cc:129) agree on what the table holds.
THEOREM RangesAgree ==
  ASSUME Undisturbed
  PROVE  Spec => []RangeAgrees
<1>1. StoreInv => RangeAgrees
  <2> SUFFICES ASSUME StoreInv, Settled, NEW lower \in UserKey \cup {0}, NEW upper \in UserKey \cup {0}
               PROVE  LET hit == GetRangeLocation(lower, upper)
                          known == {k \in UserKey : Find(k)} IN
                      /\ {items[i].key : i \in hit} = {k \in known : /\ lower = 0 \/ k >= lower
                                                                     /\ upper = 0 \/ k < upper}
                      /\ \A i, j \in hit : items[i].key = items[j].key => i = j
    BY DEF RangeAgrees
  <2>1. \A k \in UserKey : Find(k) <=> \E i \in Used : items[i].key = k
    BY FoundIsUsed
  <2>2. \A i \in Used : items[i].key \in UserKey /\ IndexIn(items, items[i].key) = i
    BY DEF StoreInv, IInv, TableInv
  <2>3. GetRangeLocation(lower, upper) =
          {i \in Used : /\ items[i].key >= lower \/ lower = 0
                        /\ items[i].key < upper \/ upper = 0}
    BY DEF GetRangeLocation, Used
  <2> QED BY <2>1, <2>2, <2>3
<1> QED BY <1>1, StoreInductive, PTL

-----------------------------------------------------------------------------
(* The refinement *)

Writes(k) == \E t \in Thread : Committed(t) /\ args[t].key = k

\* Stored, without probing and without the choice of a thread
StoredFacts ==
  \A k \in UserKey :
    /\ \A t \in Thread : Committed(t) /\ args[t].key = k => Stored(k) = Read(location[t])
    /\ ~Writes(k) => /\ \A i \in Used : items[i].key = k => /\ Stored(k) = Read(items[i].location)
                                                            /\ InFile(items[i].location)
                     /\ (\A i \in Used : items[i].key # k) => Stored(k) = NoValue

LEMMA StoredIs == StoreInv => StoredFacts
<1> SUFFICES ASSUME StoreInv, NEW k \in UserKey
             PROVE  /\ \A t \in Thread : Committed(t) /\ args[t].key = k => Stored(k) = Read(location[t])
                    /\ ~Writes(k) =>
                         /\ \A i \in Used : items[i].key = k => /\ Stored(k) = Read(items[i].location)
                                                                /\ InFile(items[i].location)
                         /\ (\A i \in Used : items[i].key # k) => Stored(k) = NoValue
  BY DEF StoredFacts
<1>1. ASSUME NEW t \in Thread, Committed(t), args[t].key = k
      PROVE  Stored(k) = Read(location[t])
  <2>1. \A u \in Thread : Committed(u) => u = t
    BY <1>1, OneInside DEF Committed, AddOrUpdate, StoreInv, IInv
  <2>2. (CHOOSE u \in Thread : Committed(u) /\ args[u].key = k) = t
    BY <1>1, <2>1
  <2> QED BY <1>1, <2>2 DEF Stored
<1>2. ASSUME ~Writes(k), NEW i \in Used, items[i].key = k
      PROVE  Stored(k) = Read(items[i].location) /\ InFile(items[i].location)
  <2>1. CalcIndex(k) = i /\ i \in Nat /\ i \in Slot
    BY <1>2, TableIndex DEF StoreInv, IInv, TableInv, Used, Slot
  <2>2. Stored(k) = Read(items[i].location)
    BY <1>2, <2>1 DEF Stored, Writes, ItemKeyMatch
  <2>3. ASSUME NEW t \in Thread, pc[t] = "len", i = IndexIn(items, args[t].key) PROVE FALSE
    <3>1. Committed(t) /\ items[i].key = args[t].key
      BY <2>3 DEF StoreInv, IInv, TableInv, AddOrUpdate, Committed
    <3> QED BY <1>2, <3>1 DEF Writes
  <2>4. InFile(items[i].location)
    BY <2>1, <2>3 DEF StoreInv, DataInv, ItemInv
  <2> QED BY <2>2, <2>4
<1>3. ASSUME ~Writes(k), \A i \in Used : items[i].key # k
      PROVE  Stored(k) = NoValue
  <2> DEFINE i == IndexIn(items, k)
  <2>1. ASSUME i # -1, items[i].key = k PROVE FALSE
    <3>1. i \in Slot /\ items[i].key # NoKey
      BY <2>1, IndexInSlot, ExampleAssumption
    <3>2. items[i].in_use = 0
      BY <1>3, <2>1, <3>1 DEF Used, StoreInv, IInv, TypeOK, Item
    <3>3. PICK t \in Thread : pc[t] = "use" /\ i = IndexIn(items, args[t].key)
      BY <3>1, <3>2 DEF StoreInv, FreeInv
    <3>4. Committed(t) /\ items[i].key = args[t].key
      BY <3>3 DEF StoreInv, IInv, TableInv, AddOrUpdate, Committed
    <3> QED BY <1>3, <2>1, <3>4 DEF Writes
  <2> QED BY <1>3, <2>1, TableIndex DEF Stored, Writes, ItemKeyMatch
<1> QED BY <1>1, <1>2, <1>3

\* A step that changes no item but that of the Write in AddOrUpdate, and no byte.
LEMMA StoreSame ==
  ASSUME StoreInv, StoreInv', StoredFacts, StoredFacts', Grown(files, files'),
         \A u \in Thread : Committed(u)' <=> Committed(u),
         \A u \in Thread : Committed(u) => args'[u] = args[u] /\ location'[u] = location[u],
         \A i \in Slot : \/ items'[i] = items[i]
                         \/ \E u \in Thread : /\ Committed(u)
                                              /\ items[i].key = args[u].key
                                              /\ items'[i].key = args[u].key
  PROVE  Store' = Store
<1>1. ASSUME NEW k \in UserKey PROVE Stored(k)' = Stored(k)
  <2>1. CASE Writes(k)
    <3>1. PICK u \in Thread : Committed(u) /\ args[u].key = k
      BY <2>1 DEF Writes
    <3>2. Stored(k) = Read(location[u]) /\ Stored(k)' = Read(location[u])'
      BY <3>1 DEF StoredFacts
    <3>3. location[u] \in Location /\ InFile(location[u]) /\ location'[u] = location[u]
      BY <3>1 DEF Committed, StoreInv, IInv, TypeOK, DataInv, PlaceInv, Holds
    <3>4. SubSeq(files'[location[u].file_no + 1], location[u].offset + 1,
                 location[u].offset + location[u].len) = Read(location[u])
      BY <3>3, GrownHolds DEF StoreInv, IInv
    <3> QED BY <3>2, <3>3, <3>4 DEF Read
  <2>2. CASE ~Writes(k)
    <3>1. ~Writes(k)'
      BY <2>2 DEF Writes
    <3>2. \A i \in Slot : items[i].key = k \/ items'[i].key = k => items'[i] = items[i]
      BY <2>2 DEF Writes
    <3>3. CASE \E i \in Used : items[i].key = k
      <4>1. PICK i \in Used : items[i].key = k
        BY <3>3
      <4>2. i \in Slot /\ items'[i] = items[i] /\ i \in Used'
        BY <3>2, <4>1 DEF Used
      <4>3. /\ Stored(k) = Read(items[i].location) /\ InFile(items[i].location)
            /\ Stored(k)' = Read(items[i].location)'
        BY <2>2, <3>1, <4>1, <4>2 DEF StoredFacts
      <4>4. items[i].location \in Location
        BY <4>2 DEF StoreInv, IInv, TypeOK, Item
      <4>5. SubSeq(files'[items[i].location.file_no + 1], items[i].location.offset + 1,
                   items[i].location.offset + items[i].location.len) = Read(items[i].location)
        BY <4>3, <4>4, GrownHolds DEF StoreInv, IInv
      <4> QED BY <4>2, <4>3, <4>5 DEF Read
    <3>4. CASE \A i \in Used : items[i].key # k
      <4>1. \A i \in Used' : items'[i].key # k
        BY <3>2, <3>4 DEF Used
      <4> QED BY <2>2, <3>1, <3>4, <4>1 DEF StoredFacts
    <3> QED BY <3>3, <3>4
  <2> QED BY <2>1, <2>2
<1> QED BY <1>1 DEF Store

Implements == [KV!Next \/ \E t \in Thread : Fails(t)]_<<Store, Pending>>

\* Opening, closing and dying.
LEMMA ProcessImplements ==
  ASSUME Undisturbed, StoreInv, StoreInv', StoredFacts, StoredFacts', NEW p \in Process,
         Load(p) \/ Locks(p) \/ LockFails(p) \/ Close(p) \/ Kill(p)
  PROVE  Implements
<1>1. files' = files /\ items' = items
  BY DEF Load, Locks, LockFails, Close, Kill, disk
<1>2. Grown(files, files')
  BY <1>1, SameFiles DEF StoreInv, IInv
<1>3. \A u \in Thread : /\ Committed(u)' <=> Committed(u)
                        /\ Committed(u) => args'[u] = args[u] /\ location'[u] = location[u]
  BY DEF Undisturbed, Load, Locks, LockFails, Close, Kill, thread, Committed, AddOrUpdate
<1>4. Store' = Store
  BY <1>1, <1>2, <1>3, StoreSame
<1>5. CASE Load(p) \/ Locks(p) \/ LockFails(p) \/ Close(p)
  <2>1. args' = args /\ pc' = pc
    BY <1>5 DEF Load, Locks, LockFails, Close, thread
  <2>2. Pending' = Pending
    BY <2>1 DEF Pending, Committed
  <2> QED BY <1>4, <2>2 DEF Implements
<1>6. CASE Kill(p)
  <2>1. \A u \in Thread : args'[u] = IF HostOf[u] = p THEN Idle ELSE args[u]
    BY <1>6 DEF Kill
  <2>2. \A u \in Thread : phase[HostOf[u]] # "open" => args[u] = Idle
    BY DEF StoreInv, IInv, CallInv
  <2>3. CASE phase[p] = "open"
    <3>1. \A u \in Thread : HostOf[u] # p => phase[HostOf[u]] # "open"
      BY <2>3, ExampleAssumption DEF StoreInv, IInv, CallInv
    <3>2. \A u \in Thread : args'[u] = Idle
      BY <2>1, <2>2, <3>1
    <3>3. Pending' = [u \in Thread |-> Idle]
      BY <3>2 DEF Pending
    <3>4. KV!Crash
      BY <1>4, <3>3 DEF KV!Crash, KV!Idle, Idle
    <3> QED BY <3>4 DEF Implements, KV!Next
  <2>4. CASE phase[p] # "open"
    <3>1. \A u \in Thread : args'[u] = args[u]
      BY <2>1, <2>2, <2>4
    <3>2. Pending' = Pending
      BY <1>3, <3>1 DEF Pending
    <3> QED BY <1>4, <3>2 DEF Implements
  <2> QED BY <2>3, <2>4
<1> QED BY <1>5, <1>6

LEMMA CallImplements ==
  ASSUME StoreInv, StoreInv', StoredFacts, StoredFacts', NEW t \in Thread,
         NEW k \in UserKey, NEW v \in Value, Call(t, k, v)
  PROVE  Implements
<1>1. /\ files' = files /\ items' = items /\ location' = location
      /\ pc[t] = "idle" /\ pc' = [pc EXCEPT ![t] = "lock"]
      /\ args' = [args EXCEPT ![t] = [key |-> k, val |-> v]]
      /\ args[t] = Idle
  BY DEF Call, disk, StoreInv, IInv, CallInv
<1>2. Grown(files, files')
  BY <1>1, SameFiles DEF StoreInv, IInv
<1>3. \A u \in Thread : /\ Committed(u)' <=> Committed(u)
                        /\ Committed(u) => args'[u] = args[u] /\ location'[u] = location[u]
  BY <1>1 DEF Committed, AddOrUpdate, StoreInv, IInv, TypeOK
<1>4. Store' = Store
  BY <1>1, <1>2, <1>3, StoreSame
<1>5. ~Committed(t)
  BY <1>1 DEF Committed, AddOrUpdate
<1>6. Pending[t] = KV!Idle
  BY <1>1, <1>5 DEF Pending, Idle, KV!Idle
<1>7. Pending' = [Pending EXCEPT ![t] = [key |-> k, val |-> v]]
  <2>1. \A u \in Thread : Pending'[u] = IF u = t THEN [key |-> k, val |-> v] ELSE Pending[u]
    BY <1>1, <1>3, <1>5 DEF Pending, StoreInv, IInv, TypeOK
  <2> QED BY <2>1 DEF Pending
<1>8. KV!Call(t, k, v)
  BY <1>4, <1>6, <1>7 DEF KV!Call
<1> QED BY <1>8 DEF Implements, KV!Next

\* An append, whole or in parts, never shows.
LEMMA AppendImplements ==
  ASSUME StoreInv, StoreInv', StoredFacts, StoredFacts', NEW t \in Thread,
         Enter(t) \/ FileAppend(t) \/ Appended(t)
  PROVE  Implements
<1>1. /\ items' = items /\ args' = args
      /\ \A u \in Thread \ {t} : pc'[u] = pc[u] /\ location'[u] = location[u]
      /\ pc[t] \notin AddOrUpdate /\ pc'[t] \notin AddOrUpdate
  BY DEF Enter, FileAppend, Appended, disk, engine, AddOrUpdate, StoreInv, IInv, TypeOK
<1>2. Grown(files, files')
  <2>1. CASE Enter(t)
    <3>1. CASE files' = files
      BY <3>1, SameFiles DEF StoreInv, IInv
    <3>2. CASE files' = Append(files, <<>>)
      <4>1. /\ Len(files) \in Nat /\ Len(files') = Len(files) + 1
            /\ \A f \in 1..Len(files) : files'[f] = files[f]
        BY <3>2, EmptySeq, AppendProperties DEF StoreInv, IInv, TypeOK
      <4>2. \A f \in 1..Len(files) : Len(files[f]) \in Nat
        <5>1. \A f \in 1..Len(files) : files[f] \in Seq(Byte)
          BY ElementOfSeq DEF StoreInv, IInv, TypeOK
        <5> QED BY <5>1
      <4> QED BY <4>1, <4>2 DEF Grown
    <3> QED BY <2>1, <3>1, <3>2 DEF Enter
  <2>2. CASE FileAppend(t)
    BY <2>2, AppendEffect DEF StoreInv, DataInv
  <2>3. CASE Appended(t)
    <3>1. files' = files
      BY <2>3 DEF Appended, disk
    <3> QED BY <3>1, SameFiles DEF StoreInv, IInv
  <2> QED BY <2>1, <2>2, <2>3
<1>3. \A u \in Thread : /\ Committed(u)' <=> Committed(u)
                        /\ Committed(u) => args'[u] = args[u] /\ location'[u] = location[u]
  BY <1>1 DEF Committed
<1>4. Store' = Store
  BY <1>1, <1>2, <1>3, StoreSame
<1>5. Pending' = Pending
  BY <1>1, <1>3 DEF Pending
<1> QED BY <1>4, <1>5 DEF Implements

\* A Write that returns an error leaves the store as it was.
LEMMA FailImplements ==
  ASSUME StoreInv, StoreInv', StoredFacts, StoredFacts', NEW t \in Thread,
         AppendFails(t) \/ Rejected(t)
  PROVE  Implements
<1>1. /\ items' = items /\ files' = files /\ pc[t] \in {"append", "place"}
      /\ pc' = [pc EXCEPT ![t] = "idle"] /\ args' = [args EXCEPT ![t] = Idle]
      /\ location' = [location EXCEPT ![t] = ZeroLocation] /\ args[t] # Idle
  BY DEF AppendFails, Rejected, Return, disk, StoreInv, IInv, CallInv
<1>2. Grown(files, files')
  BY <1>1, SameFiles DEF StoreInv, IInv
<1>3. ~Committed(t)
  BY <1>1 DEF Committed, AddOrUpdate
<1>4. \A u \in Thread : /\ Committed(u)' <=> Committed(u)
                        /\ Committed(u) => args'[u] = args[u] /\ location'[u] = location[u]
  BY <1>1, <1>3 DEF Committed, AddOrUpdate, StoreInv, IInv, TypeOK
<1>5. Store' = Store
  BY <1>1, <1>2, <1>4, StoreSame
<1>6. Pending[t] # KV!Idle
  BY <1>1, <1>3 DEF Pending, Idle, KV!Idle
<1>7. Pending' = [Pending EXCEPT ![t] = KV!Idle]
  <2>1. \A u \in Thread : Pending'[u] = IF u = t THEN Idle ELSE Pending[u]
    BY <1>1, <1>3, <1>4 DEF Pending, StoreInv, IInv, TypeOK
  <2> QED BY <2>1 DEF Pending, Idle, KV!Idle
<1>8. KV!Fail(t)
  BY <1>5, <1>6, <1>7 DEF KV!Fail
<1> QED BY <1>8 DEF Implements, Fails

\* Once a slot is found, the Write has taken effect.
LEMMA PlaceImplements ==
  ASSUME StoreInv, StoreInv', StoredFacts, StoredFacts', NEW t \in Thread, Place(t)
  PROVE  Implements
<1> DEFINE k == args[t].key  v == args[t].val  i == IndexIn(items, k)
<1>1. /\ pc[t] = "place" /\ files' = files /\ args' = args /\ location' = location
      /\ pc'[t] \in {"use", "locate"} /\ \A u \in Thread \ {t} : pc'[u] = pc[u]
  BY DEF Place, engine, StoreInv, IInv, TypeOK
<1>2. k \in UserKey /\ args[t] = [key |-> k, val |-> v] /\ args[t] # Idle
  BY <1>1, InsideHasWrite DEF StoreInv, IInv, CallInv
<1>3. \A u \in Thread : ~Committed(u) /\ (Committed(u)' <=> u = t)
  <2>1. \A u \in Thread \ {t} : pc[u] \in {"idle", "lock"}
    BY <1>1, OthersOutside DEF StoreInv
  <2> QED BY <1>1, <2>1 DEF Committed, AddOrUpdate
<1>4. ASSUME NEW key \in UserKey, key = k PROVE Stored(key)' = v
  <2>1. Stored(key)' = Read(location[t])'
    BY <1>1, <1>3, <1>4 DEF StoredFacts
  <2>2. Read(location[t]) = v
    BY <1>1 DEF StoreInv, DataInv, PlaceInv, Holds
  <2> QED BY <1>1, <2>1, <2>2 DEF Read
<1>5. ASSUME NEW key \in UserKey, key # k PROVE Stored(key)' = Stored(key)
  <2>1. ~Writes(key) /\ ~Writes(key)'
    BY <1>1, <1>3, <1>5 DEF Writes
  <2>2. \A j \in Slot : /\ j \in Used' <=> j \in Used
                        /\ j \in Used => items'[j].key = items[j].key
                        /\ items'[j].location = items[j].location
    BY PlaceEffect DEF Used, StoreInv
  <2>3. CASE \E j \in Used : items[j].key = key
    <3>1. PICK j \in Used : items[j].key = key
      BY <2>3
    <3>2. j \in Used' /\ items'[j].key = key /\ items'[j].location = items[j].location
      BY <2>2, <3>1 DEF Used
    <3>3. Stored(key) = Read(items[j].location) /\ Stored(key)' = Read(items[j].location)'
      BY <2>1, <3>1, <3>2 DEF StoredFacts
    <3> QED BY <1>1, <3>2, <3>3 DEF Read
  <2>4. CASE \A j \in Used : items[j].key # key
    <3>1. \A j \in Used' : items'[j].key # key
      BY <2>2, <2>4 DEF Used
    <3> QED BY <2>1, <2>4, <3>1 DEF StoredFacts
  <2> QED BY <2>3, <2>4
<1>6. Pending[t] = args[t] /\ Pending[t] # KV!Idle
  BY <1>2, <1>3 DEF Pending, Idle, KV!Idle
<1>7. Store' = [Store EXCEPT ![Pending[t].key] = Pending[t].val]
  <2>1. \A key \in UserKey : Stored(key)' = IF key = k THEN v ELSE Stored(key)
    BY <1>4, <1>5
  <2>2. Pending[t].key = k /\ Pending[t].val = v
    BY <1>6
  <2>3. Store' = [key \in UserKey |-> IF key = k THEN v ELSE Store[key]]
    BY <2>1 DEF Store
  <2> QED BY <1>2, <2>2, <2>3 DEF Store
<1>8. Pending' = [Pending EXCEPT ![t] = KV!Idle]
  <2>1. \A u \in Thread : Pending'[u] = IF u = t THEN Idle ELSE Pending[u]
    BY <1>1, <1>3 DEF Pending
  <2> QED BY <2>1 DEF Pending, Idle, KV!Idle
<1>9. KV!Commit(t)
  BY <1>6, <1>7, <1>8 DEF KV!Commit
<1> QED BY <1>9 DEF Implements, KV!Next

\* What is left of AddOrUpdate changes nothing that a caller sees.
LEMMA LocateImplements ==
  ASSUME StoreInv, StoreInv', StoredFacts, StoredFacts', NEW t \in Thread,
         Use(t) \/ Locate(t)
  PROVE  Implements
<1> DEFINE k == args[t].key  i == IndexIn(items, k)
<1>1. /\ files' = files /\ args' = args /\ location' = location
      /\ pc[t] \in AddOrUpdate /\ pc'[t] \in AddOrUpdate
      /\ \A u \in Thread \ {t} : pc'[u] = pc[u]
  BY DEF Use, Locate, engine, AddOrUpdate, StoreInv, IInv, TypeOK
<1>2. Grown(files, files')
  BY <1>1, SameFiles DEF StoreInv, IInv
<1>3. \A u \in Thread : Committed(u)' <=> Committed(u)
  BY <1>1 DEF Committed
<1>4. items[i].key = k /\ items'[i].key = k /\ \A j \in Slot \ {i} : items'[j] = items[j]
  <2>1. CASE Use(t)
    BY <2>1, UseEffect DEF StoreInv
  <2>2. CASE Locate(t)
    BY <2>2, LocateEffect DEF StoreInv
  <2> QED BY <2>1, <2>2
<1>5. Store' = Store
  BY <1>1, <1>2, <1>3, <1>4, StoreSame DEF Committed
<1>6. Pending' = Pending
  BY <1>1, <1>3 DEF Pending
<1> QED BY <1>5, <1>6 DEF Implements

\* A Write returns and leaves its value to its item.
LEMMA ReturnImplements ==
  ASSUME StoreInv, StoreInv', StoredFacts, StoredFacts', NEW t \in Thread, LocateLen(t)
  PROVE  Implements
<1> DEFINE k == args[t].key  i == IndexIn(items, k)  l == location[t]
<1>1. /\ pc[t] = "len" /\ files' = files /\ pc' = [pc EXCEPT ![t] = "idle"]
      /\ args' = [args EXCEPT ![t] = Idle]
  BY DEF LocateLen, Return
<1>2. /\ k \in UserKey /\ i \in Slot /\ items[i].key = k /\ items'[i].key = k
      /\ items'[i].in_use = 1 /\ items[i].in_use = 1
      /\ items'[i].location = [items[i].location EXCEPT !.len = l.len]
      /\ \A j \in Slot \ {i} : items'[j] = items[j]
  BY LocateEffect DEF StoreInv
<1>3. \A u \in Thread : ~Committed(u)' /\ (Committed(u) <=> u = t)
  <2>1. \A u \in Thread \ {t} : pc[u] \in {"idle", "lock"}
    BY <1>1, OthersOutside DEF StoreInv
  <2> QED BY <1>1, <2>1 DEF Committed, AddOrUpdate, StoreInv, IInv, TypeOK
<1>4. /\ items'[i].location.file_no = l.file_no /\ items'[i].location.offset = l.offset
      /\ items'[i].location.len = l.len
  <2> DEFINE m == items[i].location
  <2>1. m \in Location /\ m.file_no = l.file_no /\ m.offset = l.offset
    BY <1>1, <1>2 DEF StoreInv, DataInv, PlaceInv, IInv, TypeOK, Item
  <2>2. /\ [m EXCEPT !.len = l.len].file_no = m.file_no
        /\ [m EXCEPT !.len = l.len].offset = m.offset
        /\ [m EXCEPT !.len = l.len].len = l.len
    BY <2>1 DEF Location
  <2> QED BY <1>2, <2>1, <2>2
<1>5. PICK j \in Slot : j = i
  BY <1>2
<1>6. ASSUME NEW key \in UserKey PROVE Stored(key)' = Stored(key)
  <2>1. ~Writes(key)'
    BY <1>3 DEF Writes
  <2>2. CASE key = k
    <3>1. Stored(key) = Read(l)
      BY <2>2, <1>3 DEF StoredFacts
    <3>2. j \in Used' /\ items'[j].key = key
      BY <2>2, <1>2, <1>5 DEF Used
    <3>3. Stored(key)' = Read(items[j].location)'
      BY <2>1, <3>2 DEF StoredFacts
    <3> QED BY <1>1, <1>4, <1>5, <3>1, <3>3 DEF Read
  <2>3. CASE key # k
    <3>1. ~Writes(key)
      BY <2>3, <1>3 DEF Writes
    <3>2. \A m \in Slot : items[m].key = key \/ items'[m].key = key => items'[m] = items[m]
      BY <2>3, <1>2
    <3>3. CASE \E m \in Used : items[m].key = key
      <4>1. PICK m \in Used : items[m].key = key
        BY <3>3
      <4>2. m \in Used' /\ items'[m] = items[m]
        BY <3>2, <4>1 DEF Used
      <4>3. Stored(key) = Read(items[m].location) /\ Stored(key)' = Read(items[m].location)'
        BY <2>1, <3>1, <4>1, <4>2 DEF StoredFacts
      <4> QED BY <1>1, <4>2, <4>3 DEF Read
    <3>4. CASE \A m \in Used : items[m].key # key
      <4>1. \A m \in Used' : items'[m].key # key
        BY <3>2, <3>4 DEF Used
      <4> QED BY <2>1, <3>1, <3>4, <4>1 DEF StoredFacts
    <3> QED BY <3>3, <3>4
  <2> QED BY <2>2, <2>3
<1>7. Store' = Store
  BY <1>6 DEF Store
<1>8. Pending' = Pending
  <2>1. \A u \in Thread : Pending'[u] = Pending[u]
    BY <1>1, <1>3 DEF Pending, StoreInv, IInv, TypeOK
  <2> QED BY <2>1 DEF Pending
<1> QED BY <1>7, <1>8 DEF Implements

LEMMA StoreInit == Init => KV!Init
<1> SUFFICES ASSUME Init PROVE KV!Init
  OBVIOUS
<1>1. \A u \in Thread : Pending[u] = KV!Idle
  BY DEF Init, Pending, Committed, AddOrUpdate, Idle, KV!Idle
<1>2. ASSUME NEW k \in UserKey PROVE Stored(k) = NoValue
  <2>1. StoredFacts
    <3>1. StoreInv
      BY TypeInit, CallInit, TableInit, FreeInit, DataInit DEF StoreInv, IInv
    <3> QED BY <3>1, StoredIs
  <2>2. ~Writes(k) /\ Used = {}
    BY DEF Init, Writes, Committed, AddOrUpdate, Used, FreeItem
  <2> QED BY <2>1, <2>2 DEF StoredFacts
<1> QED BY <1>1, <1>2 DEF KV!Init, Store, Pending

LEMMA StepImplements ==
  ASSUME Undisturbed
  PROVE  StoreInv /\ StoreInv' /\ StoredFacts /\ StoredFacts' /\ [Next]_vars => Implements
<1> SUFFICES ASSUME StoreInv, StoreInv', StoredFacts, StoredFacts', [Next]_vars
             PROVE  Implements
  OBVIOUS
<1>1. CASE \E p \in Process : Load(p) \/ Locks(p) \/ LockFails(p) \/ Close(p) \/ Kill(p)
  BY <1>1, ProcessImplements
<1>2. CASE \E t \in Thread : WriteStep(t) \/ \E k \in UserKey, v \in Value : Call(t, k, v)
  BY <1>2, CallImplements, AppendImplements, FailImplements, PlaceImplements,
     LocateImplements, ReturnImplements DEF WriteStep
<1>3. CASE UNCHANGED vars
  <2>1. \A k \in UserKey : Stored(k)' = Stored(k)
    BY <1>3 DEF vars, disk, engine, thread, Stored, Committed, Read, CalcIndex, ItemTryPlace,
                ItemKeyMatch
  <2>2. Store' = Store
    BY <2>1 DEF Store
  <2>3. Pending' = Pending
    BY <1>3 DEF vars, thread, Pending, Committed
  <2> QED BY <2>2, <2>3 DEF Implements
<1> QED BY <1>1, <1>2, <1>3 DEF Next

\* The engine implements the store of engine/include/engine.h:41-47: Write (engine_example.cc:50) takes
\* effect in one step or returns an error and changes nothing, and what it wrote stays
\* through rotations, kills, failing appends and the changes of the process that owns
\* the lock, for any hash function and any number of slots, threads, keys and values.
THEOREM ExampleImplementsKVStore ==
  ASSUME Undisturbed
  PROVE  Spec => ImplementsKVStore
<1>1. Init => KV!Init
  BY StoreInit
<1>2. StoreInv => StoredFacts
  BY StoredIs
<1>3. StoreInv /\ StoreInv' /\ StoredFacts /\ StoredFacts' /\ [Next]_vars => Implements
  BY StepImplements
<1>4. Spec => []StoreInv
  BY StoreInductive
<1> QED BY <1>1, <1>2, <1>3, <1>4, PTL DEF Spec, ImplementsKVStore, Implements

=============================================================================
