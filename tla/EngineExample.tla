--------------------------- MODULE EngineExample ---------------------------
(* The example engine: DoorPlate, a hash table in a mapped file; DataStore, data   *)
(* files that are only appended to; one mutex; a lock file. What is in files and in *)
(* shared mappings outlives a process. One step is what kill -9, or another process, *)
(* can come between.                                                               *)
EXTENDS Integers, FiniteSets, Sequences

CONSTANTS Process, Thread,
          HostOf,       \* the process a thread runs in
          UserKey,      \* keys, of at most kMaxKeyLen bytes, as numbers in the order of
                        \* the strings; 0 is the empty bound
          Byte, Value,  \* values: sequences of bytes
          StrHash,
          kMaxDoorCnt, kSingleFileSize,
          MaxCalls,     \* bound: Writes
          Meeting,      \* scenario: "inside": a kill may hit AddOrUpdate; "stale": a process
                        \* may lock what was written to since it looked; "partial": a write
                        \* may fail after some bytes
          NoProcess, NoThread, NoKey, NoValue

Slot == 0..(kMaxDoorCnt - 1)

ASSUME ExampleAssumption ==
  /\ kMaxDoorCnt \in Nat \ {0}
  /\ kSingleFileSize \in Nat /\ MaxCalls \in Nat
  /\ UserKey \subseteq Nat \ {0} /\ NoKey \notin UserKey
  /\ StrHash \in [UserKey -> Nat]
  /\ HostOf \in [Thread -> Process]
  /\ NoProcess \notin Process /\ NoThread \notin Thread
  /\ \A v \in Value : v \in Seq(Byte) /\ Len(v) <= kSingleFileSize

VARIABLES
  items,          \* the table in META
  files,          \* DATA_0, DATA_1, ...
  next_location,  \* of each process
  phase,          \* of each process: "closed"; Open: "loaded"; "open"
  lock,           \* the process that holds LOCK
  mu,             \* of each process: the thread that holds the mutex
  pc, args, sent, location,  \* of each thread
  calls

disk == <<items, files>>
engine == <<next_location, phase, lock, mu>>
thread == <<pc, args, sent, location, calls>>
vars == <<disk, engine, thread>>

Location == [file_no : Nat, offset : Nat, len : Nat]
ZeroLocation == [file_no |-> 0, offset |-> 0, len |-> 0]
FreeItem == [key |-> NoKey, in_use |-> 0, location |-> ZeroLocation]
Idle == [key |-> NoKey, val |-> NoValue]

----------------------------------------------------------------------------
(* DoorPlate *)

ItemKeyMatch(i, k) == items[i].key = k
ItemTryPlaceFree(i, k) == items[i].in_use = 0  \* mutant: takes no slot that holds the key
ItemTryPlace(i, k) == items[i].in_use = 0 \/ ItemKeyMatch(i, k)

\* the slot that is tried after d others
Probe(k, d) == (StrHash[k] + d) % kMaxDoorCnt

\* -1: every slot holds another key
CalcIndex(k) ==
  LET fit == {d \in Slot : ItemTryPlace(Probe(k, d), k)}
  IN  IF fit = {} THEN -1 ELSE Probe(k, CHOOSE d \in fit : \A e \in fit : d <= e)

Find(k) == CalcIndex(k) # -1 /\ ItemKeyMatch(CalcIndex(k), k)

\* mutant: the upper bound belongs to the range
GetRangeLocationClosed(lower, upper) ==
  {i \in Slot : /\ items[i].in_use = 1
                /\ items[i].key >= lower \/ lower = 0
                /\ items[i].key <= upper \/ upper = 0}

\* the keys between the bounds; 0 is the empty string, which bounds nothing
GetRangeLocation(lower, upper) ==
  {i \in Slot : /\ items[i].in_use = 1
                /\ items[i].key >= lower \/ lower = 0
                /\ items[i].key < upper \/ upper = 0}

(* DataStore *)

InFile(l) == l.file_no < Len(files) /\ l.offset + l.len <= Len(files[l.file_no + 1])
Read(l) == SubSeq(files[l.file_no + 1], l.offset + 1, l.offset + l.len)

\* mutants: a file is written from its start; the length is that of DATA_0
EndOfDataZero == [file_no |-> Len(files) - 1, offset |-> 0, len |-> 0]
EndOfDataFirst == [file_no |-> Len(files) - 1, offset |-> Len(files[1]), len |-> 0]

\* Init: the end of the file with the highest number
EndOfData == [file_no |-> Len(files) - 1, offset |-> Len(files[Len(files)]), len |-> 0]

----------------------------------------------------------------------------
Init ==
  /\ items = [i \in Slot |-> FreeItem]
  /\ files = << <<>> >>
  /\ next_location = [p \in Process |-> ZeroLocation]
  /\ phase = [p \in Process |-> "closed"]
  /\ lock = NoProcess
  /\ mu = [p \in Process |-> NoThread]
  /\ pc = [t \in Thread |-> "idle"]
  /\ args = [t \in Thread |-> Idle]
  /\ sent = [t \in Thread |-> 0]
  /\ location = [t \in Thread |-> ZeroLocation]
  /\ calls = 0

\* Open, before the lock: plate_.Init maps META, store_.Init looks for the end of the data
Load(p) ==
  /\ phase[p] = "closed"
  /\ phase' = [phase EXCEPT ![p] = "loaded"]
  /\ next_location' = [next_location EXCEPT ![p] = EndOfData]
  /\ UNCHANGED <<disk, lock, mu, thread>>

Locks(p) ==
  /\ phase[p] = "loaded"
  /\ lock = NoProcess
  /\ "stale" \in Meeting \/ next_location[p] = EndOfData
  /\ lock' = p
  /\ phase' = [phase EXCEPT ![p] = "open"]
  /\ UNCHANGED <<disk, next_location, mu, thread>>

\* the engine is deleted
Gone(p) == /\ phase' = [phase EXCEPT ![p] = "closed"]
           /\ next_location' = [next_location EXCEPT ![p] = ZeroLocation]

LockFails(p) ==
  /\ phase[p] = "loaded"
  /\ lock # NoProcess
  /\ Gone(p)
  /\ UNCHANGED <<disk, lock, mu, thread>>

Close(p) ==
  /\ phase[p] = "open"
  /\ \A t \in Thread : HostOf[t] = p => pc[t] = "idle"
  /\ lock' = NoProcess
  /\ Gone(p)
  /\ UNCHANGED <<disk, mu, thread>>

----------------------------------------------------------------------------
(* Write *)

Call(t, k, v) ==
  /\ phase[HostOf[t]] = "open"
  /\ pc[t] = "idle"
  /\ calls < MaxCalls
  /\ calls' = calls + 1
  /\ pc' = [pc EXCEPT ![t] = "lock"]
  /\ args' = [args EXCEPT ![t] = [key |-> k, val |-> v]]
  /\ UNCHANGED <<disk, engine, sent, location>>

Overflows(l, n) == l.offset + n > kSingleFileSize

\* the mutex; then Append goes over to the next file if the value does not fit
Enter(t) ==
  LET p == HostOf[t]  l == next_location[p]  next == l.file_no + 1 IN
  /\ pc[t] = "lock"
  /\ mu[p] = NoThread
  /\ mu' = [mu EXCEPT ![p] = t]
  /\ IF Overflows(l, Len(args[t].val))
     THEN /\ next_location' = [next_location EXCEPT ![p] =
                                 [ZeroLocation EXCEPT !.file_no = next]]
          /\ files' = IF next = Len(files) THEN Append(files, <<>>) ELSE files
     ELSE UNCHANGED <<next_location, files>>
  /\ pc' = [pc EXCEPT ![t] = "append"]
  /\ UNCHANGED <<items, phase, lock, args, sent, location, calls>>

\* one write() of FileAppend: O_APPEND puts the bytes at the end of the file
FileAppend(t) ==
  LET f == next_location[HostOf[t]].file_no + 1  v == args[t].val IN
  /\ pc[t] = "append"
  /\ \E n \in (sent[t] + 1)..Len(v) :
       /\ files' = [files EXCEPT ![f] = @ \o SubSeq(v, sent[t] + 1, n)]
       /\ sent' = [sent EXCEPT ![t] = n]
  /\ UNCHANGED <<items, engine, pc, args, location, calls>>

\* mutant: a way out that does not unlock
ReturnLocked(t) ==
  /\ pc' = [pc EXCEPT ![t] = "idle"]
  /\ args' = [args EXCEPT ![t] = Idle]
  /\ sent' = [sent EXCEPT ![t] = 0]
  /\ location' = [location EXCEPT ![t] = ZeroLocation]
  /\ mu' = mu

\* unlock and return
Return(t) ==
  /\ pc' = [pc EXCEPT ![t] = "idle"]
  /\ args' = [args EXCEPT ![t] = Idle]
  /\ sent' = [sent EXCEPT ![t] = 0]
  /\ location' = [location EXCEPT ![t] = ZeroLocation]
  /\ mu' = [mu EXCEPT ![HostOf[t]] = NoThread]

\* write() fails
AppendFails(t) ==
  /\ pc[t] = "append"
  /\ sent[t] < Len(args[t].val)
  /\ "partial" \in Meeting \/ sent[t] = 0
  /\ Return(t)
  /\ UNCHANGED <<disk, next_location, phase, lock, calls>>

\* the end of Append, in memory
Appended(t) ==
  LET p == HostOf[t]  n == Len(args[t].val) IN
  /\ pc[t] = "append"
  /\ sent[t] = n
  /\ location' = [location EXCEPT ![t] = [next_location[p] EXCEPT !.len = n]]
  /\ next_location' = [next_location EXCEPT ![p].offset = @ + n]
  /\ pc' = [pc EXCEPT ![t] = "place"]
  /\ UNCHANGED <<disk, phase, lock, mu, args, sent, calls>>

\* AddOrUpdate finds no slot: kFull; the appended bytes stay
Rejected(t) ==
  /\ pc[t] = "place"
  /\ CalcIndex(args[t].key) = -1
  /\ Return(t)
  /\ UNCHANGED <<disk, next_location, phase, lock, calls>>

KeepHash(i, k) == [items[i] EXCEPT !.key = StrHash[k]]  \* mutant: keeps the hash
Keep(i, k) == [items[i] EXCEPT !.key = k]

\* the key of a new item; a copy that a kill cuts off has size 0 and matches nothing
Place(t) ==
  LET k == args[t].key  i == CalcIndex(k) IN
  /\ pc[t] = "place"
  /\ i # -1
  /\ IF items[i].in_use = 0
     THEN items' = [items EXCEPT ![i] = Keep(i, k)] /\ pc' = [pc EXCEPT ![t] = "use"]
     ELSE items' = items /\ pc' = [pc EXCEPT ![t] = "locate"]
  /\ UNCHANGED <<files, engine, args, sent, location, calls>>

Use(t) ==
  /\ pc[t] = "use"
  /\ items' = [items EXCEPT ![CalcIndex(args[t].key)].in_use = 1]
  /\ pc' = [pc EXCEPT ![t] = "locate"]
  /\ UNCHANGED <<files, engine, args, sent, location, calls>>

\* location = l is a copy of twelve bytes, which takes two stores
Locate(t) ==
  /\ pc[t] = "locate"
  /\ items' = [items EXCEPT ![CalcIndex(args[t].key)].location =
                 [location[t] EXCEPT !.len = items[CalcIndex(args[t].key)].location.len]]
  /\ pc' = [pc EXCEPT ![t] = "len"]
  /\ UNCHANGED <<files, engine, args, sent, location, calls>>

LocateLen(t) ==
  /\ pc[t] = "len"
  /\ items' = [items EXCEPT ![CalcIndex(args[t].key)].location.len = location[t].len]
  /\ Return(t)
  /\ UNCHANGED <<files, next_location, phase, lock, calls>>

----------------------------------------------------------------------------
\* the steps within AddOrUpdate at which something has changed already
AddOrUpdate == {"use", "locate", "len"}

Kill(p) ==
  LET mine == {t \in Thread : HostOf[t] = p} IN
  /\ phase[p] # "closed"
  /\ "inside" \in Meeting \/ \A t \in mine : pc[t] \notin AddOrUpdate
  /\ Gone(p)
  /\ lock' = IF lock = p THEN NoProcess ELSE lock
  /\ mu' = [mu EXCEPT ![p] = NoThread]
  /\ pc' = [t \in Thread |-> IF t \in mine THEN "idle" ELSE pc[t]]
  /\ args' = [t \in Thread |-> IF t \in mine THEN Idle ELSE args[t]]
  /\ sent' = [t \in Thread |-> IF t \in mine THEN 0 ELSE sent[t]]
  /\ location' = [t \in Thread |-> IF t \in mine THEN ZeroLocation ELSE location[t]]
  /\ UNCHANGED <<disk, calls>>

WriteStep(t) == \/ Enter(t) \/ FileAppend(t) \/ AppendFails(t) \/ Appended(t)
                \/ Rejected(t) \/ Place(t) \/ Use(t) \/ Locate(t) \/ LocateLen(t)

Next ==
  \/ \E p \in Process : Load(p) \/ Locks(p) \/ LockFails(p) \/ Close(p) \/ Kill(p)
  \/ \E t \in Thread : WriteStep(t) \/ \E k \in UserKey, v \in Value : Call(t, k, v)

Fairness == \A t \in Thread : WF_vars(WriteStep(t))
Spec == Init /\ [][Next]_vars /\ Fairness
=============================================================================
