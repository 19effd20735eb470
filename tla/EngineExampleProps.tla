------------------------- MODULE EngineExampleProps -------------------------
(* What EngineExample should guarantee, and the abstract store it implements. *)
EXTENDS EngineExample

Item == [key : UserKey \cup {NoKey}, in_use : {0, 1}, location : Location]

TypeOK ==
  /\ items \in [Slot -> Item]
  /\ files \in Seq(Seq(Byte)) /\ files # <<>>
  /\ next_location \in [Process -> Location]
  /\ phase \in [Process -> {"closed", "loaded", "open"}]
  /\ lock \in Process \cup {NoProcess}
  /\ mu \in [Process -> Thread \cup {NoThread}]
  /\ pc \in [Thread -> {"idle", "lock", "append", "place", "use", "locate", "len"}]
  /\ args \in [Thread -> [key : UserKey, val : Value] \cup {Idle}]
  /\ sent \in [Thread -> Nat]
  /\ location \in [Thread -> Location]
  /\ calls \in 0..MaxCalls

\* no Write is in AddOrUpdate
Settled == \A t \in Thread : pc[t] \notin AddOrUpdate
Used == {i \in Slot : items[i].in_use = 1}

\* Linear probing finds every item that is in the table: no free slot and no other
\* copy of the key lies between where the probe starts and the item. Items are never
\* removed, and a new one goes to the first free slot that Find will look at.
TableIsReachable ==
  \A i \in Used : CalcIndex(items[i].key) = i

\* every location in the table lies within its file, so that the loop in Read ends (at
\* the end of the file read() returns 0 for ever)
ReadEnds == Settled => \A i \in Used : InFile(items[i].location)

(* The store a caller sees through Read. Once Place is done nothing but a kill can    *)
(* stop the Write, and the mutex keeps readers out until it has returned.           *)
Committed(t) == pc[t] \in AddOrUpdate
Stored(k) ==
  IF \E t \in Thread : Committed(t) /\ args[t].key = k
  THEN Read(location[CHOOSE t \in Thread : Committed(t) /\ args[t].key = k])
  ELSE LET i == CalcIndex(k) IN
       IF i # -1 /\ ItemKeyMatch(i, k) THEN Read(items[i].location) ELSE NoValue

Store == [k \in UserKey |-> Stored(k)]
Pending == [t \in Thread |-> IF Committed(t) THEN Idle ELSE args[t]]
KV == INSTANCE KVStore WITH store <- Store, pending <- Pending

\* the steps that return kIOError or kFull
Fails(t) == (AppendFails(t) \/ Rejected(t)) /\ KV!Fail(t)

\* Every step is one of the store that engine.h promises, or a Write that returns an
\* error and has changed nothing: appended bytes that no item points to, a rotation, a
\* kill in the middle of an append and a later Open never show in what Read returns.
ImplementsKVStore ==
  KV!Init /\ [][KV!Next \/ \E t \in Thread : Fails(t)]_<<Store, Pending>>

\* Range, which scans the table, visits exactly the keys between the bounds that Read,
\* which probes it, finds, and each of them once.
RangeAgrees ==
  LET known == {k \in UserKey : Find(k)} IN
  Settled =>
    \A lower, upper \in UserKey \cup {0} :
      LET hit == GetRangeLocation(lower, upper) IN
      /\ {items[i].key : i \in hit} = {k \in known : /\ lower = 0 \/ k >= lower
                                                     /\ upper = 0 \/ k < upper}
      /\ \A i, j \in hit : items[i].key = items[j].key => i = j

\* A Write that waits for the mutex gets it and returns, whatever becomes of the Writes
\* before it: each way out of Write unlocks, and so does the death of the process.
WriteReturns == \A t \in Thread : pc[t] = "lock" ~> pc[t] = "idle"
=============================================================================
