------------------------------ MODULE KVStore ------------------------------
(* What a key-value engine promises its callers (engine.h): a Write takes effect  *)
(* in one step between its call and its return, and stays; a crash may drop the   *)
(* Writes that have not returned, as a whole, and nothing else.                   *)
CONSTANTS Thread, UserKey, Value, NoKey, NoValue
VARIABLES store,     \* the value of every key, NoValue if it was never written
          pending    \* the Write that each thread is in

Idle == [key |-> NoKey, val |-> NoValue]

Init == /\ store = [k \in UserKey |-> NoValue]
        /\ pending = [t \in Thread |-> Idle]

Call(t, k, v) == /\ pending[t] = Idle
                 /\ pending' = [pending EXCEPT ![t] = [key |-> k, val |-> v]]
                 /\ UNCHANGED store

Commit(t) == /\ pending[t] # Idle
             /\ store' = [store EXCEPT ![pending[t].key] = pending[t].val]
             /\ pending' = [pending EXCEPT ![t] = Idle]

\* a Write that returns an error; only for engines that say when theirs do
Fail(t) == /\ pending[t] # Idle
           /\ pending' = [pending EXCEPT ![t] = Idle]
           /\ UNCHANGED store

Crash == pending' = [t \in Thread |-> Idle] /\ UNCHANGED store

Next == \/ \E t \in Thread : Commit(t) \/ \E k \in UserKey, v \in Value : Call(t, k, v)
        \/ Crash

Spec == Init /\ [][Next]_<<store, pending>>
=============================================================================
