----------------------------- MODULE ChangeFeed -----------------------------
(* What staging promises the clients: changes are published in the order in which *)
(* they were added, under stamps that grow; what is published under a stamp never *)
(* changes. A client that has seen everything up to a stamp only needs what is    *)
(* published above it. A crash may drop the latest unpublished changes.           *)
EXTENDS Naturals, Sequences

CONSTANTS Change, Stamp

VARIABLES feed,      \* what is published under each stamp
          upto,      \* everything up to this stamp is published
          pending    \* changes that are not published yet, oldest first

Init == /\ feed = [n \in Stamp |-> <<>>]
        /\ upto = 0
        /\ pending = <<>>

Add(c) == pending' = Append(pending, c) /\ UNCHANGED <<feed, upto>>

\* publishes the k oldest changes, or only moves the stamp
Publish(n, k) == /\ n > upto
                 /\ feed' = [feed EXCEPT ![n] = SubSeq(pending, 1, k)]
                 /\ upto' = n
                 /\ pending' = SubSeq(pending, k + 1, Len(pending))

Crash(k) == pending' = SubSeq(pending, 1, k) /\ UNCHANGED <<feed, upto>>

Next == \/ \E c \in Change : Add(c)
        \/ \E k \in 0..Len(pending) : Crash(k) \/ \E n \in Stamp : Publish(n, k)

Spec == Init /\ [][Next]_<<feed, upto, pending>>
=============================================================================
