-------------------------- MODULE MCEngineExample --------------------------
(* A small instance of EngineExample for TLC. *)
EXTENDS EngineExampleProps

CONSTANTS p1, p2, t1, t2

Hosts == [t \in Thread |-> p1]

\* 1 and 2 start at the last slot, the others at the first
Hashes == [k \in UserKey |-> IF k \in {1, 2} THEN 3 ELSE 4]

Bytes == {"a", "b", "c"}
OneOrTwoBytes == {<<"a">>, <<"b", "c">>}
=============================================================================
