---------------------------- MODULE MCEngineRace ----------------------------
(* Small instances of EngineRace for TLC. *)
EXTENDS EngineRaceProps

CONSTANTS k1, k2, empty, v1, v2, vEmpty

\* all keys in one bucket
OneBucket == [k \in UserKey |-> 1]

TextKeys == [k \in Key |-> k]

\* a key copied in part is read back as "" or, k1 being a prefix of k2, as k1
TornEmpty == [k \in UserKey |-> {EmptyKey}]
TornPrefix == [k \in UserKey |-> IF k = k2 THEN {EmptyKey, k1} ELSE {EmptyKey}]

Lengths == [v \in Value |-> CASE v = v1 -> 1 [] v = v2 -> 2 [] OTHER -> 0]
TextValues == [v \in Value |-> v]

\* where kill -9 may hit
KillAnywhere == (1..MaxSession) \X {"opening", "torn", "running", "closing"}
KillNowhere == {}
KillRunning == {<<1, "running">>}
KillTwice == {<<1, "running">>, <<2, "running">>}
KillClosing == {<<1, "closing">>}
=============================================================================
