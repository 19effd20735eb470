---------------------------- MODULE MCZeroSync ----------------------------
(* Small instances of ZeroSync for TLC. *)
EXTENDS ZeroSyncProps

CONSTANTS c1, c2, old, new

Slashes == {"/a", "/b", "/f"}
TwoDirs == << <<"/a">>, <<"/a", "/f">>, <<"/b">>, <<"/b", "/f">> >>
\* a file whose name begins like that of a directory, and has another piece
DirsAndFile == << <<"/a">>, <<"/a", "/f">>, <<"/a", "b">>, <<"/b">>, <<"/b", "/f">> >>

Nothing == [p \in Path |-> None]
OneFile == [p \in Path |-> CASE p = <<"/a">> -> Dir [] p = <<"/a", "/f">> -> old [] OTHER -> None]
Calm == {}
Unstaged == {"unstaged"}
Mixing == {"mix"}
=============================================================================
