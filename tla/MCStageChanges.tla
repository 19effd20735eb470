-------------------------- MODULE MCStageChanges --------------------------
(* Small instances of StageChanges for TLC. *)
EXTENDS StageChangesProps

\* scenarios: the threads stage one after the other, or while another one is at work
Apart == {}
AtWork == {"work"}
=============================================================================
