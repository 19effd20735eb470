------------------------- MODULE StageChangesProps -------------------------
(* What staging must guarantee to the clients that pull by stamp. *)
EXTENDS StageChanges

\* Types of all variables (SharedQueue.h:32, DriveServerAgent.h:18-30).
TypeOK ==
  /\ queue \in Seq(Change)
  /\ journal \in [Stamp -> Seq(Entry) \cup {NoFile}]
  /\ server_stamp \in 0..MaxClock
  /\ pc \in [Stager -> {"idle", "apply", "check", "stamp", "open", "loop", "front", "copy",
                        "pop", "close", "set"}]
  /\ new_stamp \in [Stager -> 0..MaxClock]
  /\ ref \in [Stager -> Entry]
  /\ r \in [Stager -> Entry]
  /\ buf \in [Stager -> Seq(Entry)]
  /\ pos \in [Stager -> Nat]
  /\ clock \in Stamp
  /\ rest \in [Stager -> 0..MaxClock]
  /\ phase \in {"down", "list", "assign", "up"}
  /\ since \in 0..MaxClock /\ latest \in 0..MaxClock
  /\ kills \in 0..MaxKills
  /\ posted \subseteq Entry
  /\ told \in 0..MaxClock

\* what a client that is up to date knows of
Published == {n \in Journals : n <= told}

\* A journal file does not change any more once a client can hold its stamp or a later one:
\* handlePull (DriveServerAgent.cpp:270-278) never sends it to that client again.
PublishedFrozen == [][\A n \in Stamp : n <= told => journal'[n] = journal[n]]_vars

\* While the server runs, server_stamp is the highest stamp that any client can hold, also
\* after a restart (DriveServerAgent.cpp:33-35, 455): it never goes back.
StampForward == phase = "up" => server_stamp = told

\* A change that is in the queue when a pass of stageChanges begins is published in the end,
\* unless the server dies (DriveServerAgent.cpp:439-456).
PassPublishes ==
  \A s \in Stager, c \in Change :
    (pc[s] = "check" /\ c \in Range(queue)) ~>
      ((\E n \in Published : c \in Range(journal[n])) \/ phase = "down")

\* What is not published: the file that is being written or that a crash has left (the last, if
\* there were several), the buffer of the thread that writes it, the queue. A record that is copied
\* and not popped is still in the queue.
Unpublished == Journals \ Published
Written == IF Unpublished = {} THEN <<>> ELSE journal[Max(Unpublished)]
Buffered == IF \E s \in Stager : buf[s] # <<>> THEN buf[CHOOSE s \in Stager : buf[s] # <<>>] ELSE <<>>

Feed == INSTANCE ChangeFeed WITH
  feed <- [n \in Stamp |-> IF n \in Published THEN journal[n] ELSE <<>>],
  upto <- told,
  pending <- Written \o Buffered \o queue

\* The journal is a feed of changes by stamp in the sense of ChangeFeed: each change once, in
\* order, under stamps that grow, and frozen once published (stageChanges with the server's
\* constructor, DriveServerAgent.cpp:33-35, 439-460).
ImplementsChangeFeed == Feed!Spec
=============================================================================
