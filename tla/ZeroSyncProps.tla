--------------------------- MODULE ZeroSyncProps ---------------------------
(* What synchronisation should guarantee. *)
EXTENDS ZeroSync

\* What is created is renamed in a change set to any name.
Name == Seq(Piece)
ChangeSet == [newFiles : SUBSET Name, deleteFiles : SUBSET Path, newDirs : SUBSET Name,
              deleteDirs : SUBSET Path, renameDirs : SUBSET (Path \X Path)]

\* Types of all variables. The copy of each machine is a tree, whatever meets: what is in a
\* directory is never left without it, by a merged change set, by calls of which some fail, or
\* by conflicts (FileOperation.cpp, DriveServerAgent.cpp:355-422, DriveClientAgent.cpp:178-215).
TypeOK ==
  /\ DOMAIN tree = Machine /\ \A m \in Machine : IsTree(tree[m])
  /\ IsTree(want)
  /\ queue \in [Machine -> Seq(Op)]
  /\ journal \in Seq(Seq(Op))
  /\ last_sync \in [Client -> 0..server_stamp]
  /\ at \in [Client -> {"idle", "all", "patch", "stamp", "drain", "push", "stage", "reply",
                        "stuck", "offline"}]
  /\ bag \in [Client -> ChangeSet]
  /\ ops \in 0..MaxOps /\ faults \in 0..MaxFaults

Online(c) == last_sync[c] > 0 /\ at[c] # "offline"

\* the paths about which something is recorded that c has not got, or the server not from c
OnTheWay(c) ==
  BagPaths(bag[c]) \cup UNION {PathsOf(o) : o \in ToSet(queue[c]) \cup ToSet(queue[Server])
                                                    \cup Unseen(c)}

\* A stamp covers what its client has: where a client differs from the server there is a
\* record on its way that says so, in the client's queue or a push, in the server's queue or
\* a journal above last_sync, or in the patch that is being transferred (DriveServerAgent
\* .cpp:250-353, DriveClientAgent.cpp:217-293). Otherwise nothing will ever repair it.
DifferencesOnTheWay ==
  \A c \in Client : Online(c) =>
    \A p \in Path : tree[c][p] # tree[Server][p] => ({p} \cup Above[p]) \cap OnTheWay(c) # {}

\* A part of the invariant of the proofs, of updates that take turns: the stamp that a client
\* takes covers what it was sent and what it has pushed (DriveServerAgent.cpp:269-289, 349,
\* DriveClientAgent.cpp:285). The patch holds all journals that are not covered yet; a push begins
\* when the client has all there is, staged or not; and until the answer one journal is staged
\* at most, with what the push has recorded.
StampsCover ==
  \A c \in Client :
    /\ at[c] = "patch" => bag[c] = Merge(FlattenSeq(SubSeq(journal, last_sync[c], Len(journal))))
    /\ at[c] \in {"drain", "push"} => last_sync[c] = server_stamp /\ queue[Server] = <<>>
    /\ at[c] \in {"stage", "reply"} =>
         \/ last_sync[c] = server_stamp
         \/ last_sync[c] + 1 = server_stamp /\ queue[Server] = <<>>

\* nothing is recorded that is not everywhere
Quiet == /\ \A m \in Machine : queue[m] = <<>>
         /\ \A c \in Client : Online(c) /\ bag[c] = NoChanges /\ last_sync[c] = server_stamp

\* When all is transferred, every machine has the tree that the operations of all users, done
\* one after the other in one place, would have led to: merging, transferring by sets of
\* paths and the echo of what is applied lose nothing and bring nothing back to life
\* (DriveServerAgent.cpp:216-353, DriveClientAgent.cpp:178-293).
Converged == Quiet => \A m \in Machine : tree[m] = want

\* The thread that uploads changes ends when they are stored, as the design document says: no
\* client and server wait for each other within an update. They do when the
\* sender has no file for a name of the change set (NetworkAgent.cpp:331-335, 339-345), which
\* the comparison of names without a slash brings about (zerodrive_common.h:52-55).
NotStuck == \A c \in Client : at[c] # "stuck"

\* When users stop, synchronisation comes to rest: every change reaches every machine that
\* stays connected, and the echo of an applied change does not go round for ever.
ComesToRest ==
  <>[]( /\ tree[Server] = want
        /\ \A m \in Machine : queue[m] = <<>>
        /\ \A c \in Client : at[c] # "offline" =>
             tree[c] = want /\ bag[c] = NoChanges /\ last_sync[c] = server_stamp)
=============================================================================
