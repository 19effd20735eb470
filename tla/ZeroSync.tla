------------------------------ MODULE ZeroSync ------------------------------
(* The synchronisation of ZeroDrive: a server and clients that keep copies of one   *)
(* directory tree. Every machine records the operations its own user completes; a   *)
(* client pulls what the server has journaled since last_sync, merged to sets of     *)
(* paths, and pushes what it has recorded, merged the same way. Staging is one step  *)
(* here (StageChanges has it in detail); so is what the receiver of a change set     *)
(* does with it.                                                                   *)
EXTENDS Naturals, Sequences, FiniteSets, SequencesExt

CONSTANTS Client, Server,
          Paths,        \* all paths, in the order of the strings; a path is a sequence of pieces
          Sub,          \* the pieces that begin with a slash
          Content, Empty,   \* what files hold; what a new file holds
          Dir, None,    \* a node of the tree that is a directory, that is not there
          ServerTree,   \* what the server holds at the beginning
          MaxOps,       \* bound: operations of users
          MaxFaults,    \* bound: restarts of programs that are up
          Meeting       \* scenario, a set of "race", "unstaged", "conflict", "mix",
                        \* "fault" (see MayDo)

Machine == Client \cup {Server}
Path == ToSet(Paths)
Piece == UNION {ToSet(Paths[i]) : i \in DOMAIN Paths}

ASSUME SyncAssumption ==
  /\ Server \notin Client
  /\ Empty \in Content /\ Dir \notin Content /\ None \notin Content /\ Dir # None
  /\ MaxOps \in Nat /\ MaxFaults \in Nat

\* a path that is cut off before a slash is a path, that of a directory
ASSUME PathsAssumption ==
  /\ Paths \in Seq(Seq(Piece))
  /\ \A p \in Path : p # <<>> /\ \A n \in 1..(Len(p) - 1) : p[n + 1] \in Sub => SubSeq(p, 1, n) \in Path

VARIABLES
  tree,       \* the data directory of each machine
  queue,      \* recorded operations: the server's unstagedChanges, a client's dirtyChanges
  journal,    \* the server's journal files, oldest first
  last_sync,  \* of each client; 0: it has just started
  at,         \* where the update of each client stands, with the server's side of it
  bag,        \* the change set that is on its way between a client and the server
  want,       \* history: the tree after all operations of all users
  ops, faults

vars == <<tree, queue, journal, last_sync, at, bag, want, ops, faults>>

\* Stamps are time stamps in the code; here they count the journal files.
server_stamp == Len(journal) + 1

----------------------------------------------------------------------------
(* FileOperation: the system calls on the data directory *)

\* q and what lies below it
Under == [q \in Path |-> {p \in Path : IsPrefix(q, p) /\ (p # q => p[Len(q) + 1] \in Sub)}]
Above == [p \in Path |-> {q \in Path \ {p} : p \in Under[q]}]
Children(t, d) == {p \in Under[d] \ {d} : t[p] # None}
ParentIsDir(t, p) == \A d \in Above[p] : t[d] = Dir
IsTree(t) == /\ t \in [Path -> Content \cup {Dir, None}]
             /\ \A p \in Path : t[p] # None => ParentIsDir(t, p)
ASSUME TreeAssumption == IsTree(ServerTree)

IsFile(t, p) == p \in Path /\ t[p] \in Content
MovedTo(p, from, to) == to \o SubSeq(p, Len(from) + 1, Len(p))

Op == [type : {"CREATE", "WRITE_DONE", "UNLINK", "MKDIR", "RMDIR"}, path : Path, to : {<<>>}]
        \cup [type : {"RENAME", "RENAME_DIR"}, path : Path, to : Path]

\* whether the call on tree t succeeds
Succeeds(t, o) ==
  /\ o.type \in {"CREATE", "MKDIR"} => t[o.path] = None /\ ParentIsDir(t, o.path)
  /\ o.type \in {"WRITE_DONE", "UNLINK", "RENAME"} => IsFile(t, o.path)
  /\ o.type \in {"RMDIR", "RENAME_DIR"} => t[o.path] = Dir
  /\ o.type = "RMDIR" => Children(t, o.path) = {}
  /\ o.type = "RENAME" => ParentIsDir(t, o.to) /\ t[o.to] # Dir /\ o.to # o.path
  /\ o.type = "RENAME_DIR" => /\ ParentIsDir(t, o.to) /\ o.to \notin Under[o.path]
                              /\ t[o.to] \in {Dir, None} /\ Children(t, o.to) = {}
                              \* bound: nothing is moved to a path that is not in Paths
                              /\ \A p \in Children(t, o.path) : MovedTo(p, o.path, o.to) \in Path

\* the tree after a call that has succeeded; what is written is v
Effect(t, o, v) ==
  CASE o.type \in {"CREATE", "WRITE_DONE"} -> [t EXCEPT ![o.path] = v]
    [] o.type = "MKDIR" -> [t EXCEPT ![o.path] = Dir]
    [] o.type \in {"UNLINK", "RMDIR"} -> [t EXCEPT ![o.path] = None]
    [] OTHER -> [p \in Path |->
         LET q == MovedTo(p, o.to, o.path) IN
         IF p \in Under[o.to] THEN IF q \in Path THEN t[q] ELSE None
         ELSE IF p \in Under[o.path] THEN None ELSE t[p]]

----------------------------------------------------------------------------
(* The merge of recorded operations to a change set, on both sides the same *)

NoChanges == [newFiles |-> {}, deleteFiles |-> {}, newDirs |-> {}, deleteDirs |-> {},
              renameDirs |-> {}]

\* what a set of paths becomes when a directory is renamed; isPrefix compares strings (and
\* stops at the terminating NUL of the shorter). The loop rewrites a path at a time of a copy of
\* the set; the result differs only where a new name is an old one that is itself rewritten.
Rebase(S, from, to) == {IF IsPrefix(from, p) THEN MovedTo(p, from, to) ELSE p : p \in S}

FileNew(b, p) == [b EXCEPT !.newFiles = @ \cup {p}, !.deleteFiles = @ \ {p}]
FileGone(b, p) == [b EXCEPT !.newFiles = @ \ {p}, !.deleteFiles = @ \cup {p}]
DirNew(b, p) == [b EXCEPT !.newDirs = @ \cup {p}, !.deleteDirs = @ \ {p}]
DirGoneKept(b, p) == [b EXCEPT !.deleteDirs = @ \cup {p}]  \* mutant: is made all the same
DirGone(b, p) == [b EXCEPT !.newDirs = @ \ {p}, !.deleteDirs = @ \cup {p}]
DirMoved(b, from, to) == [b EXCEPT !.renameDirs = @ \cup {<<from, to>>},
                                   !.newFiles = Rebase(@, from, to),
                                   !.newDirs = Rebase(@, from, to)]

MergeOne(b, o) ==
  CASE o.type \in {"CREATE", "WRITE_DONE"} -> FileNew(b, o.path)
    [] o.type = "RENAME" -> FileGone(FileNew(b, o.to), o.path)
    [] o.type = "UNLINK" -> FileGone(b, o.path)
    [] o.type = "MKDIR" -> DirNew(b, o.path)
    [] o.type = "RMDIR" -> DirGone(b, o.path)
    [] o.type = "RENAME_DIR" -> DirMoved(b, o.path, o.to)

Merge(records) == FoldLeft(MergeOne, NoChanges, records)

(* handleUpdate of the receiver, with tree t: deletes directories, then files; makes       *)
(* directories, parents first; downloads; renames directories. A call that fails is passed  *)
(* over.                                                                                *)

\* rmdir, with parents first: only what is empty to begin with goes
Removes(t, b, p) == p \in b.deleteDirs /\ t[p] = Dir /\ Children(t, p) = {}
Unlinks(t, b, p) == p \in b.deleteFiles /\ IsFile(t, p)
Left(t, b, p) == IF Removes(t, b, p) \/ Unlinks(t, b, p) THEN None ELSE t[p]

Makes(t, b, p) ==
  /\ p \in b.newDirs /\ Left(t, b, p) = None
  /\ \A d \in Above[p] : Left(t, b, d) = Dir \/ (d \in b.newDirs /\ Left(t, b, d) = None)

\* downloadFile renames a temporary file to p
Gets(t, b, p) ==
  /\ p \in b.newFiles /\ Left(t, b, p) # Dir /\ ~Makes(t, b, p)
  /\ \A d \in Above[p] : Left(t, b, d) = Dir \/ Makes(t, b, d)

\* what of s is in S, in its order
Chosen(s, S) == LET upTo[i \in 0..Len(s)] ==
                      IF i = 0 THEN <<>>
                      ELSE IF s[i] \in S THEN Append(upTo[i - 1], s[i]) ELSE upTo[i - 1]
                IN  upTo[Len(s)]

Calls(type, S) == LET s == Chosen(Paths, S)
                  IN  [i \in DOMAIN s |-> [type |-> type, path |-> s[i], to |-> <<>>]]

\* up to the renames: the tree, and the operations that get recorded, fetched being the
\* downloads of which this is done, whatever becomes of them
Updated(sender, t, b, fetched) ==
  [tree |-> [p \in Path |-> IF Gets(t, b, p) THEN sender[p]
                            ELSE IF Makes(t, b, p) THEN Dir ELSE Left(t, b, p)],
   done |-> Calls("RMDIR", {p \in Path : Removes(t, b, p)})
              \o Calls("UNLINK", {p \in Path : Unlinks(t, b, p)})
              \o Calls("MKDIR", {p \in Path : Makes(t, b, p)})
              \o Calls("WRITE_DONE", fetched)]

\* set<pair<string, string>> in its order
Pairs == FlattenSeq([i \in DOMAIN Paths |-> [j \in DOMAIN Paths |-> <<Paths[i], Paths[j]>>]])
RenameCalls(R) == LET s == Chosen(Pairs, R)
                  IN  [i \in DOMAIN s |-> [type |-> "RENAME_DIR", path |-> s[i][1], to |-> s[i][2]]]

\* Rename looks at what it finds under the name
RenameNext(acc, o) ==
  LET call == IF IsFile(acc.tree, o.path) THEN [o EXCEPT !.type = "RENAME"] ELSE o
  IN  IF Succeeds(acc.tree, call)
      THEN [tree |-> Effect(acc.tree, call, Empty), done |-> Append(acc.done, call)] ELSE acc

Received(sender, receiver, b, fetched) ==
  FoldLeft(RenameNext, Updated(sender, receiver, b, fetched), RenameCalls(b.renameDirs))

\* uploadFile sends nothing for a file that is not there, and the receiver waits for it
Sendable(sender, b) == \A p \in b.newFiles : IsFile(sender, p)
Sent(sender, b) == Chosen(Paths, {p \in b.newFiles : IsFile(sender, p)})

\* Files are sent without their names: the first that is there goes to the first name, and so on.
\* The names come in the order of the strings; those that are not in Paths may be anywhere.
Names(b) == {s \in SetToSeqs(b.newFiles) :
               SelectSeq(s, LAMBDA p : p \in Path) = Chosen(Paths, b.newFiles)}
Misnamed(sender, b, names) ==
  LET sent == Sent(sender, b) IN
  [p \in Path |-> IF \E i \in DOMAIN sent : names[i] = p
                  THEN sender[sent[CHOOSE i \in DOMAIN sent : names[i] = p]] ELSE Empty]
\* what is done of a change set when the first n names have a file
UpTo(b, names, n) == [b EXCEPT !.newFiles = {names[i] : i \in 1..n},
                               !.renameDirs = IF n = Len(names) THEN @ ELSE {}]

----------------------------------------------------------------------------
Init ==
  /\ tree = [m \in Machine |-> IF m = Server THEN ServerTree ELSE [p \in Path |-> None]]
  /\ queue = [m \in Machine |-> <<>>]
  /\ journal = <<>>
  /\ last_sync = [c \in Client |-> 0]
  /\ at = [c \in Client |-> "idle"]
  /\ bag = [c \in Client |-> NoChanges]
  /\ want = ServerTree
  /\ ops = 0
  /\ faults = 0

(* Scenarios. "race": a user of the server, another client or the staging thread may act  *)
(* while a client's update is under way. "unstaged": an update may begin while the server *)
(* has recorded something that is not staged. "conflict": an operation may touch a path   *)
(* on which another machine has an operation on its way. "mix": directories may be        *)
(* removed and renamed before what was recorded about them is everywhere. "fault":        *)
(* programs may end at any time, and users go on at a client that has lost its server.   *)

Related(p) == Under[p] \cup Above[p]
PathsOf(o) == {o.path} \cup (IF o.to = <<>> THEN {} ELSE {o.to})
Records(s) == UNION {ToSet(s[i]) : i \in DOMAIN s}
Unseen(c) == IF last_sync[c] = 0 THEN {} ELSE Records(SubSeq(journal, last_sync[c], Len(journal)))
BagPaths(b) == b.newFiles \cup b.deleteFiles \cup b.newDirs \cup b.deleteDirs
                 \cup UNION {{r[1], r[2]} : r \in b.renameDirs}

\* the paths of operations of other machines that m does not have yet
Foreign(m) ==
  IF m \in Client /\ last_sync[m] = 0 THEN Path
  ELSE (UNION {UNION {PathsOf(o) : o \in ToSet(queue[n])} : n \in Machine \ {m}})
         \cup (UNION {BagPaths(bag[c]) : c \in Client \ {m}})
         \cup (IF m = Server THEN {} ELSE UNION {PathsOf(o) : o \in Unseen(m)})

Pending == (UNION {ToSet(queue[m]) : m \in Machine}) \cup (UNION {Unseen(c) : c \in Client})
PendingPaths == (UNION {PathsOf(o) : o \in Pending}) \cup (UNION {BagPaths(bag[c]) : c \in Client})
PendingRenames == {o.path : o \in {x \in Pending : x.type = "RENAME_DIR"}}
                    \cup {o.to : o \in {x \in Pending : x.type = "RENAME_DIR"}}
                    \cup UNION {{r[1], r[2]} : r \in UNION {bag[c].renameDirs : c \in Client}}

\* no other machine has anything at p
OnlyAt(m, p) == \A n \in Machine \ {m} : tree[n][p] = None

Orderly(m, o) ==
  /\ \A p \in PathsOf(o), r \in PendingRenames : r \notin Related(p) /\ ~IsPrefix(r, p)
  /\ o.type = "RMDIR" => \A n \in Machine : Children(tree[n], o.path) = {}
  /\ o.type = "RENAME_DIR" =>
       \A q \in PendingPaths :
         /\ IsPrefix(o.path, q) => q \in Under[o.path] /\ OnlyAt(m, o.path)
         /\ ~IsPrefix(o.to, q)

\* nothing is removed that a client, which starts, would bring back to life
Forgotten(o) ==
  o.type \in {"UNLINK", "RMDIR", "RENAME", "RENAME_DIR"} =>
    \A c \in Client : last_sync[c] = 0 => tree[c][o.path] = None

Busy(c) == at[c] \notin {"idle", "offline"}

MayDo(m, o) ==
  /\ "race" \in Meeting \/ IF m = Server THEN \A c \in Client : ~Busy(c) ELSE at[m] # "push"
  /\ "conflict" \in Meeting \/ \A p \in PathsOf(o) : Related(p) \cap Foreign(m) = {}
  /\ "mix" \in Meeting \/ Orderly(m, o)
  /\ "fault" \in Meeting \/ (Forgotten(o) /\ (m \in Client => at[m] # "offline"))

\* An operation of a user of machine m, as op.cpp forwards it to the agent.
UserOp(m, o, v) ==
  /\ ops < MaxOps
  /\ Succeeds(tree[m], o)
  /\ IF o.type = "WRITE_DONE" THEN v # tree[m][o.path] ELSE v = Empty
  /\ MayDo(m, o)
  /\ tree' = [tree EXCEPT ![m] = Effect(@, o, v)]
  /\ queue' = [queue EXCEPT ![m] = Append(@, o)]
  /\ want' = IF Succeeds(want, o) THEN Effect(want, o, v) ELSE want
  /\ ops' = ops + 1
  /\ UNCHANGED <<journal, last_sync, at, bag, faults>>

\* BackgroundTask::stageChanges
StageChanges ==
  /\ queue[Server] # <<>>
  /\ "race" \in Meeting \/ \A c \in Client : at[c] \notin {"all", "patch", "stamp"}
  /\ journal' = Append(journal, queue[Server])
  /\ queue' = [queue EXCEPT ![Server] = <<>>]
  /\ UNCHANGED <<tree, last_sync, at, bag, want, ops, faults>>

----------------------------------------------------------------------------
(* BackgroundUpdater::update of client c *)

Goto(c, l) == at' = [at EXCEPT ![c] = l]

MayPull(c) == /\ "unstaged" \in Meeting \/ queue[Server] = <<>>
              /\ "race" \in Meeting \/ \A d \in Client : ~Busy(d)

\* mutant: passes over the first journal
DiffAbove(c) == SubSeq(journal, last_sync[c] + 1, Len(journal))
\* the journals with a higher stamp
Diff(c) == SubSeq(journal, last_sync[c], Len(journal))

\* PULL: handlePull answers UP_TO_DATE, DOWNLOAD_ALL, or PATCH with what the journals have
Pull(c) ==
  /\ at[c] = "idle"
  /\ MayPull(c)
  /\ IF last_sync[c] = server_stamp THEN Goto(c, "drain") /\ bag' = bag
     ELSE IF last_sync[c] = 0 THEN Goto(c, "all") /\ bag' = bag
     ELSE /\ Goto(c, "patch")
          /\ bag' = [bag EXCEPT ![c] = Merge(FlattenSeq(Diff(c)))]
  /\ UNCHANGED <<tree, queue, journal, last_sync, want, ops, faults>>

\* sendAllData: makes and downloads what the server has, and deletes nothing
DownloadAll(c) ==
  LET all(kind) == {p \in Path : tree[Server][p] \in kind} IN
  /\ at[c] = "all"
  /\ tree' = [tree EXCEPT ![c] =
       Received(tree[Server], @, [NoChanges EXCEPT !.newDirs = all({Dir}),
                                                   !.newFiles = all(Content)], {}).tree]
  /\ Goto(c, "stamp")
  /\ UNCHANGED <<queue, journal, last_sync, bag, want, ops, faults>>

\* Client::handleUpdate goes through the agent's own operations, which record what they do,
\* but not what it downloads. It waits for good when the server lacks a file; half of the stamp
\* may then pass for the size, negative, of one more file.
Patch(c) ==
  LET s == tree[Server]
      b == bag[c]
      Takes(r) == /\ tree' = [tree EXCEPT ![c] = r.tree]
                  /\ queue' = [queue EXCEPT ![c] = @ \o r.done]
  IN
  /\ at[c] = "patch"
  /\ \/ /\ Sendable(s, b)
        /\ Takes(Received(s, tree[c], b, {}))
        /\ bag' = [bag EXCEPT ![c] = NoChanges]
        /\ Goto(c, "stamp")
     \/ /\ ~Sendable(s, b)
        /\ \E names \in Names(b), more \in {0, 1} :
             Takes(Received(Misnamed(s, b, names), tree[c],
                            UpTo(b, names, Len(Sent(s, b)) + more), {}))
        /\ bag' = bag
        /\ Goto(c, "stuck")
  /\ UNCHANGED <<journal, last_sync, want, ops, faults>>

\* mutant: the stamp is not kept
StampForgotten(c) ==
  /\ at[c] = "stamp"
  /\ Goto(c, "drain")
  /\ UNCHANGED <<tree, queue, journal, last_sync, bag, want, ops, faults>>

\* the server sends server_stamp when it has sent the changes
Stamp(c) ==
  /\ at[c] = "stamp"
  /\ last_sync' = [last_sync EXCEPT ![c] = server_stamp]
  /\ Goto(c, "drain")
  /\ UNCHANGED <<tree, queue, journal, bag, want, ops, faults>>

\* dirtyChanges is taken out of the queue and merged; a client that has lost its server
\* pushes it to nobody
Drain(c) ==
  /\ at[c] \in {"drain", "offline"}
  /\ at[c] = "offline" => queue[c] # <<>>
  /\ bag' = [bag EXCEPT ![c] = IF at[c] = "offline" THEN NoChanges ELSE Merge(queue[c])]
  /\ queue' = [queue EXCEPT ![c] = <<>>]
  /\ Goto(c, IF at[c] = "offline" THEN "offline"
             ELSE IF bag'[c] = NoChanges THEN "idle" ELSE "push")
  /\ UNCHANGED <<tree, journal, last_sync, want, ops, faults>>

\* PUSH: Server::handleUpdate applies and records, downloads too
Push(c) ==
  LET s == tree[c]
      b == bag[c]
      Takes(r) == /\ tree' = [tree EXCEPT ![Server] = r.tree]
                  /\ queue' = [queue EXCEPT ![Server] = @ \o r.done]
  IN
  /\ at[c] = "push"
  /\ \/ /\ Sendable(s, b)
        /\ Takes(Received(s, tree[Server], b, b.newFiles))
        /\ bag' = [bag EXCEPT ![c] = NoChanges]
        /\ Goto(c, "stage")
     \/ /\ ~Sendable(s, b)
        /\ \E names \in Names(b) :
             LET some == UpTo(b, names, Len(Sent(s, b)))
             IN  Takes(Received(Misnamed(s, b, names), tree[Server], some, some.newFiles))
        /\ bag' = bag
        /\ Goto(c, "stuck")
  /\ UNCHANGED <<journal, last_sync, want, ops, faults>>

\* handleUpdate stages what is recorded, if anything is ...
PushStages(c) ==
  /\ at[c] = "stage"
  /\ journal' = IF queue[Server] = <<>> THEN journal ELSE Append(journal, queue[Server])
  /\ queue' = [queue EXCEPT ![Server] = <<>>]
  /\ Goto(c, "reply")
  /\ UNCHANGED <<tree, last_sync, bag, want, ops, faults>>

\* mutant: the stamp of the next journal
PushDoneNext(c) ==
  /\ at[c] = "reply"
  /\ last_sync' = [last_sync EXCEPT ![c] = server_stamp + 1]
  /\ Goto(c, "idle")
  /\ UNCHANGED <<tree, queue, journal, bag, want, ops, faults>>

\* ... and answers with server_stamp
PushDone(c) ==
  /\ at[c] = "reply"
  /\ last_sync' = [last_sync EXCEPT ![c] = server_stamp]
  /\ Goto(c, "idle")
  /\ UNCHANGED <<tree, queue, journal, bag, want, ops, faults>>

----------------------------------------------------------------------------
\* what c has, the server has and will have, perhaps with another content
Compatible(c) ==
  \A t \in {tree[Server], want}, p \in Path :
    \/ tree[c][p] \in {None, t[p]}
    \/ IsFile(tree[c], p) /\ IsFile(t, p)

\* The client program ends at any point of its update and is started again.
Restart(c) ==
  /\ at[c] # "offline" => faults < MaxFaults
  /\ "fault" \in Meeting \/ (at[c] \in {"idle", "offline"} /\ queue[c] = <<>> /\ Compatible(c))
  /\ faults' = IF at[c] = "offline" THEN faults ELSE faults + 1
  /\ last_sync' = [last_sync EXCEPT ![c] = 0]
  /\ queue' = [queue EXCEPT ![c] = <<>>]
  /\ bag' = [bag EXCEPT ![c] = NoChanges]
  /\ Goto(c, "idle")
  /\ UNCHANGED <<tree, journal, want, ops>>

\* The server ends and is started again: what it has not staged is forgotten, and no client
\* connects again while it runs. What a client then takes for last_sync is of no account.
ServerRestart ==
  /\ faults < MaxFaults
  /\ "fault" \in Meeting \/ 
       /\ \A m \in Machine : queue[m] = <<>>
       /\ \A c \in Client : ~Busy(c) /\ Compatible(c)
  /\ faults' = faults + 1
  /\ queue' = [queue EXCEPT ![Server] = <<>>]
  /\ at' = [c \in Client |-> "offline"]
  /\ bag' = [c \in Client |-> NoChanges]
  /\ last_sync' = [c \in Client |-> 0]
  /\ UNCHANGED <<tree, journal, want, ops>>

Update(c) ==
  \/ Pull(c) \/ DownloadAll(c) \/ Patch(c) \/ Stamp(c) \/ Drain(c)
  \/ Push(c) \/ PushStages(c) \/ PushDone(c)

Next ==
  \/ \E m \in Machine, o \in Op, v \in Content : UserOp(m, o, v)
  \/ StageChanges \/ ServerRestart
  \/ \E c \in Client : Update(c) \/ Restart(c)

\* The background threads go on; nobody need use or restart anything.
Fairness == WF_vars(StageChanges) /\ \A c \in Client : SF_vars(Update(c))

Spec == Init /\ [][Next]_vars /\ Fairness
=============================================================================
