# Formal models of disk-tech-assignment

The repository holds two storage systems: a key-value engine
(`src/kv_engine/engine`) and ZeroDrive, a file system that synchronises
directories between computers (`src/fuse_fs/zerodrive`). This directory holds
TLA+ models of them, the TLC configurations that check the models on small
instances, and TLAPS proofs.

## Inventory

| Component | State | Operations | What is hard |
|---|---|---|---|
| EngineRace (`engine_race`) | 8 buckets: a mutex, a hash map key -> location, `nextLoc`, a data file, `index_i`, `index_i.tmp` mapped into memory | Open (load or merge), Write, Read, destructor (save) | threads; kill -9 at any step; files that are cut off; failing calls; an uninitialised offset |
| EngineExample (`engine_example`) | `DoorPlate`, a hash table in a mapped file; `DataStore`, data files that rotate; one mutex; a lock file | Open, Write, Read, Range | order of Open and lock; a crash within AddOrUpdate; rotation |
| Change queue and staging (`SharedQueue.h`, `DriveServerAgent.cpp:424-464`) | queue of changes, journal files, `server_stamp` | addJournal, stageChanges by several threads | size, front and pop_front lock one at a time |
| Synchronisation (`DriveClientAgent.cpp`, `DriveServerAgent.cpp`) | `last_sync`, `dirtyChanges` per client; journals and `server_stamp` on the server | update, pull, push, handlePull, handleUpdate | time stamps that cover what was not sent; lost connections; order in which changes are applied |
| Wire protocol (`NetworkAgent.cpp`) | one socket per client, a temporary file per path | upload, download, push, pull | partial reads, files that change or cannot be opened while they are sent |
| FUSE entry points (`zerodrive.cpp`, `op.cpp`, `DriveAgent.cpp`) | none | forward each call to an agent | none of its own |
| FileOperation, helpers | the directory tree | system calls | paths |

How they interact: callers call an `Engine` from several threads; the engine
shares nothing but its files with the next process that opens them. In ZeroDrive
FUSE threads put changes into a queue; a background thread per client pulls from
the server and pushes the queue; the server runs one thread per connection and
one that stages changes to journal files, and these share the queue and
`server_stamp`.

What makes each correct: an engine keeps acknowledged Writes, through crashes;
Reads return the last one; Open comes up. Staging writes each change into one
journal and moves `server_stamp` forward. Synchronisation brings every change to
every client and never passes over one. A merged change set has the effect of the
changes in their order. The two ends of a connection agree on what comes next.

## Plan

1. `KVStore`, `EngineRace`, `EngineRaceProps`, `MCEngineRace`, `EngineRaceProofs`
   (done: below).
2. `ChangeFeed`, `StageChanges`, `StageChangesProps`, `MCStageChanges`, `StageChangesProofs`: the
   queue and its stagers, against one journal entry per change and a stamp that does not go back
   (done: below).
3. `ZeroSync`, `ZeroSyncProps`, `MCZeroSync`: a server and two clients with stamps, the merge
   of recorded operations, pull, push, the order in which a change set is applied, restarts
   (done: below). The merge and the transfer of files are part of it; staging is one step, as
   `StageChanges` shows it may be when stagings do not meet.
4. `EngineExample`, `EngineExampleProps`, `MCEngineExample`, `EngineExampleProofs`: door plate,
   data store, lock file; shown and proved to implement `KVStore` (done: below).

5. Proofs in the same order: `EngineRaceDiskProofs` (the files), `EngineRaceStoreProofs` (the refinement
   of `KVStore`), `StageChangesFeedProofs` (the refinement of `ChangeFeed`), `ZeroSyncProofs` (trees stay
   trees, in every scenario), `ZeroSyncCalmProofs` (differences are on their way, copies converge), done: below.
   Open: the last two with renames of directories.

## Modules

| Module | Contents |
|---|---|
| `KVStore` | What an engine promises (`engine.h`): a Write takes effect in one step between call and return; a crash drops unfinished Writes as a whole and nothing else |
| `EngineRace` | `engine_race.cc` step by step |
| `EngineRaceProps` | its properties, the refinement mapping to `KVStore`, the inductive invariant |
| `MCEngineRace` | small instances |
| `EngineRaceProofs` | lemmas and theorems about memory and the log |
| `EngineRaceDiskProofs` | theorems about what is on disk |
| `EngineRaceStoreProofs` | the refinement of `KVStore` |
| `ChangeFeed` | What staging promises: changes are published in order under stamps that grow, a stamp's changes are frozen; a crash may drop the latest unpublished ones |
| `StageChanges` | the server's queue, `stageChanges`, the choice of `server_stamp` at start, step by step |
| `StageChangesProps` | its properties and the mapping to `ChangeFeed` |
| `MCStageChanges` | small instances |
| `StageChangesProofs` | lemmas and theorems about stamps, files and types |
| `StageChangesFeedProofs` | the refinement of `ChangeFeed` |
| `ZeroSync` | the copies of a directory tree at a server and its clients: users' operations, staging, pull, push, restarts |
| `ZeroSyncProps` | its properties: what is on its way, that copies agree with what users did, that updates end; what stamps cover |
| `MCZeroSync` | small instances |
| `ZeroSyncProofs` | lemmas about merged records, folds and trees; the theorem about types, the invariant about stamps |
| `ZeroSyncCalmProofs` | theorems about what is transferred: `DifferencesOnTheWay`, `Converged` |
| `EngineExample` | `engine_example.cc`, `door_plate.cc`, `data_store.cc` and the lock of `util.cc` step by step |
| `EngineExampleProps` | its properties and the refinement mapping to `KVStore` |
| `MCEngineExample` | a small instance |
| `EngineExampleProofs` | lemmas and theorems, the refinement of `KVStore` among them |

### EngineRace

One step of the model is what kill -9 can separate from the next: a file or
directory operation, or one memcpy into the mapping. Variables:

- `base`, `tmp`, `data`: the files `index_i`, `index_i.tmp`, `data_i` of each
  bucket (`NoFile` where there is none). `tmp` is a sequence of records (key,
  location); `base` a sequence of fields, as the destructor appends size, key and
  location one by one and a crash can stop between them; `data` a sequence of cells,
  `<<v, i>>` being byte i of value v. The size, key and location of a record are
  copied to the mapping one after the other: once the size is there the reader sees
  a record, with a key that is what is already copied (`Torn`) and a location of zeros.
- `index`, `nextOff`, `fdpos`, `mu`: memory of each bucket. `nextOff` starts anywhere
  in `GarbageOffset`, since `nextLoc` is not initialised (`engine_race.h:65`).
  `fdpos` is the file position that Write and Read share.
- `pc`, `op`: what each caller thread is doing.
- `phase`, `cur`, `ostep`, `ret`, `session`: progress of Open and of the destructor
  over the buckets; `todo`, `fld`, `wpos`: progress of a save.
- `acked`, `saved`: history, the last acknowledged value, and the location
  acknowledged in this session.

Actions: `OpenStart`, `OpenNoDirectory`, then per bucket `OpenFresh` /`OpenMakeData`
(no file), `OpenClean` (`index_i` only), `OpenMerge`/`OpenMakeTmp` (`index_i.tmp`
found), `OpenMap`, each with its failing exits: those that delete the engine, which
runs the destructor over all buckets (`DeleteEngine`), and those that leak it
(`Forget`). `WriteIndex`, `WriteData`, `WriteSize`, `WriteKey`, `WriteLoc` are the steps
of Write, `WriteOverflow` the record that does not fit. `ReadSeek`, `ReadFinish` are
a Read that finds its key, `ReadMiss`, `ReadMissed` one that does not and gives the mutex back. `Close`,
`SaveOpen`, `SaveField`, `SaveDone` are the destructor, `SaveOpenFails`, `SaveFieldFails` its calls that
fail without anybody looking: `index_i.tmp` is removed all the same. `Kill` is kill -9: memory is
gone, files and mapping stay. A power failure is not modelled: the report says the
engine does not survive it.

Sessions: `WriteSession` says in which sessions callers write, `KillIn` in which
session and at what point kill -9 may hit ("running" while no Write is within its
record, "torn" while one is, "opening", "closing"), `IOFail` whether system calls fail, `GarbageOffset` what `nextLoc` may happen to be.
They select a scenario; the actions are the same in all. Two simplifications of failing calls: once an
append of a save has failed the later ones of the bucket fail too (a disk that is full stays full), and an
append to `index_i` writes a field or nothing.

### StageChanges

One step is an operation of `SharedQueue` (each locks for itself), an operation on a journal
file, or an access to `server_stamp`, which nothing locks. Variables:

- `queue` is `unstagedChanges`; a change is a record of one completed operation and is added
  once. `journal` is the journal directory: the entries of the file of each stamp.
  `server_stamp` is the member of the agent.
- `pc`, `new_stamp`, `ref`, `r`, `buf`, `pos`: the locals of `stageChanges` in each thread.
  `ref` is what `front` refers to, `r` the copy, `buf` the buffer of the stream, `pos` its
  position in the file. A copy of a record that another thread has removed is the record
  or `Garbage`: the reference dangles.
- `clock`, `rest`: milliseconds; a thread that has staged does not begin again within the
  same one (it sleeps 4 seconds, its client 5).
- `phase`, `latest`, `since`: the constructor, which starts the threads and then sets
  `server_stamp`; `kills`.
- `posted`, `told`: history, the changes added, and the highest stamp that a client can have.

Actions: `Start`, `GetLatestStamp`, `SetServerStamp` are the constructor; `AddJournal` is an
operation of a FUSE thread or one that a push brings; `Wake` is the background thread,
`HandleUpdate`, `HandleUpdateStages` a MessageLoop thread that applies a push and stages;
`Check`, `GetTimestamp`, `OpenFile`, `Loop`, `TakeFront`, `Copy`, `PopFront`, `Flush`,
`CloseFile`, `SetStamp` are `stageChanges`; `Kill` is the end of the server at any step,
clean or not, for nothing stages the queue at shutdown.

`Meeting` selects a scenario: whether a thread may begin while another one stages, in a
millisecond in which another one has staged, or during the constructor.

### ZeroSync

One step is a call of a user, or a part of an update that others can come between: the answer to
PULL, the transfer of a change set with what the receiver does, the sending of the stamp, the
draining of the queue. Variables:

- `tree` is the data directory of each machine, a function from paths to a content, `Dir` or `None`.
  A path is a sequence of pieces, some of which begin with a slash (`Sub`): so that the model has
  both what the file system takes for a subdirectory (`Under`) and what `isPrefix` does
  (`IsPrefix`). `Paths` is in the order of the strings, the order of the `std::set`s.
- `queue`: the server's `unstagedChanges`, a client's `dirtyChanges`. `journal`: what each journal
  file holds. Stamps are times in the code and the number of the journal here; `last_sync` is 0 for a
  client that has just started.
- `at`: where `BackgroundUpdater::update` of each client stands, the server's handler for it
  included ("stuck": a receiver waits for a file that the sender could not open, and the sender
  for an answer; "offline": its server has ended). `bag`: the change set on its way.
- `want`: history, the tree that all operations would have led to in one place.

Actions: `UserOp` is a call that succeeds and that `op.cpp` forwards to an agent, which does and
records it. `StageChanges` is the server's background thread. `Pull`, `DownloadAll`, `Patch`, `Stamp`,
`Drain`, `Push`, `PushStages`, `PushDone` are `update` with `handlePull` and `handleUpdate` on the
other side. `Merge` is the loop that both sides have over the records, `Received` what
`handleUpdate` does: remove directories, unlink files, make directories, download, rename. Calls
that fail are passed over, as in the code. Files are sent without their names (`uploadFile`: a size and
the bytes). If the sender lacks one, the files that follow arrive under the names of those before them
(`Sent`, `Names`, `Misnamed`), until a name is left for which nothing comes: `Patch` and `Push` then apply
what is applied up to there (`UpTo`) and end in "stuck". On both sides what is applied is recorded again
(the echo). `Restart`, `ServerRestart` end a program and start it anew; queues are in memory, journals
and trees on disk.

`Meeting` selects a scenario: "race" (users, other clients and the staging thread act during an
update), "unstaged" (an update begins while the server has something unstaged), "conflict" (two
machines touch related paths at a time), "mix" (directories are removed and renamed before what was
recorded about them is everywhere), "fault" (programs end at any time). A call of a user and its record
(`DriveClientAgent.cpp:55-60`) are one step, and `Gets` moves a file from the temporary directory to its place in
one step that does not fail; in the code the `rename` between two file systems does, and nobody looks. The
definitions from `Related` to `MayDo`, `MayPull` and `Compatible` state these conditions and model no code.

### EngineExample

One step is what kill -9, another thread or another process can come between. Variables:

- `items` is the table in the mapped file META, `files` the files DATA_0, DATA_1, ... Both outlive a
  process. A location is stored with two stores, the length last.
- `next_location`, `phase`, `mu` per process: the end of the data as the process knows it, how far
  Open has come, the mutex. `lock`: the process that holds LOCK.
- `pc`, `args`, `sent`, `location` per thread: Write; `sent` counts the bytes that `FileAppend` has
  written. Every thread belongs to a process (`HostOf`).

Actions: `Load` (map META, find the end of the data), `Locks`/`LockFails`, `Close`; `Call`, `Enter` (the
mutex, the change to the next file), `FileAppend` (one `write`), `AppendFails`, `Appended`, `Rejected`
(table full), `Place`, `Use`, `Locate`, `LocateLen` (`AddOrUpdate`, store by store); `Kill`. Read and Range
change nothing but the mutex, which they take and release: they are the operators `Find`, `Read`, `GetRangeLocation`, which the properties use.
Keys are numbers in the order of the strings, as Range needs it.

`Meeting` selects a scenario: "inside" (a kill hits AddOrUpdate), "stale" (a process locks although
the data have changed since it looked), "partial" (a write fails after some bytes).

## Runs

The runs of `EngineRace` use two threads, two keys of one bucket and the empty key that a torn record
may leave.

| Run | Instance | Checks | Result |
|---|---|---|---|
| `crash` | 2 buckets, 2 sessions with Writes, kill anywhere, all calls may fail, offset 0 or 1, 2 records per mapping | `TypeOK`, `AckedInTmp`, `IndexMatchesTmp`, `NoSharedBytes`, `IndInv` | hold |
| `values` | 2 buckets, Writes of values of length 1 and 2 in session 1, kill -9 or close, two more sessions; offset 0; 3 records | `AckedOnDisk`, `SavedIsIndex`, `OpenSucceeds`, `DiskInv`, `StoreInv`, `ImplementsKVStore`, `ReadReturnsLast`, `OpenReturns`, `LockReleased` | hold |
| `twice` | kill -9 while running in sessions 1 and 2 | `AckedReadable` | violated |
| `garbage` | one bucket, one session, no kill and no failing call, offset 0 or 1 | `ReadReturnsLast` | violated |
| `closing` | kill -9 in the destructor | `OpenSucceeds` | violated |
| `reopen` | no crash, Writes in sessions 1 and 2 | `WriteAppends` | violated |
| `apart` | two stagers, one at a time and in different milliseconds, 2 changes, 1 crash, 4 ms | `TypeOK`, `StampForward`, `PublishedFrozen`, `ImplementsChangeFeed`, `PassPublishes` | hold |
| `overlap` | two stagers at the same time, 2 changes, 3 ms | `PublishedFrozen` | violated |
| `calm` | a server and 2 clients, two directories with a file each, 3 operations of users, 1 restart, updates one after the other | `TypeOK`, `DifferencesOnTheWay`, `Converged`, `ComesToRest` | hold |
| `unstaged` | the same, 2 operations, an update may begin while something is unstaged | `DifferencesOnTheWay` | violated |
| `stuck` | a directory `/a` with a file at the beginning, a path `/ab`, 2 operations, in any order | `NotStuck` | violated |
| `example` | 2 threads of one process and a second process that tries to open, 3 keys with colliding hashes, 2 slots, files of 2 bytes, values of 1 and 2 bytes, 3 Writes, kills | `TypeOK`, `TableIsReachable`, `ReadEnds`, `RangeAgrees`, `ImplementsKVStore`, `WriteReturns` | hold |

What they show:

- `crash`: with kill -9 at every step, with failing calls and with any `nextLoc`, the log of a session is
  complete for what that session acknowledged, the map agrees with it, and keys do not share bytes. The second bucket
  stays empty so that Open and the destructor have a bucket before and a bucket after
  the interesting one at which they can fail or be killed.
- `values`: in the situation for which the report claims consistency (a kill after
  Writes returned, report line 115; Writes into a new directory), and if `nextLoc` happens to be 0 when the
  first session starts, the engine is a key-value store in the sense of `KVStore`, through a merge, a close and two
  re-opens.
- `garbage`: nothing sets `nextLoc`. If it is not 0, the first Write of a fresh store records an offset behind
  its bytes, and the Read after it returns others, as `single_thread_test.cc` would see if its
  memory were not zero.
- `twice`, `closing`, `reopen`: outside the situation of run `values` three more promises of the
  report and of `crash_test.cc` fail. After a merge nothing on disk holds the merged
  index, so that a second crash loses it. A save that is interrupted
  leaves a file that Open rejects for good. The first Write after a re-open goes to
  position 0 of `data_i`. PROJECT.json quotes the lines.

- `apart`: as long as stagings do not meet, the journal is a `ChangeFeed`, through a crash at any
  step and a restart: nothing is lost but what was not yet in a file, nothing comes
  twice, and a client that goes on from its stamp misses nothing. Every pass of
  `stageChanges` publishes what it found in the queue.
- `overlap`: one client that pushes while the background thread stages is enough to break
  `PublishedFrozen`: a file changes under a stamp that clients already hold. Two that meet can also both see
  the last change, and one of them then waits in `front` for the next change of anybody; no run is
  about that wait.

- `calm`: as long as updates do not overlap and nobody steps on what others have on their way,
  sets of paths lose nothing: every machine ends with the tree of all operations, what is removed
  stays removed, files that are created and renamed in one update arrive under their last name, and the
  echo dies out.
- `unstaged`: one change that the server has recorded and not staged is enough: a client that
  pushes something of its own takes the stamp of both and never pulls the first.
- `stuck`: a user makes `/ab` and renames the directory `/a` to `/b` before the next update. `isPrefix` takes
  `/ab` for a name below `/a` (`zerodrive_common.h:52-55`), the push names `/bb`, which is no file, and the client and
  the server's thread wait for each other for good. With "race" in `Meeting` a user who removes a file
  while it is about to be sent does the same, which the design document admits (line 290).
- `example`: the example engine keeps its promise through rotations, failing appends, a full table and
  kills outside AddOrUpdate, and a process that finds the lock taken does no harm.

Seen in the models and in the code, without a run of its own:

- A kill -9 between the copies of key and location (`engine_race.cc:265`, `268`) leaves a record with
  location {0, 0}: after re-open Read returns kSucc and an empty value for that key ("torn" in `KillIn`).
- A user who removes a file and its directory between two updates leaves the directory behind on every
  other machine: the receiver removes directories first (`DriveServerAgent.cpp:223-230`), `rmdir` fails, and
  its result is ignored ("mix" in `Meeting`).
- EngineExample with a second process that locks after the data have changed ("stale"), a kill within
  `AddOrUpdate` ("inside") or an append that is cut short ("partial") is no `KVStore`. Run `example` leaves these out,
  so that it says nothing about them.
- A client whose push breaks off has taken its changes out of the queue, and they are gone ("fault").

Bounds of `EngineRace`. Two threads on one bucket exhibit every race, for a mutex is per bucket and
buckets share nothing but the loop of Open and the destructor. Two keys suffice for a
key that hides or overwrites another. Two or three records hold an overwritten key, a torn
record and the overflow. Two sessions hold a crash and its recovery, three a second
crash or a clean close after it. `MaxSession` is the only bound that is not in the
program, `ChunkRecords` is `chunckSize`.

Bounds of `StageChanges`. The background thread and one client's thread meet in every way in
which two stagers can. Two changes fill one file or two, and are enough to exchange, drop or
repeat one. Four milliseconds are a start, two stagings and what follows a crash. `MaxClock`
and `MaxKills` bound the model, not the program. The clock does not go back.

Bounds of `ZeroSync`. Two clients are one that pushes and one that must learn of it. Two
directories with a file each hold a rename between directories, a rename of a directory with what is
in it, and a path that two records touch. Three operations create, change and move a path, or undo it.
`MaxOps` and `MaxFaults` bound the model, not the program. A directory is renamed only where the new
paths of what is in it are in `Paths` too (`Succeeds`): the model's paths are finite, the program's are
not. In the runs but `stuck`, operations are `Orderly`: none touches what is at, below or above either path of a
rename of a directory that is on its way, nor a path of which such a name is a string prefix. In run `stuck` pieces with
and without a slash make `/ab` a path of its own, and no part of `/a`.

Bounds of `EngineExample`. Three keys and two slots fill the table, and two of the keys start their
probe at the last slot, so that it wraps. Files of two bytes rotate after one or two values. Three
Writes place a key, update it, and fill the table or are rejected. `MaxCalls` bounds the
model; `kMaxDoorCnt` and `kSingleFileSize` are the program's, made small.

Fairness (`FairSpec`, run `values`): a thread inside a call, Open and the destructor
go on; a thread that is inside has all it needs, since it holds the mutex. Nothing is
assumed of callers: they need not call, close or open. In run `apart` a thread within
`stageChanges` goes on unless it waits in the queue; nothing makes a thread begin, a client
push or a server restart. In run `calm` the server's background thread stages and each client's
background thread goes on with its update: both are loops that sleep for seconds. The fairness of
an update is strong since the scenario lets one update run at a time: each client's turn
comes again and again, not at all times. Users need do nothing, and nobody need restart. In run
`example` a thread within Write goes on; nobody need call, open or close.

## Proofs

`EngineRaceProofs` proves for every number of threads, buckets, keys and sessions, every
assignment of keys to buckets, every garbage offset, every place of a kill and with failing
calls:

- `TypeCorrect`: `Spec => []TypeOK`
- `Inductive`: `Spec => []IndInv`
- `LogIsComplete`: `Spec => []AckedInTmp`
- `IndexIsCurrent`: `Spec => []IndexMatchesTmp`
- `LocationsDisjoint`: `Spec => []NoSharedBytes`

Assumptions: `ConstantsAssumption` (types of the constants; user keys are not empty; the
set of keys is finite, which the order of a save needs) and `SentinelsAssumption`
(`NoFile` and the like differ from the values they stand beside).

The inductive invariant `IndInv` has four parts. `TypeOK`. `LoopInv`: which files exist
for the buckets that Open has passed, and where a save stands; without it a reader could be
applied to a file that is not there. `ThreadInv`: a thread inside a call holds the mutex of
its bucket, and the file position is within the file unless a Read has moved it; from it
follows that two threads inside calls are in two buckets (`MutexExcludes`). `LogInv`: a
Write at work has put its location into the map, and its record is at the end of the log;
every acknowledged location stands in the log behind which no finished record has the same
key (`LoggedAt`); locations lie below `nextOff`. `AckedInTmp` alone is not inductive: it is
silent while a Write of the bucket is within its record, and the position of the last
finished record must be carried over that gap.

The lemmas in front state what the readers and writers of files return (`LoadType`,
`LastOfIsLast`, `RecordsType`, `OverlayType`, `CompleteKey`, `CompleteLoc`). Then each part
of `IndInv` has a lemma per group of actions (`OpenControl`, `WriteControl`, `OpenLog`,
`WriteLog`, ...).

`EngineRaceDiskProofs` proves of the same constants, under `Undisturbed` (no call fails, keys have no
NUL byte, kill -9 comes while callers use the engine) and of the behaviours in which
`EndsBetweenRecords`:

- `DiskInductive`: `[]DiskInv`
- `AcknowledgedOnDisk`: `[]AckedOnDisk`
- `SavedExactly`: `[]SavedIsIndex`
- `OpenAlwaysSucceeds`: `[]OpenSucceeds`

`EndsBetweenRecords` says that the process does not end while a Write is within its record. It is a
hypothesis on behaviours, since a Write of another bucket whose record does not fit ends the process at
any moment, and may do so while this one is between key and location. For any
number of buckets it is a matter of room: `RoomEndsBetweenRecords` proves `Spec /\ []RoomInLogs => EndsBetweenRecords`,
where `RoomInLogs` says that every log has room for one more record. Both hypotheses are needed: a record
interrupted within its copies is read back with location {0, 0}, and run `closing` breaks `OpenSucceeds`.

`DiskInv` is about the files at every step of Open, of a session and of the destructor. `FilesAt`:
`data_i` is there before anything names it. `ClosingInv`: the destructor has an `index_i.tmp` for each
bucket it has not passed and none for those it has. `BaseIs`: an `index_i` that is not being written
is a whole number of records, each key once, and is the index once the bucket is saved.
`SavedSoFar`: while the destructor overlays the old file record by record, what it has written is a prefix
of the index, the rest of the map is still to come, and the old file is not longer than what will be
written. The last clause is why the missing truncation does no harm: a session only adds keys.

`EngineRaceStoreProofs` proves, under `WritesOnce`, of the behaviours in which `EndsBetweenRecords` and
`NextLocStartsAtZero`:

- `StoreInductive`: `[]StoreInv`
- `AcknowledgedReadable`: `[]AckedReadable`
- `ReadIsLast`: `ReadReturnsLast`
- `RaceImplementsKVStore`: `ImplementsKVStore`

`WritesOnce` adds to `Undisturbed` that only the first session writes and only it may be killed, and that
values have no NUL byte. `NextLocStartsAtZero` says that the uninitialised `nextLoc` happens to be 0 when the
first session starts; it is a hypothesis on behaviours, and no value of `GarbageOffset` is excluded. So these
theorems say what the engine does when it is lucky in this, and run `garbage` what it does when it is not. Each part is one
that the code needs: a later session writes from position 0 of `data_i` (run `reopen`), a second kill
loses what the first merge has read (run `twice`), and values are read back as C strings.

`StoreInv` says where a value is. `StoredInv`: the last acknowledged value of each key is what
a Read, a merge or a load would find. `UnloadedInv`: what Open has not loaded is empty. `FirstInv`: in the
first session the end of `data_i`, `nextLoc` and the file position agree but for the Write or Read that is
at work (`AppendInv`), the bytes of that Write are in the file (`AppendedInv`), and what is acknowledged is
in the file at its location (`KeyInv`). `CallersInv`: a Read has the file position at the location of its key.
Refinement: `WriteIndex` is `Call`, `WriteLoc` is `Commit`, `Kill`, `WriteOverflow` and the steps of
Open and of the destructor are `Crash`es (with nobody at work unless it is one of the first two), and
every other step is a stutter.

`EngineExampleProofs` proves for every number of processes, threads, slots, keys and values, every hash
function and every size of files:

- `TypeCorrect`: `Spec => []TypeOK`, and `Reachable`: `Spec => []TableIsReachable`, in every scenario
- under `Undisturbed` (`Meeting = {}`), `ReadsEnd`: `Spec => []ReadEnds`, `RangesAgree`: `Spec =>
  []RangeAgrees`, and `ExampleImplementsKVStore`: `Spec => ImplementsKVStore`

Assumption: `ExampleAssumption` (types of the constants; a value is not longer than a file).
`Undisturbed` is a hypothesis of the three theorems and no assumption of the module: with any of the
three faults they are false, as TLC finds.

The inductive invariant has two layers. `IInv` needs no hypothesis: types, `CallInv` (who has the lock
file and the mutexes), `TableInv` (every item in use is where its probe ends, and the item that a thread
is filling is where its probe ends). The probe is a minimum over the slots that fit; the lemmas on
`IndexIn` say that filling a slot changes it for no other key. `StoreInv` adds `FreeInv` (a free slot has
no key, but for the one that is being filled) and `DataInv`: the process that is open knows the
end of the last file (`EndInv`), the bytes of an append at work are at the end of it (`AppendInv`), a
location that is about to go into the table holds its value (`PlaceInv`), and every location in the table
is within its file (`ItemInv`). `ReadEnds` alone says nothing of where an append goes, and so does not
hold itself up.

Refinement: with files only growing (`Grown`), what an item holds stays what it was (`StoreSame`).
`Place` is `Commit`, `AppendFails` and `Rejected` are `Fail`, `Call` is `Call`, the kill of the process that
holds the lock is `Crash`, and every other step is a stutter (`ProcessImplements` and the
lemmas behind it). `StoredIs` relates the abstract store to the table and to the
thread in `AddOrUpdate`.

`StageChangesProofs` proves for every number of connections, changes, milliseconds and kills
`TypeCorrect`: `Spec => []TypeOK`, in every scenario, and under `OneAtATime` (`Meeting = {}`):

- `StampOnlyForward`: `Spec => []StampForward`
- `JournalsFrozen`: `Spec => PublishedFrozen`

Assumption: `ConstantsAssumption`. `OneAtATime` is a hypothesis of the theorems: run `overlap` shows that
`PublishedFrozen` fails without it.

The inductive invariant `SInv` has four parts. `StageTypes`: the types that are needed. `AloneInv`: a
thread at work is the only one, and the clock is past the end of every staging before it and, once there
is anything to stage, past the start of the server. `ClockInv`: no stamp lies in the future, and there is
a journal that is not behind what clients know, unless there is none at all. `StampInv`: what the
constructor takes from the directory is not behind what clients know; `server_stamp` is `told` while the
server is up; a file that is being written exists and is named above `told`. The second clause of
`ClockInv` carries `StampForward` over a crash: it is what makes the highest name in the directory a safe
choice. `LeastNat` and `MaxStamp` show that there is a highest name, however many files.

`StageChangesFeedProofs` proves `StagingImplementsFeed`: `Spec => ImplementsChangeFeed` under `OneAtATime`.
What is not published is `Written \o Buffered \o queue`: the one file that clients do not know of, the
buffer of the thread at work, the queue. The invariant beyond `SInv` is `FeedInv`. `FileInv`: there is at
most one such file, the one that is being written or the one that a crash has left, and the
constructor has taken the last file there is. `CopyInv`: a stager writes at the end of its file, and what it has
copied is what it will pop. `AddJournal` is `Add`; `SetStamp` is `Publish` of the whole file; `SetServerStamp` is
`Publish` of what a crash has left, or a stutter; `Kill` is `Crash`, which leaves the file and drops the rest;
`OpenFile`, `PopFront`, `Flush` and `CloseFile` move entries within what is not published, and, like every
other step, are stutters.

`ZeroSyncProofs` and `ZeroSyncCalmProofs` are about every set of clients, every sequence of paths, every set of
contents, every tree of the server, every number of operations and restarts. Assumptions: `SyncAssumption` (the
server is no client; contents, directories and what is not there are told apart), `PathsAssumption` (paths are not
empty, and a path that is cut off before a slash is a path), `TreeAssumption` (the server starts with a tree).

`ZeroSyncProofs` proves

- `TypeCorrect`: `Spec => []TypeOK`, in every scenario. The core of it is that each copy is a tree: what
  `handleUpdate` removes is empty to begin with, what it makes or downloads has the directories above it, and a
  rename takes along what is below. The invariant is inductive as it stands. That folds stay within their types
  needs induction over what is merged, applied or flattened: each fold is unfolded to the function it is defined
  by (`MergeExists`, `RenamesExists`, `FlatExists`), and induction over its domain is the lemma `Induction`, from the
  well-foundedness of the numbers (a set that holds 0, and k + 1 with k, holds all), since the library's
  induction theorems take an operator.

It also has the invariant about stamps on which the next module rests (`SyncInv`, under `OneUpdate`: neither "race" nor
"unstaged" in `Meeting`): `StampsCover`, and `TurnInv`, that only one client is in an update and until it pushes the
server records nothing. Between the push and the answer the background thread may stage what the push has
recorded, so that the stamp is ahead of the client by one journal, its own, at most. This is no result
of its own: the ways in which a stamp covers what was not sent are what `OneUpdate` excludes.

`ZeroSyncCalmProofs` proves, for `Meeting = {}` and of the behaviours in which no directory is renamed (`DirsStay`):

- `AllOnTheWay`: `[]DifferencesOnTheWay`
- `Convergence`: `[]Converged`

`Meeting = {}` is a hypothesis that the theorems need: run `unstaged` breaks the first without it, and
directories that are removed together with their files ("mix") the second.
`DirsStay` is about users: files are still renamed, and files and directories made and removed. Neither
of the two holds itself up. `Converged` is silent until all is quiet, and `DifferencesOnTheWay` does not say that
what is on its way is right. The inductive invariant `Calm` (checked by TLC on the instance of run `calm` before it
was proved) speaks of each client by two change sets, wherever they stand at the moment: `Ups`, what it has recorded
and not pushed, merged, and `Downs`, what it has not pulled, merged, be it in the server's queue, the journals
above its stamp or the patch. It says (`Core`):

- `Truth`: a change set is true of the machine it comes from: what it calls new is there, what it
  calls deleted is not. Sets of paths forget the order of operations; this is what makes up for it.
- `Explained`: the two change sets tell every difference between the client and the server, with the node that
  is there now, not only a path nearby.
- `Apart`: what a client has to push and what others have to push or it has to pull is not about related paths.
- `Bare`: a directory that is to be removed has nothing below it, on any machine, so that no `rmdir` fails.
- `Wanted`, `Rest`, `OneOwner`: where a client has something to push that is not merely the echo of a pull, its copy
  is what all operations would have led to; everywhere else the server's is; what one client has of that kind is apart from what others push.
- `Fresh`: a client that starts has at most what the server has and will have, files perhaps with another content.

`Forms` ties this to where the update stands, `SyncInv` is the invariant about stamps above. Three lemmas carry the
proof. `Transfer`: a change set that is true of M and explains all that the receiver is without makes M of
the receiver, and what the receiver records of it, merged, is again a change set of the same kind (the echo is
harmless). `BlendIs`: pulling leaves what the client has yet to push. `CoreUser` and `CoreServer`: an operation
of a user keeps `Core`. Then each action has a lemma (`PatchCalm`, `PushCalm`, `StageCalm`, `ClientUserCalm`, ...) that says
what becomes of the two change sets of each client: most steps move records from a queue to a journal or a bag
and leave both as they are.

Only model-checked: the two with renames of directories on their way (run `calm`): `Rebase` rewrites the names in a
change set, so that these hold of the tree after the rename and not of the one they are applied to, which is a
second invariant beside `Core`. And the liveness properties (`OpenReturns`, `LockReleased`, `WriteReturns`, `PassPublishes`,
`ComesToRest`), which are beyond the prover.

## Not modelled

- `Range` of EngineRace (returns at once), logging, performance.
- What lies behind the mapping: a record that does not fit ends the process
  (`WriteOverflow`); where another mapping follows, the code would overwrite it and go on. No run or
  theorem covers that.
- Keys of different lengths in an interrupted save (fields of a file are overlaid whole),
  keys longer than the buffer of the reader, `munmap` of a mapping that was never made in
  the destructor of a half-opened engine.
- Errors of the journal's stream, and a record of which a part is flushed before a crash:
  `StageChanges` knows whole records only, and files that can be written.
- A connection that comes before the server's constructor has made its background task.
- That the threads, which are started before `fuse_main`, are gone when it forks (no `-f`).
- Of EngineExample: keys that are too long, a second Open in one process (an fcntl lock belongs to the
  process), a rotation that cannot create its file, a META file that a kill left too short, a second
  process that maps META before the first has cleared it, an empty key; the mutex in Read and Range.
- Of ZeroDrive: partial reads and sends and the bytes of a message (after `NetworkAgent.cpp:362` sends too
  much the stream is out of step for good); the policy for conflicts that the design document
  describes and the code does not have; `truncate`, `link`, `symlink`, `chmod` and `chown`, which are
  recorded nowhere; attributes and offsets within a file; a client that connects late.
- A download whose `rename` fails; an update that drains the queue between a user's call and its record.
- What a client that was left by its server takes for its stamp: it is read from a closed connection.
- FUSE wrappers, build output, `readings`, and `fuse_fs/zerodrive/testFiles`: headers of libfuse, CUDA
  samples and the like that serve as test data. They are most of the lines of code in the repository
  and no part of either system, which is why the share of lines that the models cover stays small.
