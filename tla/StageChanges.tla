---------------------------- MODULE StageChanges ----------------------------
(* The server's queue of changes (SharedQueue.h) and stageChanges, which moves it  *)
(* to journal files (DriveServerAgent.cpp). stageChanges runs in a thread that     *)
(* wakes every 4 seconds and in every thread that has received a client's push.    *)
(* One step is what another thread can come between: an operation of the queue,    *)
(* which locks for itself; an operation on a file; an access to server_stamp.      *)
EXTENDS Integers, FiniteSets, Sequences, SequencesExt, FiniteSetsExt

CONSTANTS Change,      \* operation records; each stands for one completed operation
          Connection,  \* threads of MessageLoop, one per client
          Background,  \* the thread of BackgroundTask::run
          Meeting,     \* scenario: what the threads may do although another thread ...
                       \*   "work": ... stages, "millisecond": ... has staged in this
                       \*   millisecond, "boot": ... is in the constructor
          MaxClock,    \* bound: milliseconds that matter
          MaxKills,    \* bound: crashes of the server
          NoFile, Garbage

Stager == Connection \cup {Background}
Stamp == 1..MaxClock
Entry == Change \cup {Garbage}

ASSUME ConstantsAssumption ==
  /\ Background \notin Connection
  /\ MaxClock \in Nat \ {0}
  /\ MaxKills \in Nat
  /\ Meeting \subseteq {"work", "millisecond", "boot"}
  /\ Garbage \notin Change
  /\ NoFile \notin Seq(Entry)

VARIABLES
  queue,         \* unstagedChanges
  journal,       \* the journal directory: the entries of the file named by each stamp
  server_stamp,
  pc,            \* where each thread is in stageChanges
  new_stamp,     \* of each thread: the name of the file it writes
  ref,           \* of each thread: what front() referred to
  r,             \* of each thread: its copy of the record
  buf,           \* of each thread: records in the buffer of its ofstream
  pos,           \* of each thread: the position in its file
  clock,         \* milliseconds
  rest,          \* of each thread: when it fell asleep
  phase,         \* "down"; in the constructor: "list", "assign"; "up"
  since,         \* when the constructor returned
  latest,        \* getLatestStamp's result
  kills,
  posted,        \* history: the changes added that no crash has dropped
  told           \* history: the highest stamp that a client can have received

local == <<new_stamp, ref, r, buf, pos>>
server == <<phase, since, latest, kills>>
vars == <<queue, journal, server_stamp, pc, local, clock, rest, server, posted, told>>

Journals == {n \in Stamp : journal[n] # NoFile}

Init ==
  /\ queue = <<>>
  /\ journal = [n \in Stamp |-> NoFile]
  /\ server_stamp = 0
  /\ pc = [s \in Stager |-> "idle"]
  /\ new_stamp = [s \in Stager |-> 0]
  /\ ref = [s \in Stager |-> Garbage]
  /\ r = [s \in Stager |-> Garbage]
  /\ buf = [s \in Stager |-> <<>>]
  /\ pos = [s \in Stager |-> 0]
  /\ clock = 1
  /\ rest = [s \in Stager |-> 0]
  /\ phase = "down"
  /\ since = 0
  /\ latest = 0
  /\ kills = 0
  /\ posted = {}
  /\ told = 0

Tick == /\ clock < MaxClock
        /\ clock' = clock + 1
        /\ UNCHANGED <<queue, journal, server_stamp, pc, local, rest, server, posted, told>>

Goto(s, l) == pc' = [pc EXCEPT ![s] = l]

\* mutant: the stamp of the next journal
PublishNext(n) == /\ server_stamp' = n + 1
                  /\ told' = IF n + 1 > told THEN n + 1 ELSE told

Publish(n) == /\ server_stamp' = n
              /\ told' = IF n > told THEN n ELSE told

\* The constructor: the threads start before server_stamp is set.
Start ==
  /\ phase = "down"
  /\ phase' = "list"
  /\ UNCHANGED <<queue, journal, server_stamp, pc, local, clock, rest, since, latest, kills,
                 posted, told>>

\* mutant: the directory is not sorted
GetLatestStampUnsorted ==
  /\ phase = "list"
  /\ phase' = "assign"
  /\ latest' \in IF Journals = {} THEN {clock} ELSE Journals
  /\ UNCHANGED <<queue, journal, server_stamp, pc, local, clock, rest, since, kills, posted,
                 told>>

GetLatestStamp ==
  /\ phase = "list"
  /\ phase' = "assign"
  /\ latest' = IF Journals = {} THEN clock ELSE Max(Journals)
  /\ UNCHANGED <<queue, journal, server_stamp, pc, local, clock, rest, since, kills, posted,
                 told>>

SetServerStamp ==
  /\ phase = "assign"
  /\ phase' = "up"
  /\ since' = clock
  /\ Publish(latest)
  /\ UNCHANGED <<queue, journal, pc, local, clock, rest, latest, kills, posted>>

\* A completed operation: by a FUSE thread once the file system is mounted, which takes
\* longer than a millisecond, or by a thread that applies a client's push.
AddJournal(c) ==
  /\ \/ phase = "up" /\ clock > since
     \/ \E s \in Connection : pc[s] = "apply"
  /\ c \notin posted
  /\ queue' = Append(queue, c)
  /\ posted' = posted \cup {c}
  /\ UNCHANGED <<journal, server_stamp, pc, local, clock, rest, server, told>>

\* what the scenario says of the other threads when s begins
MayMeet(s) == \A o \in Stager \ {s} :
  /\ "work" \in Meeting \/ pc[o] = "idle"
  /\ "millisecond" \in Meeting \/ clock > rest[o]

\* The thread has slept (4 seconds in BackgroundTask::run) and stages.
Wake ==
  /\ phase # "down"
  /\ pc[Background] = "idle"
  /\ clock > rest[Background]
  /\ MayMeet(Background)
  /\ Goto(Background, "check")
  /\ UNCHANGED <<queue, journal, server_stamp, local, clock, rest, server, posted, told>>

\* A push has arrived (a client sleeps 5 seconds between two) and is applied.
HandleUpdate(s) ==
  /\ phase # "down"
  /\ pc[s] = "idle"
  /\ clock > rest[s]
  /\ MayMeet(s)
  /\ "boot" \in Meeting \/ (phase = "up" /\ clock > since)
  /\ Goto(s, "apply")
  /\ UNCHANGED <<queue, journal, server_stamp, local, clock, rest, server, posted, told>>

HandleUpdateStages(s) ==
  /\ pc[s] = "apply"
  /\ Goto(s, "check")
  /\ UNCHANGED <<queue, journal, server_stamp, local, clock, rest, server, posted, told>>

----------------------------------------------------------------------------
(* stageChanges *)

\* if (unstagedChanges.size() > 0)
Check(s) ==
  /\ pc[s] = "check"
  /\ Goto(s, IF queue = <<>> THEN "idle" ELSE "stamp")
  /\ rest' = IF queue = <<>> THEN [rest EXCEPT ![s] = clock] ELSE rest
  /\ UNCHANGED <<queue, journal, server_stamp, local, clock, server, posted, told>>

\* mutant: a clock that counts two milliseconds as one
GetTimestampCoarse(s) ==
  /\ pc[s] = "stamp"
  /\ new_stamp' = [new_stamp EXCEPT ![s] = (clock + 1) \div 2]
  /\ Goto(s, "open")
  /\ UNCHANGED <<queue, journal, server_stamp, ref, r, buf, pos, clock, rest, server, posted,
                 told>>

\* mutant: the stamp is given out before the file is written
GetTimestampPublishes(s) ==
  /\ pc[s] = "stamp"
  /\ new_stamp' = [new_stamp EXCEPT ![s] = clock]
  /\ Publish(clock)
  /\ Goto(s, "open")
  /\ UNCHANGED <<queue, journal, ref, r, buf, pos, clock, rest, server, posted>>

GetTimestamp(s) ==
  /\ pc[s] = "stamp"
  /\ new_stamp' = [new_stamp EXCEPT ![s] = clock]
  /\ Goto(s, "open")
  /\ UNCHANGED <<queue, journal, server_stamp, ref, r, buf, pos, clock, rest, server, posted,
                 told>>

\* std::ofstream fs(j_filename): creates the file, or empties the one that is there
OpenFile(s) ==
  /\ pc[s] = "open"
  /\ journal' = [journal EXCEPT ![new_stamp[s]] = <<>>]
  /\ buf' = [buf EXCEPT ![s] = <<>>]
  /\ pos' = [pos EXCEPT ![s] = 0]
  /\ Goto(s, "loop")
  /\ UNCHANGED <<queue, server_stamp, new_stamp, ref, r, clock, rest, server, posted, told>>

\* while (unstagedChanges.size() > 0)
Loop(s) ==
  /\ pc[s] = "loop"
  /\ Goto(s, IF queue = <<>> THEN "close" ELSE "front")
  /\ UNCHANGED <<queue, journal, server_stamp, local, clock, rest, server, posted, told>>

\* front() waits while the queue is empty, and returns a reference.
TakeFront(s) ==
  /\ pc[s] = "front"
  /\ queue # <<>>
  /\ ref' = [ref EXCEPT ![s] = Head(queue)]
  /\ Goto(s, "copy")
  /\ UNCHANGED <<queue, journal, server_stamp, new_stamp, r, buf, pos, clock, rest, server,
                 posted, told>>

\* The copy is made after front() has unlocked: another thread may have destroyed the
\* record by then.
Copy(s) ==
  /\ pc[s] = "copy"
  /\ \E x \in {ref[s]} \cup (IF ref[s] \in Range(queue) THEN {} ELSE {Garbage}) :
       r' = [r EXCEPT ![s] = x]
  /\ Goto(s, "pop")
  /\ UNCHANGED <<queue, journal, server_stamp, new_stamp, ref, buf, pos, clock, rest, server,
                 posted, told>>

\* pop_front() waits while the queue is empty, and removes what is in front now; then
\* the copy goes to the stream.
PopFront(s) ==
  /\ pc[s] = "pop"
  /\ queue # <<>>
  /\ queue' = Tail(queue)
  /\ buf' = [buf EXCEPT ![s] = Append(@, r[s])]
  /\ Goto(s, "loop")
  /\ UNCHANGED <<journal, server_stamp, new_stamp, ref, r, pos, clock, rest, server, posted,
                 told>>

\* file with the records es at position p; what lies between its end and p is zeros
Overlay(file, p, es) ==
  LET end == p + Len(es)
  IN IF es = <<>> THEN file
     ELSE [i \in 1..Max({end, Len(file)}) |->
             IF i > p /\ i <= end THEN es[i - p]
             ELSE IF i <= Len(file) THEN file[i] ELSE Garbage]

WriteOut(s) ==
  /\ journal' = [journal EXCEPT ![new_stamp[s]] = Overlay(@, pos[s], buf[s])]
  /\ pos' = [pos EXCEPT ![s] = @ + Len(buf[s])]
  /\ buf' = [buf EXCEPT ![s] = <<>>]

\* The stream's buffer is full and goes to the file.
Flush(s) ==
  /\ pc[s] = "loop"
  /\ buf[s] # <<>>
  /\ WriteOut(s)
  /\ UNCHANGED <<queue, server_stamp, pc, new_stamp, ref, r, clock, rest, server, posted, told>>

\* fs.close()
CloseFile(s) ==
  /\ pc[s] = "close"
  /\ WriteOut(s)
  /\ Goto(s, "set")
  /\ UNCHANGED <<queue, server_stamp, new_stamp, ref, r, clock, rest, server, posted, told>>

\* mutant: the stamp stays
SetStampForgotten(s) ==
  /\ pc[s] = "set"
  /\ Goto(s, "idle")
  /\ rest' = [rest EXCEPT ![s] = clock]
  /\ UNCHANGED <<queue, journal, server_stamp, local, clock, server, posted, told>>

\* host->server_stamp = new_stamp
SetStamp(s) ==
  /\ pc[s] = "set"
  /\ Publish(new_stamp[s])
  /\ Goto(s, "idle")
  /\ rest' = [rest EXCEPT ![s] = clock]
  /\ UNCHANGED <<queue, journal, local, clock, server, posted>>

----------------------------------------------------------------------------
\* The server dies, or is stopped: there is no shutdown that stages the queue.
Kill ==
  /\ phase # "down"
  /\ kills < MaxKills
  /\ kills' = kills + 1
  /\ phase' = "down"
  /\ queue' = <<>>
  /\ server_stamp' = 0
  /\ pc' = [s \in Stager |-> "idle"]
  /\ new_stamp' = [s \in Stager |-> 0]
  /\ ref' = [s \in Stager |-> Garbage]
  /\ r' = [s \in Stager |-> Garbage]
  /\ buf' = [s \in Stager |-> <<>>]
  /\ pos' = [s \in Stager |-> 0]
  /\ rest' = [s \in Stager |-> clock]
  /\ since' = 0
  /\ latest' = 0
  /\ posted' = UNION {Range(journal[n]) : n \in Journals}
  /\ UNCHANGED <<journal, clock, told>>

\* The bound on the clock is reached and no thread is at work.
Done == clock = MaxClock /\ (\A s \in Stager : pc[s] = "idle") /\ UNCHANGED vars

StageStep(s) ==
  \/ Check(s) \/ GetTimestamp(s) \/ OpenFile(s) \/ Loop(s) \/ TakeFront(s) \/ Copy(s)
  \/ PopFront(s) \/ CloseFile(s) \/ SetStamp(s)

Next ==
  \/ Tick \/ Start \/ GetLatestStamp \/ SetServerStamp \/ Wake \/ Kill \/ Done
  \/ \E c \in Change : AddJournal(c)
  \/ \E s \in Connection : HandleUpdate(s) \/ HandleUpdateStages(s)
  \/ \E s \in Stager : StageStep(s) \/ Flush(s)

Spec == Init /\ [][Next]_vars

\* A thread within stageChanges goes on unless it waits in the queue. Nobody need add, push
\* or restart, and no thread need begin.
Fairness == \A s \in Stager : WF_vars(StageStep(s))

FairSpec == Spec /\ Fairness
=============================================================================
