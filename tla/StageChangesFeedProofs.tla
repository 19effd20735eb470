----------------------- MODULE StageChangesFeedProofs -----------------------
(* StageChanges implements ChangeFeed as long as the threads do not meet, for every value of *)
(* its constants.                                                                            *)
EXTENDS StageChangesProofs

-----------------------------------------------------------------------------
(* The inductive invariant, beyond SInv *)

\* What clients do not know of is one file: the one that a crash has left, or the one that is
\* being written. The constructor has taken the last.
FileInv ==
  /\ phase # "up" => \A m, n \in Unpublished : m = n
  /\ phase = "up" => \A n \in Unpublished : \E s \in Stager : pc[s] \in Filling /\ new_stamp[s] = n
  /\ phase = "assign" => IF Journals = {} THEN latest \in Stamp
                         ELSE latest \in Journals /\ \A n \in Journals : n <= latest

\* A stager writes at the end of its file, and what it has copied is what it will pop.
Buffering == {"loop", "front", "copy", "pop", "close"}
CopyInv ==
  \A s \in Stager :
    /\ pc[s] \notin Buffering => buf[s] = <<>>
    /\ pc[s] \in Filling => pos[s] = Len(journal[new_stamp[s]])
    /\ pc[s] = "copy" => queue # <<>> /\ ref[s] = Head(queue)
    /\ pc[s] = "pop" => queue # <<>> /\ r[s] = Head(queue)

FeedInv == FileInv /\ CopyInv

LEMMA InitFeed == Init => FeedInv
BY DEF Init, FeedInv, FileInv, CopyInv, Filling, Buffering, Journals, Unpublished

-----------------------------------------------------------------------------
(* Files *)

LEMMA QuietFiles ==
  ASSUME FileInv, Journals' = Journals, UNCHANGED <<told, phase, latest>>,
         \A s \in Stager : pc[s] \in Filling => pc'[s] \in Filling /\ new_stamp'[s] = new_stamp[s]
  PROVE  FileInv'
<1>1. Unpublished' = Unpublished
  BY DEF Unpublished, Published
<1> QED BY <1>1 DEF FileInv

\* The file that is being written is what is not published.
LEMMA WritingOne ==
  ASSUME SInv, FileInv, NEW s \in Stager, pc[s] # "idle", phase = "up"
  PROVE  Unpublished = IF pc[s] \in Filling THEN {new_stamp[s]} ELSE {}
<1>1. \A o \in Stager : pc[o] \in Filling => o = s
  BY DEF SInv, AloneInv, Filling
<1>2. \A n \in Unpublished : pc[s] \in Filling /\ n = new_stamp[s]
  BY <1>1 DEF FileInv
<1>3. pc[s] \in Filling => new_stamp[s] \in Journals /\ new_stamp[s] \notin Published
  <2>1. SUFFICES ASSUME pc[s] \in Filling
                 PROVE  new_stamp[s] \in Journals /\ new_stamp[s] \notin Published
    OBVIOUS
  <2>2. new_stamp[s] \in Journals /\ told < new_stamp[s] /\ new_stamp[s] \in Nat /\ told \in Nat
    BY <2>1, StampIsNat DEF SInv, StampInv, StageTypes
  <2> QED BY <2>2 DEF Published
<1> QED BY <1>2, <1>3 DEF Unpublished

LEMMA BootFiles ==
  ASSUME SInv, FileInv, Start \/ GetLatestStamp \/ SetServerStamp
  PROVE  FileInv'
<1>1. Journals' = Journals /\ Journals \in SUBSET Stamp
  BY DEF Start, GetLatestStamp, SetServerStamp, Journals
<1>2. CASE Start
  <2>1. UNCHANGED told /\ phase # "up" /\ phase' = "list"
    BY <1>2 DEF Start
  <2>2. Unpublished' = Unpublished
    BY <1>1, <2>1 DEF Unpublished, Published
  <2> QED BY <2>1, <2>2 DEF FileInv
<1>3. CASE GetLatestStamp
  <2>1. UNCHANGED told /\ phase # "up" /\ phase' = "assign"
    BY <1>3 DEF GetLatestStamp
  <2>2. Unpublished' = Unpublished
    BY <1>1, <2>1 DEF Unpublished, Published
  <2>3. IF Journals = {} THEN latest' \in Stamp
        ELSE latest' \in Journals /\ \A n \in Journals : n <= latest'
    BY <1>1, <1>3, MaxStamp DEF GetLatestStamp, SInv, StageTypes
  <2> QED BY <1>1, <2>1, <2>2, <2>3 DEF FileInv
<1>4. CASE SetServerStamp
  <2>1. /\ phase = "assign" /\ phase' = "up" /\ UNCHANGED <<journal, latest>>
        /\ told' = IF latest > told THEN latest ELSE told
    BY <1>4 DEF SetServerStamp, Publish
  <2>2. told \in Nat /\ latest \in Nat /\ \A n \in Journals : n \in Nat /\ n <= latest
    BY <1>1, <2>1, StampIsNat DEF FileInv, SInv, StageTypes
  <2>3. \A n \in Journals : n <= told'
    BY <2>1, <2>2
  <2>4. Unpublished' = {}
    BY <1>1, <2>3 DEF Unpublished, Published
  <2> QED BY <2>1, <2>4 DEF FileInv
<1> QED BY <1>2, <1>3, <1>4

LEMMA KillFiles ==
  ASSUME SInv, FileInv, Kill
  PROVE  FileInv'
<1>1. UNCHANGED <<journal, told>> /\ phase' = "down"
  BY DEF Kill
<1>2. Unpublished' = Unpublished
  BY <1>1 DEF Unpublished, Published, Journals
<1>3. \A m, n \in Unpublished : m = n
  <2>1. CASE phase = "up"
    <3>1. \A s, o \in Stager : pc[s] \in Filling /\ pc[o] \in Filling => s = o
      BY DEF SInv, AloneInv, Filling
    <3> QED BY <2>1, <3>1 DEF FileInv
  <2> QED BY <2>1 DEF FileInv
<1> QED BY <1>1, <1>2, <1>3 DEF FileInv

\* A new file is the only one that is not published, and after SetStamp there is none.
LEMMA OpenFileFiles ==
  ASSUME SInv, FileInv, NEW s \in Stager, OpenFile(s)
  PROVE  /\ Journals' = Journals \cup {new_stamp[s]} /\ Unpublished = {}
         /\ Unpublished' = {new_stamp[s]} /\ Published' = Published
         /\ \A n \in Published : journal'[n] = journal[n]
         /\ journal'[new_stamp[s]] = <<>>
         /\ FileInv'
<1>1. /\ pc[s] = "open" /\ journal' = [journal EXCEPT ![new_stamp[s]] = <<>>]
      /\ UNCHANGED <<told, phase, new_stamp>> /\ pc' = [pc EXCEPT ![s] = "loop"]
  BY DEF OpenFile, Goto, server
<1>2. new_stamp[s] \in Stamp /\ told < new_stamp[s] /\ phase = "up"
  BY <1>1 DEF SInv, StampInv, AloneInv
<1>3. \A n \in Stamp : journal'[n] = IF n = new_stamp[s] THEN <<>> ELSE journal[n]
  BY <1>1 DEF SInv, StageTypes
<1>4. <<>> # NoFile
  BY EmptySeq, ConstantsAssumption
<1>5. Journals' = Journals \cup {new_stamp[s]}
  BY <1>2, <1>3, <1>4 DEF Journals
<1>6. Unpublished = {}
  BY <1>1, <1>2, WritingOne DEF Filling
<1>7. told \in Nat /\ new_stamp[s] \in Nat /\ new_stamp[s] \notin Published
  BY <1>2, StampIsNat DEF SInv, StageTypes, Published
<1>8. Published' = Published
  BY <1>1, <1>2, <1>5, <1>7 DEF Published
<1>9. Unpublished' = {new_stamp[s]}
  BY <1>5, <1>6, <1>7, <1>8 DEF Unpublished
<1>10. \A n \in Published : journal'[n] = journal[n]
  BY <1>3, <1>7 DEF Published, Journals
<1>11. FileInv'
  <2>1. pc'[s] \in Filling
    BY <1>1 DEF SInv, StageTypes, Filling
  <2>2. \A n \in Unpublished' : pc'[s] \in Filling /\ new_stamp'[s] = n
    BY <1>1, <1>9, <2>1
  <2>3. phase' = "up"
    BY <1>1, <1>2
  <2> QED BY <2>2, <2>3 DEF FileInv
<1> QED BY <1>2, <1>3, <1>5, <1>6, <1>8, <1>9, <1>10, <1>11

LEMMA SetStampFiles ==
  ASSUME SInv, FileInv, NEW s \in Stager, SetStamp(s)
  PROVE  /\ Unpublished = {new_stamp[s]} /\ Unpublished' = {}
         /\ told' = new_stamp[s] /\ told < new_stamp[s] /\ new_stamp[s] \in Stamp
         /\ FileInv'
<1>1. /\ UNCHANGED <<journal, phase>> /\ pc[s] = "set"
      /\ told' = IF new_stamp[s] > told THEN new_stamp[s] ELSE told
  BY DEF SetStamp, Publish, server
<1>2. new_stamp[s] \in Stamp /\ told < new_stamp[s] /\ phase = "up"
  BY <1>1 DEF SInv, StampInv, AloneInv, Filling
<1>3. told \in Nat /\ new_stamp[s] \in Nat
  BY <1>2, StampIsNat DEF SInv, StageTypes
<1>4. told' = new_stamp[s]
  BY <1>1, <1>2, <1>3
<1>5. Unpublished = {new_stamp[s]}
  BY <1>1, <1>2, WritingOne DEF Filling
<1>6. Journals' = Journals /\ \A n \in Journals : n \in Nat
  BY <1>1, StampIsNat DEF Journals
<1>7. \A n \in Published : n <= told'
  BY <1>2, <1>3, <1>4, <1>6 DEF Published
<1>8. Unpublished' = {}
  BY <1>3, <1>4, <1>5, <1>6, <1>7 DEF Unpublished, Published
<1>9. FileInv'
  BY <1>1, <1>2, <1>8 DEF FileInv
<1> QED BY <1>2, <1>4, <1>5, <1>8, <1>9

-----------------------------------------------------------------------------
(* Threads *)

\* At the end of a file records are appended.
LEMMA OverlayAtEnd ==
  ASSUME NEW file \in Seq(Entry), NEW es \in Seq(Entry)
  PROVE  Overlay(file, Len(file), es) = file \o es
<1> DEFINE p == Len(file)  end == p + Len(es)
<1>1. p \in Nat /\ Len(es) \in Nat /\ end \in Nat /\ p <= end
  OBVIOUS
<1>2. CASE es = <<>>
  BY <1>2, ConcatEmptySeq DEF Overlay
<1>3. CASE es # <<>>
  <2>1. \E x \in {end, p} : \A y \in {end, p} : x >= y
    BY <1>1
  <2>2. Max({end, p}) \in {end, p} /\ \A y \in {end, p} : Max({end, p}) >= y
    BY <2>1 DEF Max
  <2>3. Max({end, p}) = end
    BY <1>1, <2>2
  <2> DEFINE cells == [i \in 1..end |-> IF i > p /\ i <= end THEN es[i - p]
                                        ELSE IF i <= p THEN file[i] ELSE Garbage]
  <2>4. Overlay(file, p, es) = cells
    BY <1>3, <2>3 DEF Overlay
  <2>5. /\ file \o es \in Seq(Entry) /\ Len(file \o es) = end
        /\ \A i \in 1..end : (file \o es)[i] = IF i <= p THEN file[i] ELSE es[i - p]
    BY ConcatProperties
  <2>6. \A i \in 1..end : cells[i] = (file \o es)[i]
    BY <1>1, <2>5
  <2>7. Overlay(file, p, es) \in Seq(Entry)
    BY <1>1, OverlayType
  <2>8. cells \in Seq(Entry) /\ Len(cells) = end
    <3>1. cells \in Seq(Entry)
      BY <2>4, <2>7
    <3>2. DOMAIN cells = 1..end /\ DOMAIN cells = 1..Len(cells) /\ Len(cells) \in Nat
      BY <3>1, LenProperties
    <3> QED BY <1>1, <3>1, <3>2
  <2> HIDE DEF cells
  <2>9. cells = file \o es
    BY <2>5, <2>6, <2>8, SeqEqual
  <2> QED BY <2>4, <2>9
<1> QED BY <1>2, <1>3

LEMMA QuietThreads ==
  ASSUME CopyInv, UNCHANGED <<journal, queue, ref, r, buf, pos>>,
         \A s \in Stager : \/ pc'[s] = pc[s] /\ new_stamp'[s] = new_stamp[s]
                           \/ pc[s] \notin Buffering /\ pc'[s] \notin Filling
  PROVE  CopyInv'
BY DEF CopyInv, Buffering, Filling

\* While a thread is at work the others have nothing in a buffer.
LEMMA OneAtWork ==
  ASSUME SInv, CopyInv, NEW s \in Stager, pc[s] # "idle"
  PROVE  \A o \in Stager : o # s => pc[o] = "idle" /\ buf[o] = <<>>
BY DEF SInv, AloneInv, CopyInv, Buffering

\* A step of a thread at work keeps CopyInv if it does so for that thread.
LEMMA WorkThreads ==
  ASSUME SInv, CopyInv, NEW s \in Stager, pc[s] # "idle",
         \A o \in Stager : o # s => pc'[o] = pc[o] /\ buf'[o] = buf[o],
         pc'[s] \notin Buffering => buf'[s] = <<>>,
         pc'[s] \in Filling => pos'[s] = Len(journal'[new_stamp'[s]]),
         pc'[s] = "copy" => queue' # <<>> /\ ref'[s] = Head(queue'),
         pc'[s] = "pop" => queue' # <<>> /\ r'[s] = Head(queue')
  PROVE  CopyInv'
<1>1. \A o \in Stager : o # s => pc'[o] = "idle" /\ buf'[o] = <<>>
  BY OneAtWork
<1> QED BY <1>1 DEF CopyInv, Buffering, Filling

LEMMA AddThreads ==
  ASSUME SInv, CopyInv, NEW c \in Change, AddJournal(c)
  PROVE  CopyInv'
<1>1. UNCHANGED <<journal, pc, new_stamp, ref, r, buf, pos>> /\ queue' = Append(queue, c)
  BY DEF AddJournal, local
<1>2. queue \in Seq(Change)
  BY DEF SInv, StageTypes
<1>3. queue' # <<>> /\ (queue # <<>> => Head(queue') = Head(queue))
  BY <1>1, <1>2, AppendProperties, HeadTailAppend
<1> QED BY <1>1, <1>3 DEF CopyInv

\* The record in front does not change between front() and pop_front(), so the copy is good.
LEMMA QueueThreads ==
  ASSUME SInv, CopyInv, NEW s \in Stager,
         Loop(s) \/ TakeFront(s) \/ Copy(s) \/ PopFront(s)
  PROVE  CopyInv'
<1>1. /\ UNCHANGED <<journal, new_stamp, pos>> /\ pc[s] \in Filling /\ pc[s] # "idle"
      /\ \E l \in Buffering : pc' = [pc EXCEPT ![s] = l]
      /\ \A o \in Stager : o # s => buf'[o] = buf[o]
  BY DEF Loop, TakeFront, Copy, PopFront, Goto, Filling, Buffering, local, SInv, StageTypes
<1>2. \A o \in Stager : o # s => pc'[o] = pc[o]
  BY <1>1 DEF SInv, StageTypes
<1>3. pc'[s] \in Buffering
  BY <1>1 DEF SInv, StageTypes
<1>4. pos'[s] = Len(journal'[new_stamp'[s]])
  BY <1>1 DEF CopyInv
<1>5. pc'[s] = "copy" => queue' # <<>> /\ ref'[s] = Head(queue')
  <2>1. CASE TakeFront(s)
    BY <2>1 DEF TakeFront, SInv, StageTypes
  <2>2. CASE Loop(s) \/ Copy(s) \/ PopFront(s)
    BY <2>2 DEF Loop, Copy, PopFront, Goto, SInv, StageTypes
  <2> QED BY <2>1, <2>2
<1>6. pc'[s] = "pop" => queue' # <<>> /\ r'[s] = Head(queue')
  <2>1. CASE Copy(s)
    <3>1. /\ pc[s] = "copy" /\ queue' = queue
          /\ \E x \in {ref[s]} \cup (IF ref[s] \in Range(queue) THEN {} ELSE {Garbage}) :
               r' = [r EXCEPT ![s] = x]
      BY <2>1 DEF Copy
    <3>2. queue # <<>> /\ ref[s] = Head(queue)
      BY <3>1 DEF CopyInv
    <3>3. queue \in Seq(Change) /\ Head(queue) = queue[1] /\ 1 \in DOMAIN queue
      BY <3>2 DEF SInv, StageTypes
    <3>4. ref[s] \in Range(queue)
      BY <3>2, <3>3 DEF Range
    <3>5. r' = [r EXCEPT ![s] = ref[s]]
      BY <3>1, <3>4
    <3>6. r'[s] = ref[s]
      BY <3>5 DEF SInv, StageTypes
    <3> QED BY <3>1, <3>2, <3>6
  <2>2. CASE Loop(s) \/ TakeFront(s) \/ PopFront(s)
    BY <2>2 DEF Loop, TakeFront, PopFront, Goto, SInv, StageTypes
  <2> QED BY <2>1, <2>2
<1> QED BY <1>1, <1>2, <1>3, <1>4, <1>5, <1>6, WorkThreads

\* What goes from the buffer to the file is appended to it.
LEMMA WriteOutAppends ==
  ASSUME SInv, CopyInv, NEW s \in Stager, Flush(s) \/ CloseFile(s)
  PROVE  /\ pc[s] \in Filling /\ new_stamp[s] \in Journals /\ new_stamp[s] \in Stamp
         /\ journal[new_stamp[s]] \in Seq(Entry)
         /\ journal' = [journal EXCEPT ![new_stamp[s]] = journal[new_stamp[s]] \o buf[s]]
         /\ journal'[new_stamp[s]] = journal[new_stamp[s]] \o buf[s]
         /\ pos'[s] = Len(journal'[new_stamp[s]])
         /\ Journals' = Journals
<1> DEFINE n == new_stamp[s]
<1>1. pc[s] \in Filling /\ WriteOut(s)
  BY DEF Flush, CloseFile, Filling
<1>2. n \in Journals /\ n \in Stamp /\ journal[n] \in Seq(Entry) /\ buf[s] \in Seq(Entry)
  BY <1>1 DEF SInv, StampInv, StageTypes, Journals
<1>3. pos[s] = Len(journal[n])
  BY <1>1 DEF CopyInv
<1>4. Overlay(journal[n], pos[s], buf[s]) = journal[n] \o buf[s]
  BY <1>2, <1>3, OverlayAtEnd
<1>5. journal' = [journal EXCEPT ![n] = journal[n] \o buf[s]]
  BY <1>1, <1>4 DEF WriteOut
<1>6. journal[n] \o buf[s] \in Seq(Entry) /\ Len(journal[n] \o buf[s]) = Len(journal[n]) + Len(buf[s])
  BY <1>2, ConcatProperties
<1>7. \A m \in Stamp : journal'[m] = IF m = n THEN journal[n] \o buf[s] ELSE journal[m]
  BY <1>5 DEF SInv, StageTypes
<1>8. pos'[s] = pos[s] + Len(buf[s])
  BY <1>1 DEF WriteOut, SInv, StageTypes
<1>9. Journals' = Journals
  BY <1>2, <1>6, <1>7, ConstantsAssumption DEF Journals
<1>10. pos'[s] = Len(journal'[n])
  BY <1>2, <1>3, <1>6, <1>7, <1>8
<1> QED BY <1>1, <1>2, <1>5, <1>7, <1>9, <1>10

\* A thread that opens its file begins at the end of it, and stays there.
LEMMA FileThreads ==
  ASSUME SInv, FileInv, CopyInv, NEW s \in Stager, FileStep(s)
  PROVE  CopyInv'
<1>1. UNCHANGED <<queue, new_stamp, ref, r>>
  BY DEF FileStep, OpenFile, Flush, CloseFile
<1>2. /\ \A o \in Stager : o # s => pc'[o] = pc[o] /\ buf'[o] = buf[o]
      /\ pc[s] # "idle" /\ buf'[s] = <<>> /\ pc'[s] \in {"loop", "set"}
  BY DEF FileStep, OpenFile, Flush, CloseFile, WriteOut, Goto, SInv, StageTypes
<1>3. pos'[s] = Len(journal'[new_stamp[s]])
  <2>1. CASE OpenFile(s)
    <3>1. journal'[new_stamp[s]] = <<>> /\ pos'[s] = 0
      BY <2>1, OpenFileFiles DEF OpenFile, SInv, StageTypes
    <3> QED BY <3>1
  <2>2. CASE Flush(s) \/ CloseFile(s)
    BY <2>2, WriteOutAppends
  <2> QED BY <2>1, <2>2 DEF FileStep
<1> QED BY <1>1, <1>2, <1>3, WorkThreads DEF Buffering

-----------------------------------------------------------------------------
LEMMA FeedStep ==
  ASSUME OneAtATime, SInv, FeedInv, [Next]_vars
  PROVE  FeedInv'
<1> USE DEF FeedInv
<1>1. CASE Tick \/ Wake \/ Done \/ UNCHANGED vars
  <2>1. /\ UNCHANGED <<journal, queue, ref, r, buf, pos, told, phase, latest, new_stamp>>
        /\ \A s \in Stager : pc'[s] = pc[s] \/ (pc[s] = "idle" /\ pc'[s] = "check")
    BY <1>1 DEF Tick, Wake, Goto, Done, vars, local, server, SInv, StageTypes
  <2>2. Journals' = Journals
    BY <2>1 DEF Journals
  <2>3. FileInv'
    BY <2>1, <2>2, QuietFiles DEF Filling
  <2>4. CopyInv'
    BY <2>1, QuietThreads DEF Buffering, Filling
  <2> QED BY <2>3, <2>4
<1>2. CASE Start \/ GetLatestStamp \/ SetServerStamp
  <2>1. UNCHANGED <<journal, queue, ref, r, buf, pos, new_stamp, pc>>
    BY <1>2 DEF Start, GetLatestStamp, SetServerStamp, local
  <2>2. CopyInv'
    BY <2>1, QuietThreads
  <2> QED BY <1>2, <2>2, BootFiles
<1>3. CASE Kill
  <2>1. \A s \in Stager : pc'[s] = "idle" /\ buf'[s] = <<>>
    BY <1>3 DEF Kill
  <2>2. CopyInv'
    BY <2>1 DEF CopyInv, Filling
  <2> QED BY <1>3, <2>2, KillFiles
<1>4. ASSUME NEW c \in Change, AddJournal(c) PROVE FeedInv'
  <2>1. UNCHANGED <<journal, told, phase, latest, new_stamp, pc>>
    BY <1>4 DEF AddJournal, local, server
  <2>2. FileInv'
    BY <2>1, QuietFiles DEF Journals
  <2> QED BY <1>4, <2>2, AddThreads
<1>5. ASSUME NEW s \in Stager,
             \/ s \in Connection /\ (HandleUpdate(s) \/ HandleUpdateStages(s))
             \/ Check(s) \/ GetTimestamp(s)
      PROVE  FeedInv'
  <2>1. /\ UNCHANGED <<journal, queue, ref, r, buf, pos, told, phase, latest>>
        /\ pc[s] \notin Filling /\ pc'[s] \notin Filling
        /\ \A o \in Stager : o # s => pc'[o] = pc[o] /\ new_stamp'[o] = new_stamp[o]
    BY <1>5 DEF HandleUpdate, HandleUpdateStages, Check, GetTimestamp, Goto, local, server, SInv,
                StageTypes, Filling
  <2>2. FileInv'
    BY <2>1, QuietFiles DEF Journals
  <2>3. CopyInv'
    BY <2>1, QuietThreads DEF Buffering, Filling
  <2> QED BY <2>2, <2>3
<1>6. ASSUME NEW s \in Stager, Loop(s) \/ TakeFront(s) \/ Copy(s) \/ PopFront(s)
      PROVE  FeedInv'
  <2>1. UNCHANGED <<journal, told, phase, latest, new_stamp>>
    BY <1>6 DEF Loop, TakeFront, Copy, PopFront, local, server
  <2>2. pc'[s] \in Filling /\ \A o \in Stager : o # s => pc'[o] = pc[o]
    BY <1>6 DEF Loop, TakeFront, Copy, PopFront, Goto, Filling, SInv, StageTypes
  <2>3. FileInv'
    BY <2>1, <2>2, QuietFiles DEF Journals
  <2> QED BY <1>6, <2>3, QueueThreads
<1>7. ASSUME NEW s \in Stager, FileStep(s) PROVE FeedInv'
  <2>1. CASE OpenFile(s)
    BY <2>1, OpenFileFiles, FileThreads DEF FileStep
  <2>2. CASE Flush(s) \/ CloseFile(s)
    <3>1. UNCHANGED <<told, phase, latest, new_stamp>>
      BY <2>2 DEF Flush, CloseFile, server
    <3>2. pc'[s] \in Filling /\ \A o \in Stager : o # s => pc'[o] = pc[o]
      BY <2>2 DEF Flush, CloseFile, Goto, Filling, SInv, StageTypes
    <3>3. FileInv'
      BY <2>2, <3>1, <3>2, QuietFiles, WriteOutAppends
    <3> QED BY <1>7, <3>3, FileThreads
  <2> QED BY <1>7, <2>1, <2>2 DEF FileStep
<1>8. ASSUME NEW s \in Stager, SetStamp(s) PROVE FeedInv'
  <2>1. /\ UNCHANGED <<journal, queue, ref, r, buf, pos, new_stamp>>
        /\ pc[s] = "set" /\ pc'[s] = "idle" /\ \A o \in Stager : o # s => pc'[o] = pc[o]
    BY <1>8 DEF SetStamp, Goto, local, SInv, StageTypes
  <2>2. CopyInv'
    BY <2>1, QuietThreads DEF Buffering, Filling
  <2> QED BY <1>8, <2>2, SetStampFiles
<1>9. ASSUME NEW s \in Connection, HandleUpdate(s) \/ HandleUpdateStages(s) PROVE FeedInv'
  BY <1>5, <1>9 DEF Stager
<1>10. ASSUME NEW s \in Stager, StageStep(s) \/ Flush(s) PROVE FeedInv'
  BY <1>5, <1>6, <1>7, <1>8, <1>10 DEF StageStep, FileStep
<1> QED BY <1>1, <1>2, <1>3, <1>4, <1>9, <1>10 DEF Next

LEMMA FeedInductive ==
  ASSUME OneAtATime PROVE Spec => []FeedInv
<1>1. SInv /\ FeedInv /\ [Next]_vars => FeedInv'
  BY FeedStep
<1> QED BY <1>1, InitFeed, Inductive, PTL DEF Spec

-----------------------------------------------------------------------------
(* Every step is a step of the feed, or none *)

Fed == [n \in Stamp |-> IF n \in Published THEN journal[n] ELSE <<>>]
Waiting == Written \o Buffered \o queue
Implements == [Feed!Next]_<<Fed, told, Waiting>>

\* what Written and Buffered are, when the unpublished file and the thread at work are known
WrittenRule == /\ Unpublished = {} => Written = <<>>
               /\ \A n \in Stamp : Unpublished = {n} => Written = journal[n]
BufferedRule == /\ (\A s \in Stager : buf[s] = <<>>) => Buffered = <<>>
                /\ \A s \in Stager : (\A o \in Stager : o # s => buf[o] = <<>>) => Buffered = buf[s]

LEMMA WrittenIs == WrittenRule
<1>1. ASSUME NEW n \in Stamp, Unpublished = {n} PROVE Written = journal[n]
  <2>1. Max({n}) \in {n}
    BY MaxStamp
  <2> QED BY <1>1, <2>1 DEF Written
<1>2. Unpublished = {} => Written = <<>>
  BY DEF Written
<1> QED BY <1>1, <1>2 DEF WrittenRule

LEMMA BufferedIs == BufferedRule
<1>1. ASSUME NEW s \in Stager, \A o \in Stager : o # s => buf[o] = <<>> PROVE Buffered = buf[s]
  <2>1. CASE buf[s] # <<>>
    <3>1. (CHOOSE o \in Stager : buf[o] # <<>>) = s
      BY <1>1, <2>1
    <3> QED BY <2>1, <3>1 DEF Buffered
  <2>2. CASE buf[s] = <<>>
    BY <1>1, <2>2 DEF Buffered
  <2> QED BY <2>1, <2>2
<1>2. (\A s \in Stager : buf[s] = <<>>) => Buffered = <<>>
  BY DEF Buffered
<1> QED BY <1>1, <1>2 DEF BufferedRule

\* What is written, buffered and queued are sequences of entries.
LEMMA WaitingTypes ==
  ASSUME SInv, FeedInv
  PROVE  /\ Unpublished = {} \/ \E n \in Stamp : Unpublished = {n}
         /\ Written \in Seq(Entry) /\ Buffered \in Seq(Entry) /\ queue \in Seq(Entry)
<1>1. Unpublished = {} \/ \E n \in Stamp : Unpublished = {n}
  <2>1. Unpublished \subseteq Stamp
    BY DEF Unpublished, Journals
  <2>2. \A m, n \in Unpublished : m = n
    <3>1. CASE phase = "up"
      <4>1. \A s, o \in Stager : pc[s] \in Filling /\ pc[o] \in Filling => s = o
        BY DEF SInv, AloneInv, Filling
      <4> QED BY <3>1, <4>1 DEF FeedInv, FileInv
    <3> QED BY <3>1 DEF FeedInv, FileInv
  <2>3. CASE Unpublished # {}
    <3>1. PICK n \in Unpublished : TRUE
      BY <2>3
    <3>2. n \in Stamp /\ Unpublished = {n}
      BY <2>1, <2>2, <3>1
    <3> QED BY <3>2
  <2> QED BY <2>3
<1>2. Written \in Seq(Entry)
  <2>1. CASE Unpublished = {}
    BY <2>1, WrittenIs, EmptySeq DEF WrittenRule
  <2>2. ASSUME NEW n \in Stamp, Unpublished = {n} PROVE Written \in Seq(Entry)
    <3>1. journal[n] \in Seq(Entry)
      BY <2>2 DEF Unpublished, Journals, SInv, StageTypes
    <3> QED BY <2>2, <3>1, WrittenIs DEF WrittenRule
  <2> QED BY <1>1, <2>1, <2>2
<1>3. Buffered \in Seq(Entry)
  <2>1. CASE \A s \in Stager : buf[s] = <<>>
    BY <2>1, BufferedIs, EmptySeq DEF BufferedRule
  <2>2. ASSUME NEW s \in Stager, buf[s] # <<>> PROVE Buffered \in Seq(Entry)
    <3>1. pc[s] # "idle"
      BY <2>2 DEF FeedInv, CopyInv, Buffering
    <3>2. \A o \in Stager : o # s => buf[o] = <<>>
      BY <3>1, OneAtWork DEF FeedInv
    <3> QED BY <3>2, BufferedIs DEF BufferedRule, SInv, StageTypes
  <2> QED BY <2>1, <2>2
<1>4. queue \in Seq(Entry)
  <2>1. Change \subseteq Entry
    BY DEF Entry
  <2> QED BY <2>1, SeqMonotonic DEF SInv, StageTypes
<1> QED BY <1>1, <1>2, <1>3, <1>4

LEMMA QuietFed ==
  ASSUME UNCHANGED <<journal, told>>
  PROVE  Fed' = Fed /\ Written' = Written /\ Unpublished' = Unpublished
<1>1. Journals' = Journals /\ Published' = Published
  BY DEF Journals, Published
<1>2. Unpublished' = Unpublished
  BY <1>1 DEF Unpublished
<1> QED BY <1>1, <1>2 DEF Fed, Written

LEMMA QuietImplements ==
  ASSUME UNCHANGED <<journal, told, buf, queue>>
  PROVE  Implements
<1>1. Buffered' = Buffered
  BY DEF Buffered
<1> QED BY <1>1, QuietFed DEF Implements, Waiting

LEMMA AddImplements ==
  ASSUME SInv, FeedInv, NEW c \in Change, AddJournal(c)
  PROVE  Implements
<1>1. UNCHANGED <<journal, told, buf>> /\ queue' = Append(queue, c)
  BY DEF AddJournal, local
<1>2. Buffered' = Buffered
  BY <1>1 DEF Buffered
<1>3. /\ Written \in Seq(Entry) /\ Buffered \in Seq(Entry) /\ queue \in Seq(Entry)
      /\ c \in Entry /\ <<c>> \in Seq(Entry)
  <2>1. c \in Entry
    BY DEF Entry
  <2> QED BY <2>1, WaitingTypes
<1>4. Written \o Buffered \in Seq(Entry)
  BY <1>3, ConcatProperties
<1>5. Waiting' = (Written \o Buffered) \o (queue \o <<c>>)
  BY <1>1, <1>2, <1>3, QuietFed, AppendIsConcat DEF Waiting
<1>6. Waiting' = ((Written \o Buffered) \o queue) \o <<c>>
  BY <1>3, <1>4, <1>5, ConcatAssociative
<1>7. Waiting \in Seq(Entry)
  BY <1>3, <1>4, ConcatProperties DEF Waiting
<1>8. Waiting' = Append(Waiting, c)
  BY <1>3, <1>6, <1>7, AppendIsConcat DEF Waiting
<1>9. Fed' = Fed
  BY <1>1, QuietFed
<1> QED BY <1>1, <1>8, <1>9 DEF Implements, Feed!Next, Feed!Add, Fed, Waiting

\* The two parts of a concatenation.
LEMMA ConcatParts ==
  ASSUME NEW s \in Seq(Entry), NEW t \in Seq(Entry)
  PROVE  /\ Len(s) \in 0..Len(s \o t)
         /\ SubSeq(s \o t, 1, Len(s)) = s
         /\ SubSeq(s \o t, Len(s) + 1, Len(s \o t)) = t
<1> DEFINE u == s \o t  l == Len(s)  m == Len(t)
<1>1. /\ u \in Seq(Entry) /\ Len(u) = l + m /\ l \in Nat /\ m \in Nat
      /\ \A i \in 1..(l + m) : u[i] = IF i <= l THEN s[i] ELSE t[i - l]
  BY ConcatProperties
<1>2. \A i \in 1..(l + m) : u[i] \in Entry
  BY <1>1, ElementOfSeq
<1> HIDE DEF u, l, m
<1>3. SubSeq(u, 1, l) = s
  <2>1. \A i \in 1..l : u[i] \in Entry
    BY <1>1, <1>2
  <2>2. /\ SubSeq(u, 1, l) \in Seq(Entry)
        /\ Len(SubSeq(u, 1, l)) = IF 1 <= l THEN l - 1 + 1 ELSE 0
        /\ \A i \in 1..(l - 1 + 1) : SubSeq(u, 1, l)[i] = u[1 + i - 1]
    BY <1>1, <2>1, SubSeqProperties
  <2>3. Len(SubSeq(u, 1, l)) = l /\ \A i \in 1..l : SubSeq(u, 1, l)[i] = s[i]
    BY <1>1, <2>2
  <2> QED BY <2>2, <2>3, SeqEqual DEF l
<1>4. SubSeq(u, l + 1, l + m) = t
  <2> DEFINE a == l + 1  b == l + m
  <2>1. a \in Int /\ b \in Int /\ \A i \in a..b : u[i] \in Entry
    BY <1>1, <1>2
  <2> HIDE DEF a, b
  <2>2. /\ SubSeq(u, a, b) \in Seq(Entry)
        /\ Len(SubSeq(u, a, b)) = IF a <= b THEN b - a + 1 ELSE 0
        /\ \A i \in 1..(b - a + 1) : SubSeq(u, a, b)[i] = u[a + i - 1]
    BY <2>1, SubSeqProperties
  <2>3. Len(SubSeq(u, a, b)) = m /\ \A i \in 1..m : SubSeq(u, a, b)[i] = t[i]
    BY <1>1, <2>2 DEF a, b
  <2>4. SubSeq(u, a, b) = t
    BY <2>2, <2>3, SeqEqual DEF m
  <2> QED BY <2>4 DEF a, b
<1> QED BY <1>1, <1>3, <1>4 DEF u, l, m

\* An entry moves from the front of the one to the end of the other.
LEMMA ConcatMoved ==
  ASSUME NEW w \in Seq(Entry), NEW b \in Seq(Entry), NEW c \in Entry, NEW q \in Seq(Entry)
  PROVE  (w \o Append(b, c)) \o q = (w \o b) \o (<<c>> \o q)
<1>1. <<c>> \in Seq(Entry)
  OBVIOUS
<1>2. PICK x \in Seq(Entry) : x = <<c>>
  BY <1>1, Zenon
<1>3. Append(b, c) = b \o x
  BY <1>2, AppendIsConcat
<1>4. (w \o b) \o x = w \o (b \o x)
  BY ConcatAssociative
<1>5. w \o b \in Seq(Entry)
  BY ConcatProperties
<1>6. PICK y \in Seq(Entry) : y = w \o b
  BY <1>5, Zenon
<1>7. (y \o x) \o q = y \o (x \o q)
  BY ConcatAssociative
<1> QED BY <1>2, <1>3, <1>4, <1>6, <1>7

\* What is popped goes to the end of the buffer.
LEMMA PopImplements ==
  ASSUME SInv, FeedInv, NEW s \in Stager, PopFront(s)
  PROVE  Implements
<1>1. /\ UNCHANGED <<journal, told>> /\ pc[s] = "pop" /\ queue # <<>> /\ queue' = Tail(queue)
      /\ buf' = [buf EXCEPT ![s] = Append(buf[s], r[s])]
  BY DEF PopFront
<1>2. \A o \in Stager : o # s => buf[o] = <<>>
  BY <1>1, OneAtWork DEF FeedInv
<1>3. buf[s] \in Seq(Entry) /\ buf'[s] = Append(buf[s], r[s]) /\ \A o \in Stager : o # s => buf'[o] = <<>>
  BY <1>1, <1>2 DEF SInv, StageTypes
<1>4. Buffered = buf[s]
  BY <1>2, BufferedIs DEF BufferedRule
<1>5. BufferedRule'
  BY BufferedIs, PTL
<1>6. Buffered' = Append(buf[s], r[s])
  BY <1>3, <1>5 DEF BufferedRule
<1> DEFINE c == Head(queue)
<1>7. r[s] = c
  BY <1>1 DEF FeedInv, CopyInv
<1>8. /\ Written \in Seq(Entry) /\ queue \in Seq(Entry) /\ c \in Entry /\ <<c>> \in Seq(Entry)
      /\ Tail(queue) \in Seq(Entry)
  <2>1. Written \in Seq(Entry) /\ queue \in Seq(Entry)
    BY WaitingTypes
  <2>2. c \in Entry /\ Tail(queue) \in Seq(Entry)
    BY <1>1, <2>1, HeadTailProperties
  <2> QED BY <2>1, <2>2
<1>9. queue = <<c>> \o Tail(queue)
  BY <1>1, <1>8
<1> HIDE DEF c
<1>10. Waiting' = (Written \o Append(buf[s], c)) \o Tail(queue)
  BY <1>1, <1>6, <1>7, QuietFed DEF Waiting
<1>11. (Written \o Append(buf[s], c)) \o Tail(queue) = (Written \o buf[s]) \o (<<c>> \o Tail(queue))
  <2>1. Written \in Seq(Entry) /\ buf[s] \in Seq(Entry) /\ c \in Entry /\ Tail(queue) \in Seq(Entry)
    BY <1>3, <1>8
  <2> QED BY <2>1, ConcatMoved
<1>12. Waiting = (Written \o buf[s]) \o (<<c>> \o Tail(queue))
  BY <1>4, <1>9 DEF Waiting
<1>13. Waiting' = Waiting
  BY <1>10, <1>11, <1>12
<1> QED BY <1>1, <1>13, QuietFed DEF Implements

\* A new file is empty, and clients do not know its name.
LEMMA OpenImplements ==
  ASSUME SInv, FeedInv, NEW s \in Stager, OpenFile(s)
  PROVE  Implements
<1>1. pc[s] = "open" /\ UNCHANGED <<queue, told>> /\ buf' = [buf EXCEPT ![s] = <<>>]
  BY DEF OpenFile
<1>2. new_stamp[s] \in Stamp
  BY <1>1 DEF SInv, StampInv
<1>3. /\ Unpublished = {} /\ Unpublished' = {new_stamp[s]} /\ Published' = Published
      /\ \A n \in Published : journal'[n] = journal[n]
      /\ journal'[new_stamp[s]] = <<>>
  BY OpenFileFiles DEF FeedInv
<1>4. Written = <<>>
  BY <1>3, WrittenIs DEF WrittenRule
<1>5. WrittenRule' /\ BufferedRule'
  BY WrittenIs, BufferedIs, PTL
<1>6. Written' = <<>>
  BY <1>2, <1>3, <1>5 DEF WrittenRule
<1>7. \A o \in Stager : buf[o] = <<>> /\ buf'[o] = <<>>
  <2>1. buf[s] = <<>>
    BY <1>1 DEF FeedInv, CopyInv, Buffering
  <2>2. \A o \in Stager : o # s => buf[o] = <<>>
    BY <1>1, OneAtWork DEF FeedInv
  <2> QED BY <1>1, <2>1, <2>2 DEF SInv, StageTypes
<1>8. Buffered = <<>> /\ Buffered' = <<>>
  BY <1>5, <1>7, BufferedIs DEF BufferedRule
<1>9. Fed' = Fed
  BY <1>3 DEF Fed
<1> QED BY <1>1, <1>4, <1>6, <1>8, <1>9 DEF Implements, Waiting

\* The buffer goes to the end of the file that is not published.
LEMMA WriteImplements ==
  ASSUME SInv, FeedInv, NEW s \in Stager, Flush(s) \/ CloseFile(s)
  PROVE  Implements
<1> DEFINE n == new_stamp[s]
<1>1. /\ pc[s] \in Filling /\ n \in Stamp /\ journal[n] \in Seq(Entry) /\ Journals' = Journals
      /\ journal' = [journal EXCEPT ![n] = journal[n] \o buf[s]]
      /\ journal'[n] = journal[n] \o buf[s]
  BY WriteOutAppends DEF FeedInv
<1>2. UNCHANGED <<queue, told>> /\ buf' = [buf EXCEPT ![s] = <<>>]
  BY DEF Flush, CloseFile, WriteOut
<1>3. phase = "up" /\ pc[s] # "idle"
  BY <1>1 DEF SInv, AloneInv, Filling
<1>4. Unpublished = {n}
  BY <1>1, <1>3, WritingOne DEF FeedInv
<1>5. Published' = Published
  BY <1>1, <1>2 DEF Published
<1>6. Unpublished' = {n}
  BY <1>1, <1>4, <1>5 DEF Unpublished
<1>7. WrittenRule' /\ BufferedRule'
  BY WrittenIs, BufferedIs, PTL
<1>8. Written = journal[n] /\ Written' = journal[n] \o buf[s]
  BY <1>1, <1>4, <1>6, <1>7, WrittenIs DEF WrittenRule
<1>9. \A o \in Stager : o # s => buf[o] = <<>>
  BY <1>3, OneAtWork DEF FeedInv
<1>10. \A o \in Stager : buf'[o] = <<>>
  BY <1>2, <1>9 DEF SInv, StageTypes
<1>11. Buffered = buf[s] /\ Buffered' = <<>>
  BY <1>7, <1>9, <1>10, BufferedIs DEF BufferedRule
<1>12. Waiting' = Waiting
  <2>1. Written' \in Seq(Entry)
    BY <1>1, <1>8, ConcatProperties DEF SInv, StageTypes
  <2>2. Written' \o Buffered' = Written \o Buffered
    BY <1>8, <1>11, <2>1, ConcatEmptySeq
  <2> QED BY <1>2, <2>2 DEF Waiting
<1>13. \A m \in Published : journal'[m] = journal[m]
  <2>1. n \notin Published
    BY <1>4 DEF Unpublished
  <2> QED BY <1>1, <2>1 DEF Published, Journals, SInv, StageTypes
<1>14. Fed' = Fed
  BY <1>5, <1>13 DEF Fed
<1> QED BY <1>2, <1>12, <1>14 DEF Implements

\* What becomes published when told goes up is the file that was not.
LEMMA PublishedNow ==
  ASSUME NEW n \in Stamp, UNCHANGED journal, Unpublished = {n}, Unpublished' = {},
         told' = n, told \in Nat, told < n
  PROVE  Fed' = [Fed EXCEPT ![n] = journal[n]]
<1>1. Journals' = Journals /\ \A m \in Journals : m \in Nat
  BY StampIsNat DEF Journals
<1>2. n \in Journals /\ n \notin Published /\ Published' = Published \cup {n}
  BY <1>1 DEF Unpublished, Published
<1> QED BY <1>2 DEF Fed

\* The k oldest are published under n.
LEMMA PublishImplements ==
  ASSUME SInv, FeedInv, NEW n \in Stamp, n > told, told' = n,
         Fed' = [Fed EXCEPT ![n] = Written],
         Waiting = Written \o queue, Waiting' = queue
  PROVE  Implements
<1>1. Written \in Seq(Entry) /\ queue \in Seq(Entry)
  BY WaitingTypes
<1>2. PICK k : k = Len(Written)
  OBVIOUS
<1>3. /\ k \in 0..Len(Waiting)
      /\ SubSeq(Waiting, 1, k) = Written
      /\ SubSeq(Waiting, k + 1, Len(Waiting)) = Waiting'
  BY <1>1, <1>2, ConcatParts
<1>4. Feed!Publish(n, k)
  BY <1>3 DEF Feed!Publish, Fed, Waiting
<1>5. Feed!Next
  BY <1>3, <1>4 DEF Feed!Next, Waiting
<1> QED BY <1>5 DEF Implements

\* The file that has been written is published as it is.
LEMMA SetStampImplements ==
  ASSUME SInv, FeedInv, NEW s \in Stager, SetStamp(s)
  PROVE  Implements
<1> DEFINE n == new_stamp[s]
<1>1. UNCHANGED <<journal, queue, buf>> /\ pc[s] = "set"
  BY DEF SetStamp, local
<1>2. /\ n \in Stamp /\ told' = n /\ told < n /\ Unpublished = {n} /\ Unpublished' = {}
  BY SetStampFiles DEF FeedInv
<1>3. WrittenRule'
  BY WrittenIs, PTL
<1>4. Written = journal[n] /\ Written' = <<>>
  BY <1>2, <1>3, WrittenIs DEF WrittenRule
<1>5. Buffered = <<>> /\ Buffered' = <<>>
  <2>1. \A o \in Stager : buf[o] = <<>>
    BY <1>1, OneAtWork DEF FeedInv, CopyInv, Buffering
  <2>2. BufferedRule'
    BY BufferedIs, PTL
  <2> QED BY <1>1, <2>1, <2>2, BufferedIs DEF BufferedRule
<1>6. Written \in Seq(Entry) /\ queue \in Seq(Entry)
  BY WaitingTypes
<1>7. Waiting = Written \o queue /\ Waiting' = queue
  BY <1>1, <1>4, <1>5, <1>6, ConcatEmptySeq DEF Waiting
<1>8. Fed' = [Fed EXCEPT ![n] = Written]
  BY <1>1, <1>2, <1>4, PublishedNow DEF SInv, StageTypes
<1>9. PICK m \in Stamp : m = n
  BY <1>2
<1>10. m > told /\ told' = m /\ Fed' = [Fed EXCEPT ![m] = Written]
  BY <1>2, <1>8, <1>9
<1> QED BY <1>7, <1>10, PublishImplements

\* The constructor publishes what a crash has left.
LEMMA ServerStampImplements ==
  ASSUME SInv, FeedInv, SetServerStamp
  PROVE  Implements
<1>1. /\ phase = "assign" /\ UNCHANGED <<journal, queue, buf, latest>>
      /\ told' = IF latest > told THEN latest ELSE told
  BY DEF SetServerStamp, Publish, local
<1>2. told \in Nat /\ latest \in Nat /\ told <= latest /\ latest \in Stamp
  BY <1>1 DEF SInv, StageTypes, StampInv, FeedInv, FileInv, Journals
<1>3. CASE told' = told
  BY <1>1, <1>3, QuietImplements
<1>4. CASE told' # told
  <2>1. told' = latest /\ told < latest
    BY <1>1, <1>2, <1>4
  <2>2. Journals' = Journals /\ \A m \in Journals : m \in Nat /\ m <= latest
    BY <1>1, StampIsNat DEF FeedInv, FileInv, Journals
  <2>3. Unpublished' = {}
    BY <2>1, <2>2 DEF Unpublished, Published
  <2>4. Unpublished = IF Journals = {} THEN {} ELSE {latest}
    <3>1. CASE Journals = {}
      BY <3>1 DEF Unpublished
    <3>2. CASE Journals # {}
      <4>1. latest \in Journals /\ latest \notin Published
        BY <1>1, <1>2, <2>1, <3>2 DEF FeedInv, FileInv, Published
      <4>2. latest \in Unpublished /\ \A m \in Unpublished : m = latest
        BY <1>1, <4>1 DEF FeedInv, FileInv, Unpublished
      <4> QED BY <3>2, <4>2
    <3> QED BY <3>1, <3>2
  <2>5. WrittenRule'
    BY WrittenIs, PTL
  <2>6. Written' = <<>>
    BY <2>3, <2>5 DEF WrittenRule
  <2>7. Buffered = <<>> /\ Buffered' = <<>> /\ queue = <<>>
    <3>1. queue = <<>> /\ \A s \in Stager : pc[s] \in {"idle", "check"}
      BY <1>1 DEF SInv, AloneInv
    <3>2. \A s \in Stager : buf[s] = <<>>
      BY <3>1 DEF FeedInv, CopyInv, Buffering
    <3>3. BufferedRule'
      BY BufferedIs, PTL
    <3> QED BY <1>1, <3>1, <3>2, <3>3, BufferedIs DEF BufferedRule
  <2>8. Written \in Seq(Entry) /\ <<>> \in Seq(Entry) /\ <<>> \o <<>> = <<>>
    BY WaitingTypes, EmptySeq, ConcatEmptySeq
  <2>9. Waiting = Written \o <<>> /\ Waiting' = <<>>
    BY <1>1, <2>6, <2>7, <2>8, ConcatEmptySeq DEF Waiting
  <2>11. Fed' = [Fed EXCEPT ![latest] = Written]
    <3>1. CASE Journals = {}
      <4>1. Written = <<>>
        BY <2>4, <3>1, WrittenIs DEF WrittenRule
      <4>2. Fed = [n \in Stamp |-> <<>>] /\ Fed' = [n \in Stamp |-> <<>>]
        BY <2>2, <3>1 DEF Fed, Published
      <4> QED BY <1>2, <4>1, <4>2
    <3>2. CASE Journals # {}
      <4>1. Unpublished = {latest}
        BY <2>4, <3>2
      <4>2. Written = journal[latest]
        BY <1>2, <4>1, WrittenIs DEF WrittenRule
      <4> QED BY <1>1, <1>2, <2>1, <2>3, <4>1, <4>2, PublishedNow
    <3> QED BY <3>1, <3>2
  <2>12. PICK n \in Stamp : n = latest
    BY <1>2
  <2>13. n > told /\ told' = n /\ Fed' = [Fed EXCEPT ![n] = Written]
    BY <1>2, <2>1, <2>11, <2>12
  <2>14. Waiting = Written \o queue /\ Waiting' = queue
    BY <1>1, <2>7, <2>9
  <2> QED BY <2>13, <2>14, PublishImplements
<1> QED BY <1>3, <1>4

\* A crash leaves what is in the file, and drops what is in the buffer and in the queue.
LEMMA KillImplements ==
  ASSUME SInv, FeedInv, Kill
  PROVE  Implements
<1>1. UNCHANGED <<journal, told>> /\ queue' = <<>> /\ \A s \in Stager : buf'[s] = <<>>
  BY DEF Kill
<1>2. BufferedRule'
  BY BufferedIs, PTL
<1>3. Buffered' = <<>>
  BY <1>1, <1>2 DEF BufferedRule
<1>4. Written \in Seq(Entry) /\ Buffered \in Seq(Entry) /\ queue \in Seq(Entry)
  BY WaitingTypes
<1>5. Waiting' = Written
  BY <1>1, <1>3, <1>4, QuietFed, ConcatEmptySeq DEF Waiting
<1>6. Waiting = Written \o (Buffered \o queue) /\ Buffered \o queue \in Seq(Entry)
  BY <1>4, ConcatAssociative, ConcatProperties DEF Waiting
<1> DEFINE k == Len(Written)
<1>7. k \in 0..Len(Waiting) /\ SubSeq(Waiting, 1, k) = Waiting'
  BY <1>4, <1>5, <1>6, ConcatParts
<1>8. Fed' = Fed
  BY <1>1, QuietFed
<1> HIDE DEF k
<1>9. Feed!Crash(k)
  BY <1>1, <1>7, <1>8 DEF Feed!Crash, Fed, Waiting
<1> QED BY <1>7, <1>9 DEF Implements, Feed!Next, Fed, Waiting

LEMMA StepImplements ==
  ASSUME SInv, FeedInv, [Next]_vars
  PROVE  Implements
<1>1. CASE Kill
  BY <1>1, KillImplements
<1>2. CASE SetServerStamp
  BY <1>2, ServerStampImplements
<1>3. ASSUME NEW c \in Change, AddJournal(c) PROVE Implements
  BY <1>3, AddImplements
<1>4. ASSUME NEW s \in Stager, SetStamp(s) PROVE Implements
  BY <1>4, SetStampImplements
<1>5. ASSUME NEW s \in Stager, OpenFile(s) \/ Flush(s) \/ CloseFile(s) PROVE Implements
  BY <1>5, OpenImplements, WriteImplements
<1>6. ASSUME NEW s \in Stager, PopFront(s) PROVE Implements
  BY <1>6, PopImplements
<1>7. CASE \/ Tick \/ Start \/ GetLatestStamp \/ Wake \/ Done \/ UNCHANGED vars
           \/ \E s \in Connection : HandleUpdate(s) \/ HandleUpdateStages(s)
           \/ \E s \in Stager : \/ Check(s) \/ GetTimestamp(s) \/ Loop(s) \/ TakeFront(s)
                                \/ Copy(s)
  <2>1. UNCHANGED <<journal, told, buf, queue>>
    BY <1>7 DEF Tick, Start, GetLatestStamp, Wake, Done, HandleUpdate, HandleUpdateStages,
                Check, GetTimestamp, Loop, TakeFront, Copy, vars, local
  <2> QED BY <2>1, QuietImplements
<1> QED BY <1>1, <1>2, <1>3, <1>4, <1>5, <1>6, <1>7 DEF Next, StageStep

LEMMA InitImplements == Init => Feed!Init
<1> SUFFICES ASSUME Init PROVE Feed!Init
  OBVIOUS
<1>1. Journals = {} /\ told = 0 /\ queue = <<>> /\ \A s \in Stager : buf[s] = <<>>
  BY DEF Init, Journals
<1>2. Written = <<>> /\ Buffered = <<>> /\ Published = {}
  BY <1>1, WrittenIs, BufferedIs DEF WrittenRule, BufferedRule, Unpublished, Published
<1>3. <<>> \o <<>> \o <<>> = <<>>
  BY EmptySeq, ConcatEmptySeq
<1> QED BY <1>1, <1>2, <1>3 DEF Feed!Init

\* The journal is a feed of changes by stamp, as long as the threads do not meet: staging moves
\* the changes in the order of the queue to files above every stamp that was given out, and
\* publishes a file when it is whole; a crash at any step drops the latest changes only, and
\* the next start publishes what is in the files (DriveServerAgent.cpp:33-35, 439-460).
THEOREM StagingImplementsFeed ==
  ASSUME OneAtATime PROVE Spec => ImplementsChangeFeed
<1>1. Init => Feed!Init
  BY InitImplements
<1>2. SInv /\ FeedInv /\ [Next]_vars => Implements
  BY StepImplements
<1>3. Implements => [Feed!Next]_<<Fed, told, Waiting>>
  BY DEF Implements
<1> QED BY <1>1, <1>2, <1>3, Inductive, FeedInductive, PTL
        DEF Spec, ImplementsChangeFeed, Feed!Spec, Fed, Waiting
=============================================================================
