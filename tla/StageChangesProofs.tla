------------------------- MODULE StageChangesProofs -------------------------
(* Theorems about StageChanges, for every value of its constants. *)
EXTENDS StageChangesProps, SequenceTheorems, WellFoundedInduction, TLAPS

\* Two threads do not stage at the same time, nor in the same millisecond, and no push comes
\* while the server starts. Without this the theorems do not hold (run overlap).
OneAtATime == Meeting = {}

-----------------------------------------------------------------------------
(* Data *)

\* A non-empty set of natural numbers has a least element.
LEMMA LeastNat ==
  ASSUME NEW S \in SUBSET Nat, S # {}
  PROVE  \E n \in S : \A m \in S : n <= m
<1>1. PICK n \in S : \A m \in S : ~(<<m, n>> \in OpToRel(<, Nat))
  BY WFMin, NatLessThanWellFounded
<1>2. \A m \in S : ~(m < n)
  BY <1>1 DEF OpToRel
<1> QED BY <1>2

\* getLatestStamp returns the highest stamp in the directory.
LEMMA MaxStamp ==
  ASSUME NEW S \in SUBSET Stamp, S # {}
  PROVE  Max(S) \in S /\ \A m \in S : m <= Max(S)
<1> DEFINE D == {d \in Nat : \E m \in S : d = MaxClock - m}
<1>1. MaxClock \in Nat /\ \A m \in S : m \in Nat /\ MaxClock - m \in D
  BY ConstantsAssumption DEF Stamp
<1>2. D \in SUBSET Nat /\ D # {}
  BY <1>1
<1>3. PICK d \in D : \A e \in D : d <= e
  BY <1>2, LeastNat
<1>4. PICK n \in S : d = MaxClock - n
  BY <1>3
<1>5. \A m \in S : MaxClock - n <= MaxClock - m
  BY <1>1, <1>3, <1>4
<1>6. \E x \in S : \A y \in S : x >= y
  BY <1>1, <1>5
<1>7. Max(S) \in S /\ \A y \in S : Max(S) >= y
  BY <1>6 DEF Max
<1> QED BY <1>1, <1>7

\* Writing to a file leaves a file.
LEMMA OverlayType ==
  ASSUME NEW file \in Seq(Entry), NEW p \in Nat, NEW es \in Seq(Entry)
  PROVE  Overlay(file, p, es) \in Seq(Entry)
<1> DEFINE end == p + Len(es)
           S == {end, Len(file)}
<1>1. end \in Nat /\ Len(file) \in Nat
  OBVIOUS
<1>2. \E x \in S : \A y \in S : x >= y
  BY <1>1
<1>3. Max(S) \in S /\ \A y \in S : Max(S) >= y
  BY <1>2 DEF Max
<1>4. Max(S) \in Nat /\ Max(S) >= end
  BY <1>1, <1>3
<1>5. CASE es = <<>>
  BY <1>5 DEF Overlay
<1>6. CASE es # <<>>
  <2> DEFINE m == Max(S)
             cells == [i \in 1..m |-> IF i > p /\ i <= end THEN es[i - p]
                                      ELSE IF i <= Len(file) THEN file[i] ELSE Garbage]
  <2>1. Overlay(file, p, es) = cells
    BY <1>6 DEF Overlay
  <2> HIDE DEF m
  <2>2. ASSUME NEW i \in 1..m PROVE cells[i] \in Entry
    <3>1. CASE i > p /\ i <= end
      <4>1. i - p \in 1..Len(es)
        BY <3>1, <1>1
      <4> QED BY <3>1, <4>1
    <3>2. CASE ~(i > p /\ i <= end) /\ i <= Len(file)
      BY <3>2
    <3>3. CASE ~(i > p /\ i <= end) /\ ~(i <= Len(file))
      BY <3>3 DEF Entry
    <3> QED BY <3>1, <3>2, <3>3
  <2>3. m \in Nat
    BY <1>4 DEF m
  <2>4. cells \in [1..m -> Entry]
    BY <2>2
  <2>5. cells \in Seq(Entry)
    BY <2>3, <2>4, SeqDef
  <2> QED BY <2>1, <2>5
<1> QED BY <1>5, <1>6

-----------------------------------------------------------------------------
(* The inductive invariant *)

Filling == {"loop", "front", "copy", "pop", "close", "set"}

\* what is needed of the types
StageTypes ==
  /\ queue \in Seq(Change)
  /\ journal \in [Stamp -> Seq(Entry) \cup {NoFile}]
  /\ pc \in [Stager -> {"idle", "apply", "check", "stamp", "open"} \cup Filling]
  /\ new_stamp \in [Stager -> Nat]
  /\ ref \in [Stager -> Entry]
  /\ r \in [Stager -> Entry]
  /\ buf \in [Stager -> Seq(Entry)]
  /\ pos \in [Stager -> Nat]
  /\ clock \in Stamp
  /\ rest \in [Stager -> Nat]
  /\ phase \in {"down", "list", "assign", "up"}
  /\ server_stamp \in Nat /\ since \in Nat /\ latest \in Nat /\ told \in Nat

\* One thread stages, later than all stagings before it, and only when the server has been
\* up for a millisecond is there anything to stage.
AloneInv ==
  /\ \A s, o \in Stager : pc[s] # "idle" => (clock > rest[o] /\ (pc[o] # "idle" => s = o))
  /\ queue # <<>> => phase = "up" /\ clock > since
  /\ \A s \in Stager : pc[s] \notin {"idle", "check"} => phase = "up" /\ clock > since

\* Nothing is in the future; the latest journal is not behind what clients know.
ClockInv ==
  /\ told <= clock /\ since <= clock
  /\ \A o \in Stager : rest[o] <= clock
  /\ \A n \in Journals : n <= clock
  /\ Journals = {} \/ \E n \in Journals : told <= n

\* server_stamp is told when the server is up, and what is being written is above it.
StampInv ==
  /\ phase = "assign" => /\ told <= latest /\ latest <= clock
                         /\ Journals = {} \/ \E n \in Journals : latest <= n
  /\ phase = "up" => /\ server_stamp = told
                     /\ told <= since \/ \E o \in Stager : told <= rest[o]
  /\ \A s \in Stager : pc[s] \in {"open"} \cup Filling =>
       new_stamp[s] \in Stamp /\ told < new_stamp[s] /\ new_stamp[s] <= clock
  /\ \A s \in Stager : pc[s] \in Filling => new_stamp[s] \in Journals

SInv == StageTypes /\ AloneInv /\ ClockInv /\ StampInv

LEMMA StampIsNat == Stamp \in SUBSET Nat /\ 1 \in Stamp
BY ConstantsAssumption DEF Stamp

LEMMA InitInv == Init => SInv
<1> SUFFICES ASSUME Init PROVE SInv
  OBVIOUS
<1>1. Journals = {}
  BY DEF Init, Journals
<1>2. StageTypes
  BY StampIsNat DEF Init, StageTypes, Entry
<1>3. AloneInv
  BY DEF Init, AloneInv
<1>4. ClockInv
  BY <1>1 DEF Init, ClockInv
<1>5. StampInv
  BY <1>1 DEF Init, StampInv, Filling
<1> QED BY <1>2, <1>3, <1>4, <1>5 DEF SInv

-----------------------------------------------------------------------------
(* The steps keep the invariant *)

LEMMA StutterInv == SInv /\ UNCHANGED vars => SInv'
BY DEF SInv, StageTypes, AloneInv, ClockInv, StampInv, Journals, vars, local, server

\* The clock goes forward.
LEMMA TickInv == SInv /\ Tick => SInv'
<1> SUFFICES ASSUME SInv, Tick PROVE SInv'
  OBVIOUS
<1>1. clock \in Nat /\ MaxClock \in Nat /\ clock' = clock + 1 /\ clock' \in Stamp
  BY ConstantsAssumption DEF SInv, StageTypes, Tick, Stamp
<1>2. UNCHANGED <<queue, journal, server_stamp, pc, new_stamp, ref, r, buf, pos, rest, phase,
                  since, latest, told>>
  BY DEF Tick, local, server
<1>3. Journals' = Journals /\ Journals \in SUBSET Nat
  BY <1>2, StampIsNat DEF Journals
<1>4. StageTypes'
  BY <1>1, <1>2 DEF SInv, StageTypes
<1>5. AloneInv'
  BY <1>1, <1>2 DEF SInv, StageTypes, AloneInv
<1>6. ClockInv'
  BY <1>1, <1>2, <1>3 DEF SInv, StageTypes, ClockInv
<1>7. StampInv'
  BY <1>1, <1>2, <1>3 DEF SInv, StageTypes, StampInv
<1> QED BY <1>4, <1>5, <1>6, <1>7 DEF SInv

\* The constructor takes the highest stamp that any client can have.
LEMMA BootInv == SInv /\ (Start \/ GetLatestStamp \/ SetServerStamp) => SInv'
<1> SUFFICES ASSUME SInv, Start \/ GetLatestStamp \/ SetServerStamp PROVE SInv'
  OBVIOUS
<1>1. UNCHANGED <<queue, journal, pc, new_stamp, ref, r, buf, pos, clock, rest>>
  BY DEF Start, GetLatestStamp, SetServerStamp, local
<1>2. Journals' = Journals /\ Journals \in SUBSET Stamp /\ Journals \in SUBSET Nat
  BY <1>1, StampIsNat DEF Journals
<1>3. clock \in Nat /\ told \in Nat /\ phase # "up"
  BY StampIsNat DEF SInv, StageTypes, Start, GetLatestStamp, SetServerStamp
<1>4. queue = <<>> /\ \A s \in Stager : pc[s] \in {"idle", "check"}
  BY <1>3 DEF SInv, AloneInv
<1>5. AloneInv'
  BY <1>1, <1>4 DEF SInv, AloneInv
<1>6. CASE Start
  <2>1. UNCHANGED <<server_stamp, since, latest, told>> /\ phase' = "list"
    BY <1>6 DEF Start
  <2>2. StageTypes'
    BY <1>1, <2>1 DEF SInv, StageTypes
  <2>3. ClockInv' /\ StampInv'
    BY <1>1, <1>2, <1>4, <2>1 DEF SInv, ClockInv, StampInv, Filling
  <2> QED BY <1>5, <2>2, <2>3 DEF SInv
<1>7. CASE GetLatestStamp
  <2>1. UNCHANGED <<server_stamp, since, told>> /\ phase' = "assign"
    BY <1>7 DEF GetLatestStamp
  <2>2. CASE Journals = {}
    <3>1. latest' = clock
      BY <1>7, <2>2 DEF GetLatestStamp
    <3>2. StageTypes'
      BY <1>1, <1>3, <2>1, <3>1 DEF SInv, StageTypes
    <3>3. ClockInv' /\ StampInv'
      BY <1>1, <1>2, <1>3, <1>4, <2>1, <2>2, <3>1 DEF SInv, ClockInv, StampInv, Filling
    <3> QED BY <1>5, <3>2, <3>3 DEF SInv
  <2>3. CASE Journals # {}
    <3>1. latest' = Max(Journals) /\ latest' \in Journals /\ \A m \in Journals : m <= latest'
      BY <1>2, <1>7, <2>3, MaxStamp DEF GetLatestStamp
    <3>2. told <= latest' /\ latest' <= clock /\ latest' \in Nat
      BY <1>2, <1>3, <2>3, <3>1 DEF SInv, ClockInv
    <3>3. StageTypes'
      BY <1>1, <2>1, <3>2 DEF SInv, StageTypes
    <3>4. ClockInv'
      BY <1>1, <1>2, <2>1 DEF SInv, ClockInv
    <3>5. StampInv'
      BY <1>1, <1>2, <1>4, <2>1, <3>1, <3>2 DEF StampInv, Filling
    <3> QED BY <1>5, <3>3, <3>4, <3>5 DEF SInv
  <2> QED BY <2>2, <2>3
<1>8. CASE SetServerStamp
  <2>1. /\ phase = "assign" /\ phase' = "up" /\ since' = clock /\ server_stamp' = latest
        /\ told' = IF latest > told THEN latest ELSE told
        /\ latest' = latest
    BY <1>8 DEF SetServerStamp, Publish
  <2>2. latest \in Nat /\ told <= latest /\ latest <= clock
    BY <2>1 DEF SInv, StageTypes, StampInv
  <2>3. told' = latest
    BY <1>3, <2>1, <2>2
  <2>4. StageTypes'
    BY <1>1, <1>3, <2>1, <2>2, <2>3 DEF SInv, StageTypes
  <2>5. ClockInv'
    BY <1>1, <1>2, <1>3, <2>1, <2>2, <2>3 DEF SInv, ClockInv, StampInv
  <2>6. StampInv'
    BY <1>1, <1>2, <1>4, <2>1, <2>2, <2>3 DEF StampInv, Filling
  <2> QED BY <1>5, <2>4, <2>5, <2>6 DEF SInv
<1> QED BY <1>6, <1>7, <1>8

\* The server dies: nobody is at work, and no client forgets its stamp.
LEMMA KillInv == SInv /\ Kill => SInv'
<1> SUFFICES ASSUME SInv, Kill PROVE SInv'
  OBVIOUS
<1>1. /\ UNCHANGED <<journal, clock, told>>
      /\ queue' = <<>> /\ phase' = "down" /\ server_stamp' = 0 /\ since' = 0 /\ latest' = 0
      /\ pc' = [s \in Stager |-> "idle"] /\ rest' = [s \in Stager |-> clock]
      /\ new_stamp' = [s \in Stager |-> 0] /\ pos' = [s \in Stager |-> 0]
      /\ ref' = [s \in Stager |-> Garbage] /\ r' = [s \in Stager |-> Garbage]
      /\ buf' = [s \in Stager |-> <<>>]
  BY DEF Kill
<1>2. Journals' = Journals /\ clock \in Nat
  BY <1>1, StampIsNat DEF Journals, SInv, StageTypes
<1>3. StageTypes'
  BY <1>1, <1>2 DEF SInv, StageTypes, Entry
<1>4. AloneInv'
  BY <1>1 DEF AloneInv
<1>5. ClockInv'
  BY <1>1, <1>2 DEF SInv, ClockInv
<1>6. StampInv'
  BY <1>1 DEF StampInv, Filling
<1> QED BY <1>3, <1>4, <1>5, <1>6 DEF SInv

\* A change is recorded.
LEMMA AddInv ==
  ASSUME SInv, NEW c \in Change, AddJournal(c)
  PROVE  SInv'
<1>1. UNCHANGED <<journal, server_stamp, pc, new_stamp, ref, r, buf, pos, clock, rest, phase,
                  since, latest, told>>
  BY DEF AddJournal, local, server
<1>2. Journals' = Journals
  BY <1>1 DEF Journals
<1>3. phase = "up" /\ clock > since
  BY DEF AddJournal, SInv, AloneInv, Stager
<1>4. queue' \in Seq(Change)
  BY DEF AddJournal, SInv, StageTypes
<1>5. StageTypes'
  BY <1>1, <1>4 DEF SInv, StageTypes
<1>6. AloneInv'
  BY <1>1, <1>3 DEF SInv, AloneInv
<1>7. ClockInv' /\ StampInv'
  BY <1>1, <1>2 DEF SInv, ClockInv, StampInv
<1> QED BY <1>5, <1>6, <1>7 DEF SInv

\* A thread begins, when no other is at work.
LEMMA BeginInv ==
  ASSUME OneAtATime, SInv, Wake \/ \E s \in Connection : HandleUpdate(s)
  PROVE  SInv'
<1>1. PICK s \in Stager :
        /\ pc[s] = "idle" /\ clock > rest[s] /\ MayMeet(s)
        /\ pc' = [pc EXCEPT ![s] = "check"]
             \/ (pc' = [pc EXCEPT ![s] = "apply"] /\ phase = "up" /\ clock > since)
  BY DEF Wake, HandleUpdate, Goto, Stager, OneAtATime
<1>2. UNCHANGED <<queue, journal, server_stamp, new_stamp, ref, r, buf, pos, clock, rest, phase,
                  since, latest, told>>
  BY DEF Wake, HandleUpdate, local, server
<1>3. Journals' = Journals
  BY <1>2 DEF Journals
<1>4. \A o \in Stager : clock > rest[o] /\ (o # s => pc[o] = "idle")
  BY <1>1 DEF MayMeet, OneAtATime
<1>5. StageTypes'
  BY <1>1, <1>2 DEF SInv, StageTypes
<1>6. \A o \in Stager : o # s => pc'[o] = "idle"
  BY <1>1, <1>4 DEF SInv, StageTypes
<1>7. pc'[s] \in {"check", "apply"} /\ (pc'[s] = "apply" => phase = "up" /\ clock > since)
  BY <1>1 DEF SInv, StageTypes
<1>8. AloneInv'
  BY <1>2, <1>4, <1>6, <1>7 DEF SInv, AloneInv
<1>9. ClockInv'
  BY <1>2, <1>3 DEF SInv, ClockInv
<1>10. StampInv'
  BY <1>2, <1>3, <1>6, <1>7 DEF SInv, StampInv, Filling
<1> QED BY <1>5, <1>8, <1>9, <1>10 DEF SInv

\* The steps that change neither a file nor a stamp: the checks, and what is done with the
\* queue.
QueueStep(s) ==
  \/ HandleUpdateStages(s) \/ Check(s) \/ Loop(s) \/ TakeFront(s) \/ Copy(s) \/ PopFront(s)

LEMMA QueueStepInv ==
  ASSUME SInv, NEW s \in Stager, QueueStep(s)
  PROVE  SInv'
<1>1. UNCHANGED <<journal, server_stamp, new_stamp, pos, clock, phase, since, latest, told>>
  BY DEF QueueStep, HandleUpdateStages, Check, Loop, TakeFront, Copy, PopFront, local, server
<1>2. Journals' = Journals /\ clock \in Nat
  BY <1>1, StampIsNat DEF Journals, SInv, StageTypes
<1>3. PICK l : pc' = [pc EXCEPT ![s] = l] /\ l \in {"idle", "check", "stamp"} \cup Filling
  BY DEF QueueStep, HandleUpdateStages, Check, Loop, TakeFront, Copy, PopFront, Goto, Filling
<1>4. pc[s] # "idle" /\ (l \in Filling => pc[s] \in Filling)
        /\ (l = "stamp" => pc[s] = "check" /\ queue # <<>>)
  BY <1>3 DEF QueueStep, HandleUpdateStages, Check, Loop, TakeFront, Copy, PopFront, Goto,
              Filling, SInv, StageTypes
<1>5. pc'[s] = l /\ \A o \in Stager : o # s => pc'[o] = pc[o]
  BY <1>3 DEF SInv, StageTypes
<1>6. \A o \in Stager : o # s => pc[o] = "idle" /\ pc'[o] = "idle"
  BY <1>4, <1>5 DEF SInv, AloneInv
<1>7. queue' \in Seq(Change) /\ (queue' # <<>> => queue # <<>>)
  <2>1. CASE PopFront(s)
    <3>1. queue \in Seq(Change) /\ queue # <<>> /\ queue' = Tail(queue)
      BY <2>1 DEF PopFront, SInv, StageTypes
    <3>2. Tail(queue) \in Seq(Change)
      BY <3>1
    <3> QED BY <3>1, <3>2
  <2>2. CASE ~PopFront(s)
    <3>1. queue' = queue
      BY <2>2 DEF QueueStep, HandleUpdateStages, Check, Loop, TakeFront, Copy
    <3> QED BY <3>1 DEF SInv, StageTypes
  <2> QED BY <2>1, <2>2
<1>8. /\ ref' \in [Stager -> Entry] /\ r' \in [Stager -> Entry]
      /\ buf' \in [Stager -> Seq(Entry)]
  <2>1. CASE HandleUpdateStages(s) \/ Check(s) \/ Loop(s)
    BY <2>1 DEF HandleUpdateStages, Check, Loop, local, SInv, StageTypes
  <2>2. CASE TakeFront(s)
    <3>1. Head(queue) \in Entry
      BY <2>2 DEF TakeFront, SInv, StageTypes, Entry
    <3> QED BY <2>2, <3>1 DEF TakeFront, SInv, StageTypes
  <2>3. CASE Copy(s)
    <3>1. PICK x \in Entry : r' = [r EXCEPT ![s] = x]
      BY <2>3 DEF Copy, SInv, StageTypes, Entry
    <3> QED BY <2>3, <3>1 DEF Copy, SInv, StageTypes
  <2>4. CASE PopFront(s)
    <3>1. Append(buf[s], r[s]) \in Seq(Entry)
      BY DEF SInv, StageTypes
    <3> QED BY <2>4, <3>1 DEF PopFront, SInv, StageTypes
  <2> QED BY <2>1, <2>2, <2>3, <2>4 DEF QueueStep
<1>9. rest' = rest \/ (l = "idle" /\ rest' = [rest EXCEPT ![s] = clock])
  <2>1. CASE Check(s) /\ queue = <<>>
    <3>1. pc' = [pc EXCEPT ![s] = "idle"] /\ rest' = [rest EXCEPT ![s] = clock]
      BY <2>1 DEF Check, Goto
    <3> QED BY <1>5, <3>1 DEF SInv, StageTypes
  <2> QED BY <2>1 DEF QueueStep, HandleUpdateStages, Check, Loop, TakeFront, Copy, PopFront
<1>10. /\ rest' \in [Stager -> Nat]
       /\ \A o \in Stager : rest'[o] <= clock /\ rest[o] <= rest'[o]
       /\ l # "idle" => rest' = rest
  <2>1. rest \in [Stager -> Nat] /\ \A o \in Stager : rest[o] \in Nat /\ rest[o] <= clock
    BY DEF SInv, StageTypes, ClockInv
  <2>2. CASE rest' = rest
    BY <1>2, <2>1, <2>2
  <2>3. CASE l = "idle" /\ rest' = [rest EXCEPT ![s] = clock]
    <3>1. \A o \in Stager : rest'[o] = IF o = s THEN clock ELSE rest[o]
      BY <2>1, <2>3
    <3> QED BY <1>2, <2>1, <2>3, <3>1
  <2> QED BY <1>9, <2>2, <2>3
<1>11. StageTypes'
  BY <1>1, <1>3, <1>7, <1>8, <1>10 DEF SInv, StageTypes
<1>12. AloneInv'
  <2>1. ASSUME NEW u \in Stager, NEW o \in Stager, pc'[u] # "idle"
        PROVE  clock' > rest'[o] /\ (pc'[o] # "idle" => u = o)
    <3>1. u = s /\ rest' = rest
      BY <1>5, <1>6, <1>10, <2>1
    <3> QED BY <1>1, <1>4, <1>6, <3>1 DEF SInv, AloneInv
  <2>2. queue' # <<>> => phase' = "up" /\ clock' > since'
    BY <1>1, <1>7 DEF SInv, AloneInv
  <2>3. ASSUME NEW u \in Stager, pc'[u] \notin {"idle", "check"}
        PROVE  phase' = "up" /\ clock' > since'
    <3>1. u = s
      BY <1>6, <2>3
    <3>2. l = "stamp" \/ l \in Filling
      BY <1>3, <1>5, <2>3, <3>1
    <3>3. queue # <<>> \/ pc[s] \notin {"idle", "check"}
      BY <1>4, <3>2 DEF Filling
    <3> QED BY <1>1, <3>3 DEF SInv, AloneInv
  <2> QED BY <2>1, <2>2, <2>3 DEF AloneInv
<1>13. ClockInv'
  BY <1>1, <1>2, <1>10 DEF SInv, ClockInv
<1>14. StampInv'
  <2>1. phase' = "assign" => /\ told' <= latest' /\ latest' <= clock'
                             /\ Journals' = {} \/ \E n \in Journals' : latest' <= n
    BY <1>1, <1>2 DEF SInv, StampInv
  <2>2. ASSUME phase' = "up"
        PROVE  server_stamp' = told' /\ (told' <= since' \/ \E o \in Stager : told' <= rest'[o])
    <3>1. server_stamp = told /\ (told <= since \/ \E o \in Stager : told <= rest[o])
      BY <1>1, <2>2 DEF SInv, StampInv
    <3> QED BY <1>1, <1>10, <3>1 DEF SInv, StageTypes
  <2>3. \A u \in Stager : pc'[u] \in {"open"} \cup Filling => u = s /\ pc[s] \in Filling
    BY <1>3, <1>4, <1>5, <1>6 DEF Filling
  <2> QED BY <1>1, <1>2, <2>1, <2>2, <2>3 DEF SInv, StampInv
<1> QED BY <1>11, <1>12, <1>13, <1>14 DEF SInv

\* The name of a file is later than what any client knows.
LEMMA GetTimestampInv ==
  ASSUME SInv, NEW s \in Stager, GetTimestamp(s)
  PROVE  SInv'
<1>1. /\ UNCHANGED <<queue, journal, server_stamp, ref, r, buf, pos, clock, rest, phase, since,
                     latest, told>>
      /\ pc[s] = "stamp" /\ pc' = [pc EXCEPT ![s] = "open"]
      /\ new_stamp' = [new_stamp EXCEPT ![s] = clock]
  BY DEF GetTimestamp, Goto, server
<1>2. Journals' = Journals /\ clock \in Stamp /\ clock \in Nat
  BY <1>1, StampIsNat DEF Journals, SInv, StageTypes
<1>3. pc'[s] = "open" /\ new_stamp'[s] = clock
  BY <1>1 DEF SInv, StageTypes
<1>4. \A o \in Stager : o # s => pc[o] = "idle" /\ pc'[o] = "idle"
  BY <1>1 DEF SInv, StageTypes, AloneInv
<1>5. phase = "up" /\ clock > since /\ \A o \in Stager : clock > rest[o]
  BY <1>1 DEF SInv, AloneInv
<1>6. told < clock
  BY <1>2, <1>5 DEF SInv, StampInv, StageTypes
<1>7. StageTypes'
  BY <1>1, <1>2 DEF SInv, StageTypes
<1>8. AloneInv'
  BY <1>1, <1>3, <1>4, <1>5 DEF SInv, AloneInv
<1>9. ClockInv'
  BY <1>1, <1>2 DEF SInv, ClockInv
<1>10. StampInv'
  BY <1>1, <1>2, <1>3, <1>4, <1>5, <1>6 DEF SInv, StampInv, Filling
<1> QED BY <1>7, <1>8, <1>9, <1>10 DEF SInv

\* What a thread writes goes to the file it has named.
FileStep(s) == OpenFile(s) \/ Flush(s) \/ CloseFile(s)

LEMMA FileStepWrites ==
  ASSUME SInv, NEW s \in Stager, FileStep(s)
  PROVE  /\ pc[s] \in {"open"} \cup Filling
         /\ \E f \in Seq(Entry) : journal' = [journal EXCEPT ![new_stamp[s]] = f]
         /\ pos' \in [Stager -> Nat] /\ buf' \in [Stager -> Seq(Entry)]
<1>1. CASE OpenFile(s)
  <2>1. /\ pc[s] = "open" /\ journal' = [journal EXCEPT ![new_stamp[s]] = <<>>]
        /\ pos' = [pos EXCEPT ![s] = 0] /\ buf' = [buf EXCEPT ![s] = <<>>]
    BY <1>1 DEF OpenFile
  <2>2. <<>> \in Seq(Entry)
    OBVIOUS
  <2>3. pos' \in [Stager -> Nat] /\ buf' \in [Stager -> Seq(Entry)]
    BY <2>1, <2>2 DEF SInv, StageTypes
  <2> QED BY <2>1, <2>2, <2>3
<1>2. CASE Flush(s) \/ CloseFile(s)
  <2>1. pc[s] \in Filling /\ WriteOut(s)
    BY <1>2 DEF Flush, CloseFile, Filling
  <2>2. new_stamp[s] \in Stamp /\ journal[new_stamp[s]] \in Seq(Entry)
    BY <2>1 DEF SInv, StampInv, StageTypes, Journals
  <2>3. Overlay(journal[new_stamp[s]], pos[s], buf[s]) \in Seq(Entry)
    BY <2>2, OverlayType DEF SInv, StageTypes
  <2>4. journal' = [journal EXCEPT ![new_stamp[s]] =
                      Overlay(journal[new_stamp[s]], pos[s], buf[s])]
    BY <2>1 DEF WriteOut
  <2>5. pos[s] + Len(buf[s]) \in Nat
    BY DEF SInv, StageTypes
  <2>6. pos' \in [Stager -> Nat] /\ buf' \in [Stager -> Seq(Entry)]
    BY <2>1, <2>5 DEF WriteOut, SInv, StageTypes
  <2> QED BY <2>1, <2>3, <2>4, <2>6
<1> QED BY <1>1, <1>2 DEF FileStep

LEMMA FileStepInv ==
  ASSUME SInv, NEW s \in Stager, FileStep(s)
  PROVE  SInv'
<1>1. UNCHANGED <<queue, server_stamp, new_stamp, ref, r, clock, rest, phase, since, latest, told>>
  BY DEF FileStep, OpenFile, Flush, CloseFile, server
<1>2. PICK l \in Filling : pc' = [pc EXCEPT ![s] = l]
  <2>1. CASE OpenFile(s) \/ CloseFile(s)
    BY <2>1 DEF OpenFile, CloseFile, Goto, Filling
  <2>2. CASE Flush(s)
    BY <2>2 DEF Flush, Filling, SInv, StageTypes
  <2> QED BY <2>1, <2>2 DEF FileStep
<1>3. pc[s] \in {"open"} \cup Filling /\ pos' \in [Stager -> Nat] /\ buf' \in [Stager -> Seq(Entry)]
  BY FileStepWrites
<1>4. PICK f \in Seq(Entry) : journal' = [journal EXCEPT ![new_stamp[s]] = f]
  BY FileStepWrites
<1>5. new_stamp[s] \in Stamp /\ told < new_stamp[s] /\ new_stamp[s] <= clock
  BY <1>3 DEF SInv, StampInv
<1>6. journal' \in [Stamp -> Seq(Entry) \cup {NoFile}]
  BY <1>4 DEF SInv, StageTypes
<1>7. Journals' = Journals \cup {new_stamp[s]}
  BY <1>4, <1>5, ConstantsAssumption DEF Journals, SInv, StageTypes
<1>8. clock \in Nat /\ told \in Nat /\ new_stamp[s] \in Nat /\ Journals \in SUBSET Nat
  BY <1>5, StampIsNat DEF SInv, StageTypes, Journals
<1>9. phase = "up" /\ clock > since /\ pc[s] # "idle"
  BY <1>3 DEF SInv, AloneInv, Filling
<1>10. pc'[s] = l /\ \A o \in Stager : o # s => pc[o] = "idle" /\ pc'[o] = "idle"
  BY <1>2, <1>9 DEF SInv, StageTypes, AloneInv
<1>11. StageTypes'
  BY <1>1, <1>2, <1>3, <1>6 DEF SInv, StageTypes
<1>12. AloneInv'
  BY <1>1, <1>9, <1>10 DEF SInv, AloneInv
<1>13. ClockInv'
  <2>1. told' <= clock' /\ since' <= clock' /\ \A o \in Stager : rest'[o] <= clock'
    BY <1>1 DEF SInv, ClockInv
  <2>2. \A n \in Journals' : n <= clock'
    BY <1>1, <1>5, <1>7 DEF SInv, ClockInv
  <2>3. told' <= new_stamp[s] /\ new_stamp[s] \in Journals'
    BY <1>1, <1>5, <1>7, <1>8
  <2> QED BY <2>1, <2>2, <2>3 DEF ClockInv
<1>14. StampInv'
  BY <1>1, <1>5, <1>7, <1>9, <1>10 DEF SInv, StampInv, Filling
<1> QED BY <1>11, <1>12, <1>13, <1>14 DEF SInv

\* server_stamp goes up to the name of the file that is done.
LEMMA SetStampInv ==
  ASSUME SInv, NEW s \in Stager, SetStamp(s)
  PROVE  SInv'
<1>1. /\ UNCHANGED <<queue, journal, new_stamp, ref, r, buf, pos, clock, phase, since, latest>>
      /\ pc[s] = "set" /\ pc' = [pc EXCEPT ![s] = "idle"]
      /\ rest' = [rest EXCEPT ![s] = clock]
      /\ server_stamp' = new_stamp[s]
      /\ told' = IF new_stamp[s] > told THEN new_stamp[s] ELSE told
  BY DEF SetStamp, Goto, Publish, local, server
<1>2. /\ new_stamp[s] \in Stamp /\ told < new_stamp[s] /\ new_stamp[s] <= clock
      /\ new_stamp[s] \in Journals
  BY <1>1 DEF SInv, StampInv, Filling
<1>3. Journals' = Journals /\ clock \in Nat /\ told \in Nat /\ new_stamp[s] \in Nat
        /\ Journals \in SUBSET Nat
  BY <1>1, <1>2, StampIsNat DEF Journals, SInv, StageTypes
<1>4. told' = new_stamp[s]
  BY <1>1, <1>2, <1>3
<1>5. phase = "up" /\ pc[s] # "idle"
  BY <1>1 DEF SInv, AloneInv
<1>6. \A o \in Stager : pc'[o] = "idle"
  BY <1>1, <1>5 DEF SInv, StageTypes, AloneInv
<1>7. rest'[s] = clock /\ \A o \in Stager : rest'[o] <= clock
  BY <1>1, <1>3 DEF SInv, StageTypes, ClockInv
<1>8. StageTypes'
  BY <1>1, <1>3, <1>4 DEF SInv, StageTypes
<1>9. AloneInv'
  BY <1>1, <1>6 DEF SInv, AloneInv
<1>10. ClockInv'
  BY <1>1, <1>2, <1>3, <1>4, <1>7 DEF SInv, ClockInv
<1>11. StampInv'
  BY <1>1, <1>2, <1>4, <1>5, <1>6, <1>7 DEF StampInv, Filling
<1> QED BY <1>8, <1>9, <1>10, <1>11 DEF SInv

-----------------------------------------------------------------------------
LEMMA StepInv ==
  ASSUME OneAtATime
  PROVE  SInv /\ [Next]_vars => SInv'
<1> SUFFICES ASSUME SInv, [Next]_vars PROVE SInv'
  OBVIOUS
<1>1. CASE Tick
  BY <1>1, TickInv
<1>2. CASE Start \/ GetLatestStamp \/ SetServerStamp
  BY <1>2, BootInv
<1>3. CASE Wake \/ \E s \in Connection : HandleUpdate(s)
  BY <1>3, BeginInv
<1>4. CASE Kill
  BY <1>4, KillInv
<1>5. ASSUME NEW c \in Change, AddJournal(c) PROVE SInv'
  BY <1>5, AddInv
<1>6. ASSUME NEW s \in Connection, HandleUpdateStages(s) PROVE SInv'
  BY <1>6, QueueStepInv DEF QueueStep, Stager
<1>7. ASSUME NEW s \in Stager, StageStep(s) \/ Flush(s) PROVE SInv'
  BY <1>7, QueueStepInv, GetTimestampInv, FileStepInv, SetStampInv
     DEF StageStep, QueueStep, FileStep
<1>8. CASE Done \/ UNCHANGED vars
  BY <1>8, StutterInv DEF Done
<1> QED BY <1>1, <1>2, <1>3, <1>4, <1>5, <1>6, <1>7, <1>8 DEF Next

LEMMA Inductive ==
  ASSUME OneAtATime
  PROVE  Spec => []SInv
BY InitInv, StepInv, PTL DEF Spec

\* While the server runs, server_stamp is the highest stamp that any client can hold, also
\* after a crash in the middle of staging and a restart (DriveServerAgent.cpp:33-35, 455).
THEOREM StampOnlyForward ==
  ASSUME OneAtATime
  PROVE  Spec => []StampForward
<1>1. SInv => StampForward
  BY DEF SInv, StampInv, StampForward
<1> QED BY <1>1, Inductive, PTL

\* A journal file that a client can know does not change any more: stageChanges writes only
\* to files above all stamps that were given out (DriveServerAgent.cpp:442-455).
THEOREM JournalsFrozen ==
  ASSUME OneAtATime
  PROVE  Spec => PublishedFrozen
<1> DEFINE Frozen == \A n \in Stamp : n <= told => journal'[n] = journal[n]
<1>1. ASSUME SInv, [Next]_vars PROVE [Frozen]_vars
  <2>1. CASE journal' = journal
    BY <2>1
  <2>2. CASE \E s \in Stager : FileStep(s)
    <3>1. PICK s \in Stager : FileStep(s)
      BY <2>2
    <3>2. PICK f \in Seq(Entry) : journal' = [journal EXCEPT ![new_stamp[s]] = f]
      BY <1>1, <3>1, FileStepWrites
    <3>3. told < new_stamp[s]
      BY <1>1, <3>1, FileStepWrites DEF SInv, StampInv
    <3>4. told \in Nat /\ new_stamp[s] \in Nat
      BY <1>1 DEF SInv, StageTypes
    <3>5. ASSUME NEW n \in Stamp, n <= told PROVE journal'[n] = journal[n]
      <4>1. n # new_stamp[s]
        BY <3>3, <3>4, <3>5, StampIsNat
      <4> QED BY <1>1, <3>2, <4>1 DEF SInv, StageTypes
    <3> QED BY <3>5
  <2>3. journal' = journal \/ \E s \in Stager : FileStep(s)
    BY <1>1 DEF Next, Tick, Start, GetLatestStamp, SetServerStamp, Wake, Kill, Done, AddJournal,
       HandleUpdate, HandleUpdateStages, StageStep, Check, GetTimestamp, Loop, TakeFront, Copy,
       PopFront, SetStamp, FileStep, vars
  <2> QED BY <2>1, <2>2, <2>3
<1>2. SInv /\ [Next]_vars => [Frozen]_vars
  BY <1>1
<1> QED BY <1>2, Inductive, PTL DEF Spec, PublishedFrozen

-----------------------------------------------------------------------------
(* Types, in every scenario *)

\* a thread that writes to a file has named one that is there
OpenedInv ==
  \A s \in Stager : /\ pc[s] \in {"open"} \cup Filling => new_stamp[s] \in Stamp
                    /\ pc[s] \in Filling => journal[new_stamp[s]] # NoFile
TypeInv == TypeOK /\ OpenedInv

LEMMA StampBounds == Stamp \subseteq 0..MaxClock /\ 0 \in 0..MaxClock /\ 1 \in Stamp
BY ConstantsAssumption DEF Stamp

LEMMA InitTypes == Init => TypeInv
<1> SUFFICES ASSUME Init PROVE TypeInv
  OBVIOUS
<1>1. TypeOK
  BY StampBounds, ConstantsAssumption DEF Init, TypeOK, Entry
<1>2. OpenedInv
  BY DEF Init, OpenedInv, Filling
<1> QED BY <1>1, <1>2 DEF TypeInv

\* The steps that write to no file.
LEMMA QuietTypes ==
  ASSUME TypeInv, UNCHANGED journal, TypeOK',
         \A s \in Stager : /\ pc'[s] \in {"open"} \cup Filling =>
                                /\ pc[s] \in {"open"} \cup Filling
                                /\ new_stamp'[s] = new_stamp[s]
                           /\ pc'[s] \in Filling => pc[s] \in Filling
  PROVE  TypeInv'
BY DEF TypeInv, OpenedInv, Filling

\* The server starts, dies, or time goes on.
LEMMA ServerTypes ==
  ASSUME TypeInv, Tick \/ Start \/ GetLatestStamp \/ SetServerStamp \/ Kill
  PROVE  TypeInv'
<1> USE StampBounds
<1>1. CASE Tick
  <2>1. clock' \in Stamp
    BY <1>1, ConstantsAssumption DEF Tick, TypeInv, TypeOK, Stamp
  <2>2. TypeOK'
    BY <1>1, <2>1 DEF Tick, TypeInv, TypeOK, local, server
  <2> QED BY <1>1, <2>2, QuietTypes DEF Tick, local
<1>2. CASE Start
  <2>1. TypeOK'
    BY <1>2 DEF Start, TypeInv, TypeOK, local
  <2> QED BY <1>2, <2>1, QuietTypes DEF Start, local
<1>3. CASE GetLatestStamp
  <2>1. latest' \in 0..MaxClock
    <3>1. clock \in Stamp /\ Journals \subseteq Stamp
      BY DEF TypeInv, TypeOK, Journals
    <3>2. Journals # {} => Max(Journals) \in Stamp
      BY <3>1, MaxStamp
    <3> QED BY <1>3, <3>1, <3>2 DEF GetLatestStamp
  <2>2. TypeOK'
    BY <1>3, <2>1 DEF GetLatestStamp, TypeInv, TypeOK, local
  <2> QED BY <1>3, <2>2, QuietTypes DEF GetLatestStamp, local
<1>4. CASE SetServerStamp
  <2>1. TypeOK'
    BY <1>4 DEF SetServerStamp, Publish, TypeInv, TypeOK, local
  <2> QED BY <1>4, <2>1, QuietTypes DEF SetServerStamp, local
<1>5. CASE Kill
  <2>1. kills' \in 0..MaxKills
    BY <1>5, ConstantsAssumption DEF Kill, TypeInv, TypeOK
  <2>2. posted' \subseteq Entry
    <3>1. posted' = UNION {Range(journal[n]) : n \in Journals}
      BY <1>5 DEF Kill
    <3>2. ASSUME NEW n \in Journals PROVE Range(journal[n]) \subseteq Entry
      <4>1. journal[n] \in Seq(Entry)
        BY DEF Journals, TypeInv, TypeOK
      <4> HIDE DEF Entry
      <4> QED BY <4>1 DEF Range
    <3> QED BY <3>1, <3>2
  <2>3. <<>> \in Seq(Entry) /\ <<>> \in Seq(Change) /\ Garbage \in Entry /\ 0 \in Nat
    BY DEF Entry
  <2>4. /\ UNCHANGED <<journal, clock, told>>
        /\ queue' = <<>> /\ phase' = "down" /\ server_stamp' = 0 /\ since' = 0 /\ latest' = 0
        /\ pc' = [s \in Stager |-> "idle"] /\ rest' = [s \in Stager |-> clock]
        /\ new_stamp' = [s \in Stager |-> 0] /\ pos' = [s \in Stager |-> 0]
        /\ ref' = [s \in Stager |-> Garbage] /\ r' = [s \in Stager |-> Garbage]
        /\ buf' = [s \in Stager |-> <<>>]
    BY <1>5 DEF Kill
  <2>5. TypeOK'
    BY <2>1, <2>2, <2>3, <2>4 DEF TypeInv, TypeOK
  <2> QED BY <2>4, <2>5, QuietTypes DEF Filling
<1> QED BY <1>1, <1>2, <1>3, <1>4, <1>5

\* Changes are recorded, and threads begin.
LEMMA BeginTypes ==
  ASSUME TypeInv,
         \/ Wake \/ \E c \in Change : AddJournal(c)
         \/ \E s \in Connection : HandleUpdate(s) \/ HandleUpdateStages(s)
  PROVE  TypeInv'
<1>1. ASSUME NEW c \in Change, AddJournal(c) PROVE TypeInv'
  <2>1. queue' \in Seq(Change) /\ posted' \subseteq Entry
    BY <1>1 DEF AddJournal, TypeInv, TypeOK, Entry
  <2>2. TypeOK'
    BY <1>1, <2>1 DEF AddJournal, TypeInv, TypeOK, local, server
  <2> QED BY <1>1, <2>2, QuietTypes DEF AddJournal, local
<1>2. ASSUME NEW s \in Stager, NEW l \in {"apply", "check"}, pc' = [pc EXCEPT ![s] = l],
             UNCHANGED <<queue, journal, server_stamp, local, clock, rest, server, posted, told>>
      PROVE  TypeInv'
  <2>1. TypeOK'
    BY <1>2 DEF TypeInv, TypeOK, local, server
  <2>2. \A o \in Stager : pc'[o] = IF o = s THEN l ELSE pc[o]
    BY <1>2 DEF TypeInv, TypeOK
  <2> QED BY <1>2, <2>1, <2>2, QuietTypes DEF local, Filling
<1>3. CASE Wake
  BY <1>2, <1>3 DEF Wake, Goto, Stager
<1>4. ASSUME NEW s \in Connection, HandleUpdate(s) \/ HandleUpdateStages(s) PROVE TypeInv'
  BY <1>2, <1>4 DEF HandleUpdate, HandleUpdateStages, Goto, Stager
<1> QED BY <1>1, <1>3, <1>4

\* The steps of stageChanges that write to no file.
LEMMA QueueTypes ==
  ASSUME TypeInv, NEW s \in Stager,
         \/ Check(s) \/ GetTimestamp(s) \/ Loop(s) \/ TakeFront(s) \/ Copy(s) \/ PopFront(s)
         \/ SetStamp(s)
  PROVE  TypeInv'
<1> USE StampBounds
<1>1. CASE Check(s) \/ Loop(s)
  <2>1. PICK l \in {"idle", "stamp", "front", "close"} :
           pc' = [pc EXCEPT ![s] = l] /\ (l \in Filling => pc[s] \in Filling)
    BY <1>1 DEF Check, Loop, Goto, Filling
  <2>2. rest' \in [Stager -> 0..MaxClock]
    BY <1>1 DEF Check, Loop, TypeInv, TypeOK
  <2>3. TypeOK'
    BY <1>1, <2>1, <2>2 DEF Check, Loop, TypeInv, TypeOK, local, server
  <2>4. \A o \in Stager : pc'[o] = IF o = s THEN l ELSE pc[o]
    BY <2>1 DEF TypeInv, TypeOK
  <2> QED BY <1>1, <2>1, <2>3, <2>4, QuietTypes DEF Check, Loop, local, Filling
<1>2. CASE GetTimestamp(s)
  <2>1. /\ UNCHANGED <<queue, journal, server_stamp, ref, r, buf, pos, clock, rest, server, posted, told>>
        /\ pc' = [pc EXCEPT ![s] = "open"] /\ new_stamp' = [new_stamp EXCEPT ![s] = clock]
    BY <1>2 DEF GetTimestamp, Goto
  <2>2. TypeOK'
    BY <2>1 DEF TypeInv, TypeOK, server
  <2>3. OpenedInv'
    <3>1. \A o \in Stager : /\ pc'[o] = IF o = s THEN "open" ELSE pc[o]
                            /\ new_stamp'[o] = IF o = s THEN clock ELSE new_stamp[o]
      BY <2>1 DEF TypeInv, TypeOK
    <3>2. clock \in Stamp
      BY DEF TypeInv, TypeOK
    <3> QED BY <2>1, <3>1, <3>2 DEF TypeInv, OpenedInv, Filling
  <2> QED BY <2>2, <2>3 DEF TypeInv
<1>3. CASE TakeFront(s) \/ Copy(s) \/ PopFront(s)
  <2>1. /\ UNCHANGED <<journal, server_stamp, new_stamp, pos, clock, rest, server, posted, told>>
        /\ pc[s] \in Filling /\ \E l \in {"copy", "pop", "loop"} : pc' = [pc EXCEPT ![s] = l]
    BY <1>3 DEF TakeFront, Copy, PopFront, Goto, Filling
  <2>2. queue' \in Seq(Change) /\ ref' \in [Stager -> Entry]
    <3>1. CASE TakeFront(s)
      <4>1. Head(queue) \in Entry
        BY <3>1 DEF TakeFront, TypeInv, TypeOK, Entry
      <4> QED BY <3>1, <4>1 DEF TakeFront, TypeInv, TypeOK
    <3>2. CASE Copy(s)
      BY <3>2 DEF Copy, TypeInv, TypeOK
    <3>3. CASE PopFront(s)
      BY <3>3 DEF PopFront, TypeInv, TypeOK
    <3> QED BY <1>3, <3>1, <3>2, <3>3
  <2>3. r' \in [Stager -> Entry] /\ buf' \in [Stager -> Seq(Entry)]
    <3>1. CASE TakeFront(s)
      BY <3>1 DEF TakeFront, TypeInv, TypeOK
    <3>2. CASE Copy(s)
      <4>1. PICK x \in Entry : r' = [r EXCEPT ![s] = x]
        BY <3>2 DEF Copy, TypeInv, TypeOK, Entry
      <4> QED BY <3>2, <4>1 DEF Copy, TypeInv, TypeOK
    <3>3. CASE PopFront(s)
      <4>1. Append(buf[s], r[s]) \in Seq(Entry)
        BY DEF TypeInv, TypeOK
      <4> QED BY <3>3, <4>1 DEF PopFront, TypeInv, TypeOK
    <3> QED BY <1>3, <3>1, <3>2, <3>3
  <2>4. TypeOK'
    BY <2>1, <2>2, <2>3 DEF TypeInv, TypeOK, server
  <2>5. \A o \in Stager : o # s => pc'[o] = pc[o]
    BY <2>1 DEF TypeInv, TypeOK
  <2> QED BY <2>1, <2>4, <2>5, QuietTypes
<1>4. CASE SetStamp(s)
  <2>1. /\ UNCHANGED <<queue, journal, local, clock, server, posted>>
        /\ pc[s] = "set" /\ pc' = [pc EXCEPT ![s] = "idle"] /\ rest' = [rest EXCEPT ![s] = clock]
        /\ server_stamp' = new_stamp[s]
        /\ told' = IF new_stamp[s] > told THEN new_stamp[s] ELSE told
    BY <1>4 DEF SetStamp, Goto, Publish
  <2>2. TypeOK'
    BY <2>1 DEF TypeInv, TypeOK, local, server
  <2>3. \A o \in Stager : pc'[o] = IF o = s THEN "idle" ELSE pc[o]
    BY <2>1 DEF TypeInv, TypeOK
  <2> QED BY <2>1, <2>2, <2>3, QuietTypes DEF local, Filling
<1> QED BY <1>1, <1>2, <1>3, <1>4

\* The steps that write.
LEMMA FileTypes ==
  ASSUME TypeInv, NEW s \in Stager, FileStep(s)
  PROVE  TypeInv'
<1>1. UNCHANGED <<queue, server_stamp, new_stamp, ref, r, clock, rest, server, posted, told>>
  BY DEF FileStep, OpenFile, Flush, CloseFile
<1>2. PICK l \in Filling : pc' = [pc EXCEPT ![s] = l]
  <2>1. CASE OpenFile(s) \/ CloseFile(s)
    BY <2>1 DEF OpenFile, CloseFile, Goto, Filling
  <2>2. CASE Flush(s)
    BY <2>2 DEF Flush, Filling, TypeInv, TypeOK
  <2> QED BY <2>1, <2>2 DEF FileStep
<1>3. /\ pc[s] \in {"open"} \cup Filling /\ pos' \in [Stager -> Nat] /\ buf' \in [Stager -> Seq(Entry)]
      /\ \E f \in Seq(Entry) : journal' = [journal EXCEPT ![new_stamp[s]] = f]
  <2>1. CASE OpenFile(s)
    <3>1. /\ pc[s] = "open" /\ journal' = [journal EXCEPT ![new_stamp[s]] = <<>>]
          /\ pos' = [pos EXCEPT ![s] = 0] /\ buf' = [buf EXCEPT ![s] = <<>>]
      BY <2>1 DEF OpenFile
    <3>2. <<>> \in Seq(Entry)
      OBVIOUS
    <3> QED BY <3>1, <3>2 DEF TypeInv, TypeOK
  <2>2. CASE Flush(s) \/ CloseFile(s)
    <3>1. pc[s] \in Filling /\ WriteOut(s)
      BY <2>2 DEF Flush, CloseFile, Filling
    <3>2. journal[new_stamp[s]] \in Seq(Entry)
      BY <3>1 DEF TypeInv, TypeOK, OpenedInv
    <3>3. Overlay(journal[new_stamp[s]], pos[s], buf[s]) \in Seq(Entry)
      BY <3>2, OverlayType DEF TypeInv, TypeOK
    <3>4. journal' = [journal EXCEPT ![new_stamp[s]] =
                        Overlay(journal[new_stamp[s]], pos[s], buf[s])]
      BY <3>1 DEF WriteOut
    <3>5. pos[s] + Len(buf[s]) \in Nat
      BY DEF TypeInv, TypeOK
    <3>6. pos' \in [Stager -> Nat] /\ buf' \in [Stager -> Seq(Entry)]
      BY <3>1, <3>5 DEF WriteOut, TypeInv, TypeOK
    <3> QED BY <3>1, <3>3, <3>4, <3>6
  <2> QED BY <2>1, <2>2 DEF FileStep
<1>4. PICK f \in Seq(Entry) : journal' = [journal EXCEPT ![new_stamp[s]] = f]
  BY <1>3
<1>5. new_stamp[s] \in Stamp
  BY <1>3 DEF TypeInv, OpenedInv
<1>6. TypeOK'
  BY <1>1, <1>2, <1>3, <1>4 DEF TypeInv, TypeOK, server, Filling
<1>7. OpenedInv'
  <2>1. \A n \in Stamp : journal'[n] = IF n = new_stamp[s] THEN f ELSE journal[n]
    BY <1>4 DEF TypeInv, TypeOK
  <2>2. f # NoFile
    BY ConstantsAssumption
  <2>3. \A o \in Stager : pc'[o] = IF o = s THEN l ELSE pc[o]
    BY <1>2 DEF TypeInv, TypeOK
  <2> QED BY <1>1, <1>3, <1>5, <2>1, <2>2, <2>3 DEF TypeInv, OpenedInv
<1> QED BY <1>6, <1>7 DEF TypeInv

\* Every state is well typed, whether threads meet or not: what a thread copies of a record that
\* is gone is an entry too, and a stager writes only to a file that it has opened
\* (DriveServerAgent.cpp:439-460, SharedQueue.h).
THEOREM TypeCorrect == Spec => []TypeOK
<1>1. TypeInv /\ [Next]_vars => TypeInv'
  <2> SUFFICES ASSUME TypeInv, [Next]_vars PROVE TypeInv'
    OBVIOUS
  <2>1. CASE Done \/ UNCHANGED vars
    <3> USE <2>1 DEF Done, vars, local, server
    <3>1. TypeOK'
      BY DEF TypeInv, TypeOK
    <3>2. OpenedInv'
      BY DEF TypeInv, OpenedInv
    <3> QED BY <3>1, <3>2 DEF TypeInv
  <2>2. ASSUME NEW s \in Stager, StageStep(s) \/ Flush(s) PROVE TypeInv'
    BY <2>2, QueueTypes, FileTypes DEF StageStep, FileStep
  <2> QED BY <2>1, <2>2, ServerTypes, BeginTypes DEF Next
<1>2. TypeInv => TypeOK
  BY DEF TypeInv
<1> QED BY <1>1, <1>2, InitTypes, PTL DEF Spec
=============================================================================
