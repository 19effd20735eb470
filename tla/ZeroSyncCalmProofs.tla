------------------------- MODULE ZeroSyncCalmProofs -------------------------
(* Theorems about what ZeroSync synchronises, for every value of its constants: every  *)
(* difference is told by something on its way, and when nothing is on its way all have *)
(* the same tree, that of all operations.                                              *)
(*                                                                                     *)
(* The inductive invariant (Core) speaks of a client c by two change sets: U[c], what  *)
(* it has recorded and not pushed, merged, and D[c], what it has not pulled, merged.   *)
(* Both are true of the trees they come from, they tell all differences between c and  *)
(* the server, their paths are apart, and what a client has to push beyond what it got *)
(* from the server itself is its own, and is what all operations would have led to.    *)
(* First what merging and applying change sets do, then each kind of step on such      *)
(* change sets, then the steps of the specification.                                   *)
EXTENDS ZeroSyncProofs

-----------------------------------------------------------------------------
(* Change sets without renames of directories *)

Plain == {b \in ChangeSet : b.renameDirs = {} /\ b.newFiles \subseteq Path /\ b.newDirs \subseteq Path}
FileOp == {o \in Op : o.type # "RENAME_DIR"}

\* where an operation leaves a file, removes one, makes a directory, removes one
FileAt(o) == IF o.type \in {"CREATE", "WRITE_DONE"} THEN {o.path} ELSE IF o.type = "RENAME" THEN {o.to} ELSE {}
FileOff(o) == IF o.type \in {"UNLINK", "RENAME"} THEN {o.path} ELSE {}
DirAt(o) == IF o.type = "MKDIR" THEN {o.path} ELSE {}
DirOff(o) == IF o.type = "RMDIR" THEN {o.path} ELSE {}

\* what is recorded about the paths of A, G, K and R replaces what b says of them
Changed(b, A, G, K, R) ==
  [newFiles |-> (b.newFiles \ G) \cup A, deleteFiles |-> (b.deleteFiles \ A) \cup G,
   newDirs |-> (b.newDirs \ R) \cup K, deleteDirs |-> (b.deleteDirs \ K) \cup R, renameDirs |-> {}]

\* A change set without renames, by its fields.
LEMMA PlainIs ==
  ASSUME NEW b \in Plain
  PROVE  /\ b.newFiles \subseteq Path /\ b.deleteFiles \subseteq Path /\ b.newDirs \subseteq Path
         /\ b.deleteDirs \subseteq Path /\ b.renameDirs = {}
         /\ b = [newFiles |-> b.newFiles, deleteFiles |-> b.deleteFiles, newDirs |-> b.newDirs,
                 deleteDirs |-> b.deleteDirs, renameDirs |-> {}]
         /\ BagPaths(b) = b.newFiles \cup b.deleteFiles \cup b.newDirs \cup b.deleteDirs
BY DEF Plain, ChangeSet, BagPaths

\* Four sets of paths make such a change set.
LEMMA MakePlain ==
  ASSUME NEW nf \in SUBSET Path, NEW df \in SUBSET Path, NEW nd \in SUBSET Path, NEW dd \in SUBSET Path
  PROVE  [newFiles |-> nf, deleteFiles |-> df, newDirs |-> nd, deleteDirs |-> dd, renameDirs |-> {}] \in Plain
<1>1. nf \in SUBSET Name /\ nd \in SUBSET Name
  BY PathIsName
<1> QED BY <1>1 DEF Plain, ChangeSet

\* No changes are one, about no path.
LEMMA NoChangesIs ==
  /\ NoChanges \in Plain /\ BagPaths(NoChanges) = {}
  /\ NoChanges.newFiles = {} /\ NoChanges.deleteFiles = {} /\ NoChanges.newDirs = {} /\ NoChanges.deleteDirs = {}
<1>1. NoChanges \in Plain
  BY MakePlain DEF NoChanges
<1> QED BY <1>1, PlainIs DEF NoChanges

\* Recording leaves one, about the paths recorded too.
LEMMA ChangedPlain ==
  ASSUME NEW b \in Plain, NEW A \in SUBSET Path, NEW G \in SUBSET Path, NEW K \in SUBSET Path, NEW R \in SUBSET Path
  PROVE  /\ Changed(b, A, G, K, R) \in Plain
         /\ BagPaths(Changed(b, A, G, K, R)) = BagPaths(b) \cup A \cup G \cup K \cup R
<1> DEFINE x == Changed(b, A, G, K, R)
<1>1. x \in Plain
  <2>1. /\ (b.newFiles \ G) \cup A \in SUBSET Path /\ (b.deleteFiles \ A) \cup G \in SUBSET Path
        /\ (b.newDirs \ R) \cup K \in SUBSET Path /\ (b.deleteDirs \ K) \cup R \in SUBSET Path
    BY PlainIs
  <2> QED BY <2>1, MakePlain DEF Changed
<1>2. BagPaths(x) = x.newFiles \cup x.deleteFiles \cup x.newDirs \cup x.deleteDirs
  BY <1>1, PlainIs
<1>3. /\ x.newFiles = (b.newFiles \ G) \cup A /\ x.deleteFiles = (b.deleteFiles \ A) \cup G
      /\ x.newDirs = (b.newDirs \ R) \cup K /\ x.deleteDirs = (b.deleteDirs \ K) \cup R
  BY DEF Changed
<1> HIDE DEF x
<1>4. BagPaths(b) = b.newFiles \cup b.deleteFiles \cup b.newDirs \cup b.deleteDirs
  BY PlainIs
<1>5. BagPaths(x) = BagPaths(b) \cup A \cup G \cup K \cup R
  BY <1>2, <1>3, <1>4
<1> QED BY <1>1, <1>5 DEF x

\* An operation that is no rename of a directory, and its paths.
LEMMA FileOpIs ==
  ASSUME NEW o \in FileOp
  PROVE  /\ o \in Op /\ o.path \in Path /\ (o.type = "RENAME" => o.to \in Path)
         /\ o.type \in {"CREATE", "WRITE_DONE", "UNLINK", "MKDIR", "RMDIR", "RENAME"}
         /\ FileAt(o) \in SUBSET Path /\ FileOff(o) \in SUBSET Path
         /\ DirAt(o) \in SUBSET Path /\ DirOff(o) \in SUBSET Path
         /\ PathsOf(o) = FileAt(o) \cup FileOff(o) \cup DirAt(o) \cup DirOff(o)
<1>1. /\ o \in Op /\ o.path \in Path /\ (o.type = "RENAME" => o.to \in Path) /\ (o.type # "RENAME" => o.to = <<>>)
      /\ o.type \in {"CREATE", "WRITE_DONE", "UNLINK", "MKDIR", "RMDIR", "RENAME"}
  BY DEF FileOp, Op
<1>2. <<>> \notin Path
  BY PathsAssumption
<1>3. PathsOf(o) = IF o.type = "RENAME" THEN {o.path, o.to} ELSE {o.path}
  BY <1>1, <1>2 DEF PathsOf
<1>4. /\ FileAt(o) \in SUBSET Path /\ FileOff(o) \in SUBSET Path
      /\ DirAt(o) \in SUBSET Path /\ DirOff(o) \in SUBSET Path
  BY <1>1 DEF FileAt, FileOff, DirAt, DirOff
<1>5. PathsOf(o) = FileAt(o) \cup FileOff(o) \cup DirAt(o) \cup DirOff(o)
  BY <1>1, <1>3 DEF FileAt, FileOff, DirAt, DirOff
<1> QED BY <1>1, <1>4, <1>5

\* What MergeOne does with the record of one.
LEMMA MergeOnePlain ==
  ASSUME NEW b \in Plain, NEW o \in FileOp, o.type = "RENAME" => o.to # o.path
  PROVE  MergeOne(b, o) = Changed(b, FileAt(o), FileOff(o), DirAt(o), DirOff(o))
<1>1. o.type \in {"CREATE", "WRITE_DONE", "UNLINK", "MKDIR", "RMDIR", "RENAME"}
  BY FileOpIs
<1>2. b = [newFiles |-> b.newFiles, deleteFiles |-> b.deleteFiles, newDirs |-> b.newDirs,
           deleteDirs |-> b.deleteDirs, renameDirs |-> {}]
  BY PlainIs
<1> DEFINE nf == b.newFiles  df == b.deleteFiles  nd == b.newDirs  dd == b.deleteDirs
<1>3. b = [newFiles |-> nf, deleteFiles |-> df, newDirs |-> nd, deleteDirs |-> dd, renameDirs |-> {}]
  BY <1>2
<1>4. Changed(b, FileAt(o), FileOff(o), DirAt(o), DirOff(o)) =
        [newFiles |-> (nf \ FileOff(o)) \cup FileAt(o), deleteFiles |-> (df \ FileAt(o)) \cup FileOff(o),
         newDirs |-> (nd \ DirOff(o)) \cup DirAt(o), deleteDirs |-> (dd \ DirAt(o)) \cup DirOff(o), renameDirs |-> {}]
  BY DEF Changed
<1> HIDE DEF nf, df, nd, dd
<1>5. CASE o.type \in {"CREATE", "WRITE_DONE"}
  BY <1>3, <1>4, <1>5 DEF MergeOne, FileNew, FileAt, FileOff, DirAt, DirOff
<1>6. CASE o.type = "UNLINK"
  BY <1>3, <1>4, <1>6 DEF MergeOne, FileGone, FileAt, FileOff, DirAt, DirOff
<1>7. CASE o.type = "MKDIR"
  BY <1>3, <1>4, <1>7 DEF MergeOne, DirNew, FileAt, FileOff, DirAt, DirOff
<1>8. CASE o.type = "RMDIR"
  BY <1>3, <1>4, <1>8 DEF MergeOne, DirGone, FileAt, FileOff, DirAt, DirOff
<1>9. CASE o.type = "RENAME"
  <2>1. MergeOne(b, o) = [newFiles |-> (nf \cup {o.to}) \ {o.path}, deleteFiles |-> (df \ {o.to}) \cup {o.path},
                          newDirs |-> nd, deleteDirs |-> dd, renameDirs |-> {}]
    BY <1>3, <1>9 DEF MergeOne, FileGone, FileNew
  <2>2. (nf \cup {o.to}) \ {o.path} = (nf \ {o.path}) \cup {o.to}
    BY <1>9
  <2> QED BY <1>4, <1>9, <2>1, <2>2 DEF FileAt, FileOff, DirAt, DirOff
<1> QED BY <1>1, <1>5, <1>6, <1>7, <1>8, <1>9

-----------------------------------------------------------------------------
(* What is recorded and what it does *)

\* t becomes t2, and A, G, K and R say so
Becomes(t, t2, A, G, K, R) ==
  \A p \in Path :
    /\ p \in A => t2[p] \in Content
    /\ p \in G => t2[p] \notin Content
    /\ p \in K => t2[p] = Dir
    /\ p \in R => t2[p] # Dir
    /\ t2[p] # t[p] => /\ t2[p] \in Content => p \in A
                       /\ t2[p] = Dir => p \in K
                       /\ t[p] \in Content /\ t2[p] \notin Content => p \in G
                       /\ t[p] = Dir => p \in R

\* what b says of t is true
Tells(b, t) ==
  \A p \in Path : /\ p \in b.newFiles => t[p] \in Content
                  /\ p \in b.deleteFiles => t[p] \notin Content
                  /\ p \in b.newDirs => t[p] = Dir
                  /\ p \in b.deleteDirs => t[p] # Dir

\* where t differs from what a receiver has, r, b says so, and the receiver can do it
Explains(b, t, r, p) ==
  t[p] # r[p] =>
    /\ t[p] \in Content => p \in b.newFiles
    /\ t[p] = Dir => p \in b.newDirs
    /\ r[p] \in Content /\ t[p] \notin Content => p \in b.deleteFiles
    /\ r[p] = Dir => p \in b.deleteDirs /\ Children(r, p) = {}

\* What is true of t stays true when t changes and that is recorded.
LEMMA TellsChanged ==
  ASSUME NEW b, NEW t, NEW t2, NEW A, NEW G, NEW K, NEW R,
         Tells(b, t), Becomes(t, t2, A, G, K, R)
  PROVE  Tells(Changed(b, A, G, K, R), t2)
BY Nodes DEF Tells, Changed, Becomes

\* So does what tells how t differs from r.
LEMMA ExplainsChanged ==
  ASSUME NEW b, NEW t, NEW t2, NEW r, NEW A, NEW G, NEW K, NEW R, NEW p \in Path,
         Explains(b, t, r, p), Becomes(t, t2, A, G, K, R),
         p \in R /\ r[p] = Dir => Children(r, p) = {}
  PROVE  Explains(Changed(b, A, G, K, R), t2, r, p)
<1> DEFINE kids == Children(r, p) = {}
<1>1. /\ p \in A => t2[p] \in Content
      /\ p \in G => t2[p] \notin Content
      /\ p \in K => t2[p] = Dir
      /\ p \in R => t2[p] # Dir
      /\ t2[p] # t[p] => /\ t2[p] \in Content => p \in A
                         /\ t2[p] = Dir => p \in K
                         /\ t[p] \in Content /\ t2[p] \notin Content => p \in G
                         /\ t[p] = Dir => p \in R
  BY DEF Becomes
<1>2. t[p] # r[p] => /\ t[p] \in Content => p \in b.newFiles
                     /\ t[p] = Dir => p \in b.newDirs
                     /\ r[p] \in Content /\ t[p] \notin Content => p \in b.deleteFiles
                     /\ r[p] = Dir => p \in b.deleteDirs /\ kids
  BY DEF Explains
<1>3. p \in R /\ r[p] = Dir => kids
  OBVIOUS
<1> HIDE DEF kids
<1>4. t2[p] # r[p] => /\ t2[p] \in Content => p \in (b.newFiles \ G) \cup A
                      /\ t2[p] = Dir => p \in (b.newDirs \ R) \cup K
                      /\ r[p] \in Content /\ t2[p] \notin Content => p \in (b.deleteFiles \ A) \cup G
                      /\ r[p] = Dir => p \in (b.deleteDirs \ K) \cup R /\ kids
  BY <1>1, <1>2, <1>3, Nodes
<1> QED BY <1>4 DEF Explains, Changed, kids

\* one of p and q is under the other
Kin(p, q) == p \in Under[q] \/ q \in Under[p]

\* A directory is empty when nothing under it is there.
LEMMA KidsAre ==
  ASSUME NEW t, NEW p \in Path
  PROVE  Children(t, p) = {} <=> \A x \in Path : x \in Under[p] /\ x # p => t[x] = None
<1>1. Under[p] \subseteq Path
  BY UnderOrder
<1> QED BY <1>1 DEF Children

\* Related, as a relation between paths.
LEMMA KinIs ==
  ASSUME NEW p \in Path
  PROVE  /\ Kin(p, p)
         /\ \A q : q \in Related(p) <=> q \in Path /\ Kin(p, q)
<1>1. p \in Under[p] /\ Under[p] \subseteq Path
  BY UnderOrder
<1>2. \A q : q \in Above[p] <=> q \in Path /\ q # p /\ p \in Under[q]
  BY AboveIs
<1> QED BY <1>1, <1>2 DEF Kin, Related

\* What the rename of a file does, path by path.
LEMMA RenameIs ==
  ASSUME NEW t, IsTree(t), NEW o \in FileOp, o.type = "RENAME", Succeeds(t, o), NEW v
  PROVE  /\ Effect(t, o, v) \in [Path -> Content \cup {Dir, None}]
         /\ \A p \in Path : Effect(t, o, v)[p] = IF p = o.to THEN t[o.path]
                                                 ELSE IF p = o.path THEN None ELSE t[p]
<1> DEFINE from == o.path  to == o.to  T == Effect(t, o, v)
<1>1. from \in Path /\ to \in Path /\ o \in Op
  BY FileOpIs
<1>2. IsTree(T)
  BY <1>1, RenameKeepsTree
<1>3. T \in [Path -> Content \cup {Dir, None}]
  BY <1>2, TreeIs
<1>4. T = [p \in Path |->
             LET q == MovedTo(p, to, from) IN
             IF p \in Under[to] THEN IF q \in Path THEN t[q] ELSE None
             ELSE IF p \in Under[from] THEN None ELSE t[p]]
  BY DEF Effect
<1> HIDE DEF T
<1>5. /\ t[from] \in Content /\ ParentIsDir(t, to) /\ t[to] # Dir /\ to # from
  BY DEF Succeeds, IsFile
<1>6. /\ t \in [Path -> Content \cup {Dir, None}]
      /\ \A p, d \in Path : t[p] # None /\ d # p /\ p \in Under[d] => t[d] = Dir
  BY TreeIs
<1>7. MovedTo(to, to, from) = from
  <2>1. to \in Seq(Piece) /\ from \in Seq(Piece) /\ Len(to) \in Nat
    BY <1>1, PathFacts
  <2>2. SubSeq(to, Len(to) + 1, Len(to)) = <<>>
    <3>1. Len(to) + 1 \in Int /\ Len(to) \in Int /\ Len(to) < Len(to) + 1
      BY <2>1
    <3> QED BY <3>1, SubSeqEmpty
  <2>3. from \o <<>> = from
    BY <2>1, ConcatEmptySeq
  <2> QED BY <2>2, <2>3 DEF MovedTo
<1>8. \A p \in Path : p \in Under[from] /\ p # from => t[p] = None
  BY <1>1, <1>5, <1>6, Nodes
<1>9. \A p \in Path : p \in Under[to] /\ p # to => t[p] = None
  BY <1>1, <1>5, <1>6
<1>10. T[to] = t[from]
  <2>1. to \in Under[to]
    BY <1>1, UnderOrder
  <2>2. T[to] = IF MovedTo(to, to, from) \in Path THEN t[MovedTo(to, to, from)] ELSE None
    BY <1>1, <1>4, <2>1
  <2> QED BY <1>1, <1>7, <2>2
<1>11. ASSUME NEW p \in Path, p \in Under[to], p # to PROVE T[p] = None
  <2> DEFINE q == MovedTo(p, to, from)
  <2>1. T[p] = IF q \in Path THEN t[q] ELSE None
    BY <1>4, <1>11
  <2>2. ASSUME q \in Path PROVE t[q] = None
    <3>1. to \in Under[to]
      BY <1>1, UnderOrder
    <3>2. q \in Under[MovedTo(to, to, from)] /\ q # MovedTo(to, to, from)
      BY <1>1, <1>11, <2>2, <3>1, MovedUnder
    <3> QED BY <1>7, <1>8, <2>2, <3>2
  <2> HIDE DEF q
  <2> QED BY <2>1, <2>2
<1>12. from \notin Under[to] /\ to \notin Under[from]
  <2>1. from \notin Under[to]
    BY <1>1, <1>5, <1>9, Nodes
  <2>2. to \notin Under[from]
    <3>1. to \in Under[from] => t[from] = Dir
      BY <1>1, <1>5, AboveIs DEF ParentIsDir
    <3> QED BY <1>5, <3>1, Nodes
  <2> QED BY <2>1, <2>2
<1>13. from \in Under[from]
  BY <1>1, UnderOrder
<1>14. \A p \in Path : T[p] = IF p = to THEN t[from] ELSE IF p = from THEN None ELSE t[p]
  <2> TAKE p \in Path
  <2>1. CASE p \in Under[to]
    BY <1>9, <1>10, <1>11, <1>12, <2>1
  <2>2. CASE p \notin Under[to]
    <3>1. p # to /\ T[p] = IF p \in Under[from] THEN None ELSE t[p]
      BY <1>1, <1>4, <2>2, UnderOrder
    <3> QED BY <1>8, <1>13, <3>1
  <2> QED BY <2>1, <2>2
<1> QED BY <1>3, <1>14 DEF T

\* What a call that succeeds does, and that its record says so.
LEMMA OpEffect ==
  ASSUME NEW t, IsTree(t), NEW o \in FileOp, Succeeds(t, o), NEW v \in Content
  PROVE  /\ Effect(t, o, v) \in [Path -> Content \cup {Dir, None}]
         /\ \A p \in Path : Effect(t, o, v)[p] =
              IF p \in FileAt(o) THEN IF o.type = "RENAME" THEN t[o.path] ELSE v
              ELSE IF p \in DirAt(o) THEN Dir
              ELSE IF p \in FileOff(o) \cup DirOff(o) THEN None ELSE t[p]
         /\ \A p \in Path : /\ p \in FileAt(o) => t[p] # Dir
                            /\ p \in FileOff(o) => t[p] \in Content
                            /\ p \in DirAt(o) => t[p] = None
                            /\ p \in DirOff(o) => t[p] = Dir
         /\ o.type = "RENAME" => o.to # o.path
         /\ Becomes(t, Effect(t, o, v), FileAt(o), FileOff(o), DirAt(o), DirOff(o))
<1> DEFINE T == Effect(t, o, v)
<1>1. /\ o.path \in Path /\ (o.type = "RENAME" => o.to \in Path)
      /\ o.type \in {"CREATE", "WRITE_DONE", "UNLINK", "MKDIR", "RMDIR", "RENAME"}
  BY FileOpIs
<1>2. t \in [Path -> Content \cup {Dir, None}]
  BY TreeIs
<1>3. /\ o.type \in {"CREATE", "MKDIR"} => t[o.path] = None
      /\ o.type \in {"WRITE_DONE", "UNLINK", "RENAME"} => t[o.path] \in Content
      /\ o.type = "RMDIR" => t[o.path] = Dir
      /\ o.type = "RENAME" => t[o.to] # Dir /\ o.to # o.path
  BY DEF Succeeds, IsFile
<1>4. \A p \in Path : /\ p \in FileAt(o) => t[p] # Dir
                      /\ p \in FileOff(o) => t[p] \in Content
                      /\ p \in DirAt(o) => t[p] = None
                      /\ p \in DirOff(o) => t[p] = Dir
  BY <1>1, <1>3, Nodes DEF FileAt, FileOff, DirAt, DirOff
<1>5. T \in [Path -> Content \cup {Dir, None}]
      /\ \A p \in Path : T[p] = IF p \in FileAt(o) THEN IF o.type = "RENAME" THEN t[o.path] ELSE v
                                ELSE IF p \in DirAt(o) THEN Dir
                                ELSE IF p \in FileOff(o) \cup DirOff(o) THEN None ELSE t[p]
  <2>1. CASE o.type \in {"CREATE", "WRITE_DONE"}
    <3>1. T = [t EXCEPT ![o.path] = v]
      BY <2>1 DEF Effect
    <3>2. FileAt(o) = {o.path} /\ FileOff(o) = {} /\ DirAt(o) = {} /\ DirOff(o) = {} /\ o.type # "RENAME"
      BY <2>1 DEF FileAt, FileOff, DirAt, DirOff
    <3> HIDE DEF T
    <3> QED BY <1>1, <1>2, <3>1, <3>2
  <2>2. CASE o.type = "MKDIR"
    <3>1. T = [t EXCEPT ![o.path] = Dir]
      BY <2>2 DEF Effect
    <3>2. FileAt(o) = {} /\ FileOff(o) = {} /\ DirAt(o) = {o.path} /\ DirOff(o) = {}
      BY <2>2 DEF FileAt, FileOff, DirAt, DirOff
    <3> HIDE DEF T
    <3> QED BY <1>1, <1>2, <3>1, <3>2
  <2>3. CASE o.type \in {"UNLINK", "RMDIR"}
    <3>1. T = [t EXCEPT ![o.path] = None]
      BY <2>3 DEF Effect
    <3>2. FileAt(o) = {} /\ DirAt(o) = {} /\ FileOff(o) \cup DirOff(o) = {o.path}
      BY <2>3 DEF FileAt, FileOff, DirAt, DirOff
    <3> HIDE DEF T
    <3> QED BY <1>1, <1>2, <3>1, <3>2
  <2>4. CASE o.type = "RENAME"
    <3>1. /\ T \in [Path -> Content \cup {Dir, None}]
          /\ \A p \in Path : T[p] = IF p = o.to THEN t[o.path] ELSE IF p = o.path THEN None ELSE t[p]
      BY <2>4, RenameIs
    <3>2. FileAt(o) = {o.to} /\ FileOff(o) = {o.path} /\ DirAt(o) = {} /\ DirOff(o) = {}
      BY <2>4 DEF FileAt, FileOff, DirAt, DirOff
    <3> HIDE DEF T
    <3> QED BY <2>4, <3>1, <3>2
  <2> QED BY <1>1, <2>1, <2>2, <2>3, <2>4
<1>6. \A p \in FileAt(o) : p \notin FileOff(o) /\ p \notin DirOff(o) /\ p \notin DirAt(o)
  BY <1>1, <1>3 DEF FileAt, FileOff, DirAt, DirOff
<1>7. \A p \in DirAt(o) : p \notin FileOff(o) /\ p \notin DirOff(o)
  BY <1>1 DEF FileAt, FileOff, DirAt, DirOff
<1>8. o.type = "RENAME" => t[o.path] \in Content
  BY <1>3
<1> HIDE DEF T
<1>9. Becomes(t, T, FileAt(o), FileOff(o), DirAt(o), DirOff(o))
  <2> DEFINE A == FileAt(o)  G == FileOff(o)  K == DirAt(o)  R == DirOff(o)  x == IF o.type = "RENAME" THEN t[o.path] ELSE v
  <2>1. x \in Content
    BY <1>8
  <2>2. \A p \in Path : T[p] = IF p \in A THEN x ELSE IF p \in K THEN Dir ELSE IF p \in G \cup R THEN None ELSE t[p]
    BY <1>5
  <2> HIDE DEF A, G, K, R, x
  <2>3. \A p \in A : p \notin G /\ p \notin R /\ p \notin K
    BY <1>6 DEF A, G, K, R
  <2>4. \A p \in K : p \notin G /\ p \notin R
    BY <1>7 DEF G, K, R
  <2>5. \A p \in Path : (p \in A => t[p] # Dir) /\ (p \in G => t[p] \in Content) /\ (p \in K => t[p] = None)
                        /\ (p \in R => t[p] = Dir)
    BY <1>4 DEF A, G, K, R
  <2>6. Becomes(t, T, A, G, K, R)
    BY <2>1, <2>2, <2>3, <2>4, <2>5, Nodes DEF Becomes
  <2> QED BY <2>6 DEF A, G, K, R
<1> QED BY <1>3, <1>4, <1>5, <1>9 DEF T

\* A call succeeds where all looks the same that it looks at, and does the same there.
LEMMA SameCall ==
  ASSUME NEW t, IsTree(t), NEW w, IsTree(w), NEW o \in FileOp, Succeeds(t, o), NEW v \in Content,
         \A p \in PathsOf(o), q \in Path : Kin(p, q) => t[q] = w[q]
  PROVE  /\ Succeeds(w, o)
         /\ \A p \in PathsOf(o) : Effect(w, o, v)[p] = Effect(t, o, v)[p]
         /\ \A p \in Path : p \notin PathsOf(o) => Effect(w, o, v)[p] = w[p]
<1>1. /\ o.path \in Path /\ (o.type = "RENAME" => o.to \in Path)
      /\ o.type \in {"CREATE", "WRITE_DONE", "UNLINK", "MKDIR", "RMDIR", "RENAME"}
      /\ PathsOf(o) = FileAt(o) \cup FileOff(o) \cup DirAt(o) \cup DirOff(o)
      /\ PathsOf(o) \subseteq Path
  BY FileOpIs
<1>2. o.path \in PathsOf(o) /\ (o.type = "RENAME" => o.to \in PathsOf(o))
  <2>1. <<>> \notin Path
    BY PathsAssumption
  <2> QED BY <1>1, <2>1 DEF PathsOf
<1>3. \A p \in PathsOf(o) : t[p] = w[p] /\ (ParentIsDir(t, p) => ParentIsDir(w, p))
                            /\ (Children(t, p) = {} => Children(w, p) = {})
  <2> TAKE p \in PathsOf(o)
  <2>1. p \in Path /\ \A q \in Path : Kin(p, q) => t[q] = w[q]
    BY <1>1
  <2>2. t[p] = w[p]
    BY <2>1, KinIs
  <2>3. ParentIsDir(t, p) => ParentIsDir(w, p)
    <3>1. \A d \in Above[p] : d \in Path /\ Kin(p, d)
      BY <2>1, AboveIs DEF Kin
    <3> QED BY <2>1, <3>1 DEF ParentIsDir
  <2>4. Children(t, p) = {} => Children(w, p) = {}
    <3>1. \A x \in Path : x \in Under[p] => t[x] = w[x]
      BY <2>1 DEF Kin
    <3> QED BY <2>1, <3>1, KidsAre
  <2> QED BY <2>2, <2>3, <2>4
<1>4. Succeeds(w, o)
  BY <1>1, <1>2, <1>3 DEF Succeeds, IsFile
<1>5. \A p \in Path : Effect(t, o, v)[p] =
              IF p \in FileAt(o) THEN IF o.type = "RENAME" THEN t[o.path] ELSE v
              ELSE IF p \in DirAt(o) THEN Dir
              ELSE IF p \in FileOff(o) \cup DirOff(o) THEN None ELSE t[p]
  BY OpEffect
<1>6. \A p \in Path : Effect(w, o, v)[p] =
              IF p \in FileAt(o) THEN IF o.type = "RENAME" THEN w[o.path] ELSE v
              ELSE IF p \in DirAt(o) THEN Dir
              ELSE IF p \in FileOff(o) \cup DirOff(o) THEN None ELSE w[p]
  BY <1>4, OpEffect
<1>7. t[o.path] = w[o.path]
  BY <1>2, <1>3
<1>8. \A p \in PathsOf(o) : Effect(w, o, v)[p] = Effect(t, o, v)[p]
  BY <1>1, <1>3, <1>5, <1>6, <1>7
<1>9. \A p \in Path : p \notin PathsOf(o) => Effect(w, o, v)[p] = w[p]
  BY <1>1, <1>6
<1> QED BY <1>4, <1>8, <1>9

-----------------------------------------------------------------------------
(* Merging more records *)

\* what is recorded when no directory is renamed
RecOp == {o \in FileOp : o.type = "RENAME" => o.to # o.path}

\* A sequence of what is in S.
LEMMA SeqOfSet ==
  ASSUME NEW E, NEW s \in Seq(E), NEW S, ToSet(s) \subseteq S
  PROVE  s \in Seq(S)
<1>1. Len(s) \in Nat /\ DOMAIN s = 1..Len(s) /\ s = [i \in 1..Len(s) |-> s[i]]
  BY LenProperties
<1>2. \A i \in 1..Len(s) : s[i] \in S
  BY <1>1 DEF ToSet
<1>3. s \in [1..Len(s) -> S]
  BY <1>1, <1>2
<1> QED BY <1>1, <1>3, SeqDef

\* What merging does with one record more.
LEMMA MergeOneRec ==
  ASSUME NEW b \in Plain, NEW o \in RecOp
  PROVE  /\ MergeOne(b, o) = Changed(b, FileAt(o), FileOff(o), DirAt(o), DirOff(o))
         /\ MergeOne(b, o) \in Plain
         /\ BagPaths(MergeOne(b, o)) = BagPaths(b) \cup PathsOf(o)
<1>1. o \in FileOp /\ (o.type = "RENAME" => o.to # o.path)
  BY DEF RecOp
<1>2. MergeOne(b, o) = Changed(b, FileAt(o), FileOff(o), DirAt(o), DirOff(o))
  BY <1>1, MergeOnePlain
<1>3. /\ FileAt(o) \in SUBSET Path /\ FileOff(o) \in SUBSET Path
      /\ DirAt(o) \in SUBSET Path /\ DirOff(o) \in SUBSET Path
      /\ PathsOf(o) = FileAt(o) \cup FileOff(o) \cup DirAt(o) \cup DirOff(o)
  BY <1>1, FileOpIs
<1> DEFINE A == FileAt(o)  G == FileOff(o)  K == DirAt(o)  R == DirOff(o)
<1> HIDE DEF A, G, K, R
<1>4. /\ Changed(b, A, G, K, R) \in Plain
      /\ BagPaths(Changed(b, A, G, K, R)) = BagPaths(b) \cup A \cup G \cup K \cup R
  BY <1>3, ChangedPlain DEF A, G, K, R
<1>5. BagPaths(b) \cup A \cup G \cup K \cup R = BagPaths(b) \cup PathsOf(o)
  BY <1>3 DEF A, G, K, R
<1> QED BY <1>2, <1>4, <1>5 DEF A, G, K, R

\* What is merged is about the paths of the records.
LEMMA MergeRecs ==
  \A s \in Seq(RecOp) : /\ Merge(s) \in Plain
                        /\ BagPaths(Merge(s)) = UNION {PathsOf(o) : o \in ToSet(s)}
<1> DEFINE T == {s \in Seq(RecOp) : /\ Merge(s) \in Plain
                                    /\ BagPaths(Merge(s)) = UNION {PathsOf(o) : o \in ToSet(s)}}
<1>1. <<>> \in T
  <2>1. ToSet(<<>>) = {}
    BY DEF ToSet
  <2>2. Merge(<<>>) \in Plain /\ BagPaths(Merge(<<>>)) = {}
    BY MergeEmpty, NoChangesIs
  <2>3. UNION {PathsOf(o) : o \in {}} = {}
    OBVIOUS
  <2> QED BY <2>1, <2>2, <2>3, EmptySeq
<1>2. ASSUME NEW s \in Seq(RecOp), NEW e \in RecOp, s \in T PROVE Append(s, e) \in T
  <2>1. Merge(Append(s, e)) = MergeOne(Merge(s), e)
    BY MergeAppend
  <2>2. ToSet(Append(s, e)) = ToSet(s) \cup {e} /\ Append(s, e) \in Seq(RecOp)
    BY ToSetAppend
  <2>3. Merge(s) \in Plain /\ BagPaths(Merge(s)) = UNION {PathsOf(o) : o \in ToSet(s)}
    BY <1>2
  <2>4. MergeOne(Merge(s), e) \in Plain /\ BagPaths(MergeOne(Merge(s), e)) = BagPaths(Merge(s)) \cup PathsOf(e)
    BY <2>3, MergeOneRec
  <2> DEFINE t == ToSet(s)
  <2> HIDE DEF t
  <2>5. UNION {PathsOf(o) : o \in t \cup {e}} = (UNION {PathsOf(o) : o \in t}) \cup PathsOf(e)
    <3>1. \A x : x \in UNION {PathsOf(o) : o \in t \cup {e}} => x \in (UNION {PathsOf(o) : o \in t}) \cup PathsOf(e)
      BY Zenon
    <3>2. \A x : x \in (UNION {PathsOf(o) : o \in t}) \cup PathsOf(e) => x \in UNION {PathsOf(o) : o \in t \cup {e}}
      BY Zenon
    <3> QED BY <3>1, <3>2, Zenon
  <2>6. BagPaths(Merge(Append(s, e))) = UNION {PathsOf(o) : o \in ToSet(Append(s, e))}
    BY <2>1, <2>2, <2>3, <2>4, <2>5 DEF t
  <2> QED BY <2>1, <2>2, <2>4, <2>6
<1> HIDE DEF T
<1>3. Seq(RecOp) \subseteq T
  BY <1>1, <1>2, SeqInduction
<1> QED BY <1>3 DEF T

\* A record more, behind two sequences.
LEMMA MergeMore ==
  ASSUME NEW E, NEW s \in Seq(E), NEW q \in Seq(E), NEW e \in E
  PROVE  Merge(s \o Append(q, e)) = MergeOne(Merge(s \o q), e)
<1>1. s \o q \in Seq(E)
  BY ConcatProperties
<1>2. <<e>> \in Seq(E)
  OBVIOUS
<1>3. s \o Append(q, e) = Append(s \o q, e)
  <2>1. Append(q, e) = q \o <<e>> /\ Append(s \o q, e) = (s \o q) \o <<e>>
    BY <1>1, AppendIsConcat
  <2> QED BY <1>2, <2>1, ConcatAssociative
<1> QED BY <1>1, <1>3, MergeAppend

\* Records of one type, one after the other
Only(type) == {o \in RecOp : o.type = type}
PathsIn(q) == {o.path : o \in ToSet(q)}
ChangedBy(b, type, P) ==
  Changed(b, IF type \in {"CREATE", "WRITE_DONE"} THEN P ELSE {}, IF type = "UNLINK" THEN P ELSE {},
          IF type = "MKDIR" THEN P ELSE {}, IF type = "RMDIR" THEN P ELSE {})

\* A path more of the same type.
LEMMA ChangedMore ==
  ASSUME NEW type \in CallTypes, NEW b \in Plain, NEW P, NEW o \in Only(type)
  PROVE  Changed(ChangedBy(b, type, P), FileAt(o), FileOff(o), DirAt(o), DirOff(o)) = ChangedBy(b, type, P \cup {o.path})
<1>1. o.type = type
  BY DEF Only
<1> DEFINE p == o.path  nf == b.newFiles  df == b.deleteFiles  nd == b.newDirs  dd == b.deleteDirs
<1> HIDE DEF p, nf, df, nd, dd
<1>2. CASE type \in {"CREATE", "WRITE_DONE"}
  <2>1. FileAt(o) = {p} /\ FileOff(o) = {} /\ DirAt(o) = {} /\ DirOff(o) = {}
    BY <1>1, <1>2 DEF FileAt, FileOff, DirAt, DirOff, p
  <2>2. \A Q : ChangedBy(b, type, Q) = [newFiles |-> nf \cup Q, deleteFiles |-> df \ Q, newDirs |-> nd, deleteDirs |-> dd, renameDirs |-> {}]
    BY <1>2 DEF ChangedBy, Changed, nf, df, nd, dd
  <2> DEFINE y == ChangedBy(b, type, P)
  <2>3. y = [newFiles |-> nf \cup P, deleteFiles |-> df \ P, newDirs |-> nd, deleteDirs |-> dd, renameDirs |-> {}]
    BY <2>2
  <2>4. y.newFiles = nf \cup P /\ y.deleteFiles = df \ P
        /\ y.newDirs = nd /\ y.deleteDirs = dd
    BY <2>3
  <2> HIDE DEF y
  <2>5. Changed(y, FileAt(o), FileOff(o), DirAt(o), DirOff(o)) = [newFiles |-> (nf \cup P) \cup {p}, deleteFiles |-> (df \ P) \ {p}, newDirs |-> nd, deleteDirs |-> dd, renameDirs |-> {}]
    BY <2>1, <2>4 DEF Changed
  <2>6. (nf \cup P) \cup {p} = nf \cup (P \cup {p}) /\ (df \ P) \ {p} = df \ (P \cup {p})
    OBVIOUS
  <2>7. ChangedBy(b, type, P \cup {p}) = [newFiles |-> nf \cup (P \cup {p}), deleteFiles |-> df \ (P \cup {p}), newDirs |-> nd, deleteDirs |-> dd, renameDirs |-> {}]
    BY <2>2
  <2> QED BY <2>5, <2>6, <2>7 DEF y, p
<1>3. CASE type = "UNLINK"
  <2>1. FileAt(o) = {} /\ FileOff(o) = {p} /\ DirAt(o) = {} /\ DirOff(o) = {}
    BY <1>1, <1>3 DEF FileAt, FileOff, DirAt, DirOff, p
  <2>2. \A Q : ChangedBy(b, type, Q) = [newFiles |-> nf \ Q, deleteFiles |-> df \cup Q, newDirs |-> nd, deleteDirs |-> dd, renameDirs |-> {}]
    BY <1>3 DEF ChangedBy, Changed, nf, df, nd, dd
  <2> DEFINE y == ChangedBy(b, type, P)
  <2>3. y = [newFiles |-> nf \ P, deleteFiles |-> df \cup P, newDirs |-> nd, deleteDirs |-> dd, renameDirs |-> {}]
    BY <2>2
  <2>4. y.newFiles = nf \ P /\ y.deleteFiles = df \cup P
        /\ y.newDirs = nd /\ y.deleteDirs = dd
    BY <2>3
  <2> HIDE DEF y
  <2>5. Changed(y, FileAt(o), FileOff(o), DirAt(o), DirOff(o)) = [newFiles |-> (nf \ P) \ {p}, deleteFiles |-> (df \cup P) \cup {p}, newDirs |-> nd, deleteDirs |-> dd, renameDirs |-> {}]
    BY <2>1, <2>4 DEF Changed
  <2>6. (nf \ P) \ {p} = nf \ (P \cup {p}) /\ (df \cup P) \cup {p} = df \cup (P \cup {p})
    OBVIOUS
  <2>7. ChangedBy(b, type, P \cup {p}) = [newFiles |-> nf \ (P \cup {p}), deleteFiles |-> df \cup (P \cup {p}), newDirs |-> nd, deleteDirs |-> dd, renameDirs |-> {}]
    BY <2>2
  <2> QED BY <2>5, <2>6, <2>7 DEF y, p
<1>4. CASE type = "MKDIR"
  <2>1. FileAt(o) = {} /\ FileOff(o) = {} /\ DirAt(o) = {p} /\ DirOff(o) = {}
    BY <1>1, <1>4 DEF FileAt, FileOff, DirAt, DirOff, p
  <2>2. \A Q : ChangedBy(b, type, Q) = [newFiles |-> nf, deleteFiles |-> df, newDirs |-> nd \cup Q, deleteDirs |-> dd \ Q, renameDirs |-> {}]
    BY <1>4 DEF ChangedBy, Changed, nf, df, nd, dd
  <2> DEFINE y == ChangedBy(b, type, P)
  <2>3. y = [newFiles |-> nf, deleteFiles |-> df, newDirs |-> nd \cup P, deleteDirs |-> dd \ P, renameDirs |-> {}]
    BY <2>2
  <2>4. y.newFiles = nf /\ y.deleteFiles = df
        /\ y.newDirs = nd \cup P /\ y.deleteDirs = dd \ P
    BY <2>3
  <2> HIDE DEF y
  <2>5. Changed(y, FileAt(o), FileOff(o), DirAt(o), DirOff(o)) = [newFiles |-> nf, deleteFiles |-> df, newDirs |-> (nd \cup P) \cup {p}, deleteDirs |-> (dd \ P) \ {p}, renameDirs |-> {}]
    BY <2>1, <2>4 DEF Changed
  <2>6. (nd \cup P) \cup {p} = nd \cup (P \cup {p}) /\ (dd \ P) \ {p} = dd \ (P \cup {p})
    OBVIOUS
  <2>7. ChangedBy(b, type, P \cup {p}) = [newFiles |-> nf, deleteFiles |-> df, newDirs |-> nd \cup (P \cup {p}), deleteDirs |-> dd \ (P \cup {p}), renameDirs |-> {}]
    BY <2>2
  <2> QED BY <2>5, <2>6, <2>7 DEF y, p
<1>5. CASE type = "RMDIR"
  <2>1. FileAt(o) = {} /\ FileOff(o) = {} /\ DirAt(o) = {} /\ DirOff(o) = {p}
    BY <1>1, <1>5 DEF FileAt, FileOff, DirAt, DirOff, p
  <2>2. \A Q : ChangedBy(b, type, Q) = [newFiles |-> nf, deleteFiles |-> df, newDirs |-> nd \ Q, deleteDirs |-> dd \cup Q, renameDirs |-> {}]
    BY <1>5 DEF ChangedBy, Changed, nf, df, nd, dd
  <2> DEFINE y == ChangedBy(b, type, P)
  <2>3. y = [newFiles |-> nf, deleteFiles |-> df, newDirs |-> nd \ P, deleteDirs |-> dd \cup P, renameDirs |-> {}]
    BY <2>2
  <2>4. y.newFiles = nf /\ y.deleteFiles = df
        /\ y.newDirs = nd \ P /\ y.deleteDirs = dd \cup P
    BY <2>3
  <2> HIDE DEF y
  <2>5. Changed(y, FileAt(o), FileOff(o), DirAt(o), DirOff(o)) = [newFiles |-> nf, deleteFiles |-> df, newDirs |-> (nd \ P) \ {p}, deleteDirs |-> (dd \cup P) \cup {p}, renameDirs |-> {}]
    BY <2>1, <2>4 DEF Changed
  <2>6. (nd \ P) \ {p} = nd \ (P \cup {p}) /\ (dd \cup P) \cup {p} = dd \cup (P \cup {p})
    OBVIOUS
  <2>7. ChangedBy(b, type, P \cup {p}) = [newFiles |-> nf, deleteFiles |-> df, newDirs |-> nd \ (P \cup {p}), deleteDirs |-> dd \cup (P \cup {p}), renameDirs |-> {}]
    BY <2>2
  <2> QED BY <2>5, <2>6, <2>7 DEF y, p
<1> QED BY <1>2, <1>3, <1>4, <1>5 DEF CallTypes

\* Records of one type are merged to a set of paths.
LEMMA MergeOnly ==
  ASSUME NEW type \in CallTypes, NEW s \in Seq(RecOp)
  PROVE  \A q \in Seq(Only(type)) : Merge(s \o q) = ChangedBy(Merge(s), type, PathsIn(q))
<1> DEFINE T == {q \in Seq(Only(type)) : Merge(s \o q) = ChangedBy(Merge(s), type, PathsIn(q))}
           b == Merge(s)
<1>0. b \in Plain /\ Only(type) \subseteq RecOp
  BY MergeRecs DEF Only
<1>1. <<>> \in T
  <2>1. PathsIn(<<>>) = {} /\ s \o <<>> = s /\ <<>> \in Seq(Only(type))
    BY ConcatEmptySeq, EmptySeq DEF PathsIn, ToSet
  <2>2. ChangedBy(b, type, {}) = b
    <3>1. b = [newFiles |-> b.newFiles, deleteFiles |-> b.deleteFiles, newDirs |-> b.newDirs,
               deleteDirs |-> b.deleteDirs, renameDirs |-> {}]
      BY <1>0, PlainIs
    <3> DEFINE nf == b.newFiles  df == b.deleteFiles  nd == b.newDirs  dd == b.deleteDirs
    <3>2. ChangedBy(b, type, {}) = [newFiles |-> nf, deleteFiles |-> df, newDirs |-> nd,
                                    deleteDirs |-> dd, renameDirs |-> {}]
      <4>1. ChangedBy(b, type, {}) = Changed(b, {}, {}, {}, {})
        BY DEF ChangedBy
      <4> HIDE DEF b
      <4> QED BY <4>1 DEF Changed
    <3> QED BY <3>1, <3>2
  <2> QED BY <2>1, <2>2
<1>2. ASSUME NEW q \in Seq(Only(type)), NEW o \in Only(type), q \in T PROVE Append(q, o) \in T
  <2>1. q \in Seq(RecOp) /\ o \in RecOp
    BY <1>0, SeqMonotonic
  <2>2. Merge(s \o Append(q, o)) = MergeOne(Merge(s \o q), o)
    BY <2>1, MergeMore
  <2>3. Merge(s \o q) \in Plain
    <3>1. s \o q \in Seq(RecOp)
      BY <2>1, ConcatProperties
    <3> QED BY <3>1, MergeRecs
  <2>4. MergeOne(Merge(s \o q), o) = Changed(Merge(s \o q), FileAt(o), FileOff(o), DirAt(o), DirOff(o))
    BY <2>1, <2>3, MergeOneRec
  <2>5. Merge(s \o q) = ChangedBy(b, type, PathsIn(q))
    BY <1>2
  <2> HIDE DEF b
  <2>6. PathsIn(Append(q, o)) = PathsIn(q) \cup {o.path} /\ Append(q, o) \in Seq(Only(type))
    <3>1. ToSet(Append(q, o)) = ToSet(q) \cup {o} /\ Append(q, o) \in Seq(Only(type))
      BY ToSetAppend
    <3> QED BY <3>1 DEF PathsIn
  <2>7. Changed(ChangedBy(b, type, PathsIn(q)), FileAt(o), FileOff(o), DirAt(o), DirOff(o))
          = ChangedBy(b, type, PathsIn(q) \cup {o.path})
    BY <1>0, ChangedMore
  <2>8. Merge(s \o Append(q, o)) = ChangedBy(b, type, PathsIn(Append(q, o)))
    BY <2>2, <2>4, <2>5, <2>6, <2>7
  <2> QED BY <2>6, <2>8 DEF b
<1> HIDE DEF T
<1>3. Seq(Only(type)) \subseteq T
  BY <1>1, <1>2, SeqInduction
<1> QED BY <1>3 DEF T

\* Calls records each path of a set once, in the order of Paths.
LEMMA CallsRecs ==
  ASSUME NEW type \in CallTypes, NEW S \in SUBSET Path
  PROVE  Calls(type, S) \in Seq(Only(type)) /\ Calls(type, S) \in Seq(RecOp) /\ PathsIn(Calls(type, S)) = S
<1>1. /\ Calls(type, S) \in Seq(Op)
      /\ ToSet(Calls(type, S)) = {[type |-> type, path |-> p, to |-> <<>>] : p \in Path \cap S}
  BY CallsAre
<1>2. \A p \in Path : [type |-> type, path |-> p, to |-> <<>>] \in Only(type)
  BY DEF Only, RecOp, FileOp, Op, CallTypes
<1>3. ToSet(Calls(type, S)) \subseteq Only(type)
  BY <1>1, <1>2
<1>4. Only(type) \subseteq RecOp
  BY DEF Only
<1>5. Calls(type, S) \in Seq(Only(type)) /\ Calls(type, S) \in Seq(RecOp)
  <2>1. ToSet(Calls(type, S)) \subseteq RecOp
    BY <1>3, <1>4
  <2> QED BY <1>1, <1>3, <2>1, SeqOfSet
<1>6. PathsIn(Calls(type, S)) = S
  <2>1. PathsIn(Calls(type, S)) = {o.path : o \in {[type |-> type, path |-> p, to |-> <<>>] : p \in Path \cap S}}
    BY <1>1 DEF PathsIn
  <2>2. \A p : [type |-> type, path |-> p, to |-> <<>>].path = p
    OBVIOUS
  <2>3. S = Path \cap S
    OBVIOUS
  <2>4. \A x : x \in {o.path : o \in {[type |-> type, path |-> p, to |-> <<>>] : p \in S}} <=> x \in S
    BY <2>2, Zenon
  <2>5. {o.path : o \in {[type |-> type, path |-> p, to |-> <<>>] : p \in S}} = S
    BY <2>4, Zenon
  <2> QED BY <2>1, <2>3, <2>5, Zenon
<1> QED BY <1>5, <1>6

\* Concatenation, once
LEMMA Concat ==
  ASSUME NEW E, NEW s \in Seq(E), NEW a \in Seq(E), NEW b \in Seq(E)
  PROVE  /\ s \o a \in Seq(E)
         /\ s \o (a \o b) = (s \o a) \o b
<1>1. s \o a \in Seq(E) /\ a \o b \in Seq(E)
  BY ConcatProperties
<1>2. s \o (a \o b) = (s \o a) \o b
  BY ConcatAssociative
<1> QED BY <1>1, <1>2

\* and for all sequences.
LEMMA ConcatAll ==
  ASSUME NEW E
  PROVE  \A s, a, b \in Seq(E) : s \o (a \o b) = (s \o a) \o b
<1> TAKE s, a, b \in Seq(E)
<1> QED BY Concat

\* what the receiver of a change set records, and that merged
Doings(A, G, K, R) == Calls("RMDIR", R) \o Calls("UNLINK", G) \o Calls("MKDIR", K) \o Calls("WRITE_DONE", A)

\* What is merged of what a receiver records is the sets it was about.
LEMMA MergeDone ==
  ASSUME NEW s \in Seq(RecOp), NEW A \in SUBSET Path, NEW G \in SUBSET Path, NEW K \in SUBSET Path,
         NEW R \in SUBSET Path, A \cap G = {}, K \cap R = {}
  PROVE  /\ Doings(A, G, K, R) \in Seq(RecOp)
         /\ Merge(s \o Doings(A, G, K, R)) = Changed(Merge(s), A, G, K, R)
<1> DEFINE a == Calls("RMDIR", R)  b == Calls("UNLINK", G)  c == Calls("MKDIR", K)  d == Calls("WRITE_DONE", A)
<1>1. /\ "RMDIR" \in CallTypes /\ "UNLINK" \in CallTypes /\ "MKDIR" \in CallTypes /\ "WRITE_DONE" \in CallTypes
  BY DEF CallTypes
<1>2. /\ a \in Seq(Only("RMDIR")) /\ a \in Seq(RecOp) /\ PathsIn(a) = R
      /\ b \in Seq(Only("UNLINK")) /\ b \in Seq(RecOp) /\ PathsIn(b) = G
      /\ c \in Seq(Only("MKDIR")) /\ c \in Seq(RecOp) /\ PathsIn(c) = K
      /\ d \in Seq(Only("WRITE_DONE")) /\ d \in Seq(RecOp) /\ PathsIn(d) = A
  BY <1>1, CallsRecs
<1> HIDE DEF a, b, c, d
<1>3. /\ s \o a \in Seq(RecOp) /\ (s \o a) \o b \in Seq(RecOp) /\ ((s \o a) \o b) \o c \in Seq(RecOp)
      /\ a \o b \in Seq(RecOp) /\ (a \o b) \o c \in Seq(RecOp) /\ ((a \o b) \o c) \o d \in Seq(RecOp)
  <2>1. s \o a \in Seq(RecOp) /\ a \o b \in Seq(RecOp)
    BY <1>2, Concat
  <2>2. (s \o a) \o b \in Seq(RecOp) /\ (a \o b) \o c \in Seq(RecOp)
    BY <1>2, <2>1, Concat
  <2>3. ((s \o a) \o b) \o c \in Seq(RecOp) /\ ((a \o b) \o c) \o d \in Seq(RecOp)
    BY <1>2, <2>2, Concat
  <2> QED BY <2>1, <2>2, <2>3
<1>4. s \o (((a \o b) \o c) \o d) = (((s \o a) \o b) \o c) \o d
  <2> DEFINE ab == a \o b  abc == ab \o c
  <2>1. ab \in Seq(RecOp) /\ s \o ab = (s \o a) \o b
    <3>0. s \in Seq(RecOp) /\ a \in Seq(RecOp) /\ b \in Seq(RecOp)
      BY <1>2
    <3>1. a \o b \in Seq(RecOp)
      BY <3>0, Concat
    <3>2. s \o (a \o b) = (s \o a) \o b
      BY <3>0, Concat
    <3> QED BY <3>1, <3>2
  <2> HIDE DEF ab
  <2>2. abc \in Seq(RecOp) /\ s \o abc = (s \o ab) \o c
    <3>0. ab \in Seq(RecOp) /\ c \in Seq(RecOp)
      BY <1>2, <2>1
    <3>1. ab \o c \in Seq(RecOp)
      BY <3>0, Concat
    <3>2. s \o (ab \o c) = (s \o ab) \o c
      BY <3>0, Concat
    <3> QED BY <3>1, <3>2
  <2> HIDE DEF abc
  <2>3. s \o (abc \o d) = (s \o abc) \o d
    <3>0. abc \in Seq(RecOp) /\ d \in Seq(RecOp)
      BY <1>2, <2>2
    <3> QED BY <3>0, Concat
  <2>4. s \o (abc \o d) = (((s \o a) \o b) \o c) \o d
    BY <2>1, <2>2, <2>3, Zenon
  <2> QED BY <2>4 DEF ab, abc
<1>5. Merge(s \o a) = ChangedBy(Merge(s), "RMDIR", R)
  BY <1>1, <1>2, MergeOnly
<1>6. Merge((s \o a) \o b) = ChangedBy(Merge(s \o a), "UNLINK", G)
  BY <1>1, <1>2, <1>3, MergeOnly
<1>7. Merge(((s \o a) \o b) \o c) = ChangedBy(Merge((s \o a) \o b), "MKDIR", K)
  BY <1>1, <1>2, <1>3, MergeOnly
<1>8. Merge((((s \o a) \o b) \o c) \o d) = ChangedBy(Merge(((s \o a) \o b) \o c), "WRITE_DONE", A)
  BY <1>1, <1>2, <1>3, MergeOnly
<1> DEFINE x == Merge(s)
<1>9. ChangedBy(ChangedBy(ChangedBy(ChangedBy(x, "RMDIR", R), "UNLINK", G), "MKDIR", K), "WRITE_DONE", A)
        = Changed(x, A, G, K, R)
  <2> HIDE DEF x
  <2> DEFINE nf == x.newFiles  df == x.deleteFiles  nd == x.newDirs  dd == x.deleteDirs
  <2>1. ChangedBy(x, "RMDIR", R) = [newFiles |-> nf, deleteFiles |-> df, newDirs |-> nd \ R, deleteDirs |-> dd \cup R, renameDirs |-> {}]
    BY DEF ChangedBy, Changed
  <2> HIDE DEF nf, df, nd, dd
  <2>2. ChangedBy(ChangedBy(x, "RMDIR", R), "UNLINK", G)
          = [newFiles |-> nf \ G, deleteFiles |-> df \cup G, newDirs |-> nd \ R, deleteDirs |-> dd \cup R, renameDirs |-> {}]
    BY <2>1 DEF ChangedBy, Changed
  <2>3. ChangedBy(ChangedBy(ChangedBy(x, "RMDIR", R), "UNLINK", G), "MKDIR", K)
          = [newFiles |-> nf \ G, deleteFiles |-> df \cup G, newDirs |-> (nd \ R) \cup K, deleteDirs |-> (dd \cup R) \ K, renameDirs |-> {}]
    BY <2>2 DEF ChangedBy, Changed
  <2>4. ChangedBy(ChangedBy(ChangedBy(ChangedBy(x, "RMDIR", R), "UNLINK", G), "MKDIR", K), "WRITE_DONE", A)
          = [newFiles |-> (nf \ G) \cup A, deleteFiles |-> (df \cup G) \ A, newDirs |-> (nd \ R) \cup K,
             deleteDirs |-> (dd \cup R) \ K, renameDirs |-> {}]
    <3> DEFINE y == ChangedBy(ChangedBy(ChangedBy(x, "RMDIR", R), "UNLINK", G), "MKDIR", K)
    <3>1. y.newFiles = nf \ G /\ y.deleteFiles = df \cup G /\ y.newDirs = (nd \ R) \cup K /\ y.deleteDirs = (dd \cup R) \ K
      BY <2>3
    <3> HIDE DEF y
    <3>2. ChangedBy(y, "WRITE_DONE", A) = Changed(y, A, {}, {}, {})
      BY DEF ChangedBy
    <3>3. Changed(y, A, {}, {}, {}) = [newFiles |-> (nf \ G) \cup A, deleteFiles |-> (df \cup G) \ A, newDirs |-> (nd \ R) \cup K,
             deleteDirs |-> (dd \cup R) \ K, renameDirs |-> {}]
      BY <3>1 DEF Changed
    <3> QED BY <3>2, <3>3 DEF y
  <2>5. (df \cup G) \ A = (df \ A) \cup G /\ (dd \cup R) \ K = (dd \ K) \cup R
    OBVIOUS
  <2>6. Changed(x, A, G, K, R) = [newFiles |-> (nf \ G) \cup A, deleteFiles |-> (df \ A) \cup G, newDirs |-> (nd \ R) \cup K,
                                  deleteDirs |-> (dd \ K) \cup R, renameDirs |-> {}]
    BY DEF Changed, nf, df, nd, dd
  <2> QED BY <2>4, <2>5, <2>6
<1>10. Merge(s \o (((a \o b) \o c) \o d)) = Changed(Merge(s), A, G, K, R)
  BY <1>4, <1>5, <1>6, <1>7, <1>8, <1>9
<1> QED BY <1>3, <1>10 DEF Doings, a, b, c, d

-----------------------------------------------------------------------------
(* A change set that explains all differences *)

\* A change set without renames is applied by Updated alone.
LEMMA NoRenameCalls ==
  ASSUME NEW sender, NEW r, NEW b \in Plain, NEW f
  PROVE  Received(sender, r, b, f) = Updated(sender, r, b, f)
<1>1. b.renameDirs = {}
  BY PlainIs
<1>2. RenameCalls({}) = <<>>
  <2> DEFINE s == Chosen(Pairs, {})
             q == [i \in DOMAIN s |-> [type |-> "RENAME_DIR", path |-> s[i][1], to |-> s[i][2]]]
  <2>1. s \in Seq(Path \X Path) /\ ToSet(s) = {}
    <3>1. ToSet(Pairs) \cap {} = {}
      OBVIOUS
    <3> QED BY <3>1, PairsType, ChosenIs
  <2>2. RenameCalls({}) = q
    BY DEF RenameCalls
  <2>3. q \in Seq(DirRenames)
    BY <2>2, RenameCallsType
  <2>4. DOMAIN q = DOMAIN s
    OBVIOUS
  <2> HIDE DEF s, q
  <2>5. DOMAIN s = {}
    BY <2>1 DEF ToSet
  <2>6. Len(q) \in Nat /\ DOMAIN q = 1..Len(q)
    BY <2>3, LenProperties
  <2>7. Len(q) = 0
    BY <2>4, <2>5, <2>6
  <2> QED BY <2>2, <2>3, <2>7, EmptySeq
<1>3. FoldLeft(RenameNext, Updated(sender, r, b, f), <<>>) = Updated(sender, r, b, f)
  BY RenamesEmpty
<1> QED BY <1>1, <1>2, <1>3 DEF Received

\* what b has a receiver with tree r remove, delete and make
Clears(b, r) == {p \in b.deleteDirs : r[p] = Dir}
Drops(b, r) == {p \in b.deleteFiles : r[p] \in Content}
Adds(b, r) == {p \in b.newDirs : r[p] # Dir}

\* A change set that is true of M, that explains all the receiver is without, and whose files
\* the sender has as M has them, makes M of the receiver, and the receiver records what it did.
LEMMA Transfer ==
  ASSUME NEW sender, NEW r, IsTree(r), NEW M, IsTree(M), NEW b \in Plain, NEW f,
         Tells(b, M), \A p \in Path : Explains(b, M, r, p), \A p \in b.newFiles : sender[p] = M[p]
  PROVE  /\ Received(sender, r, b, f).tree = M
         /\ Received(sender, r, b, f).done = Doings(f, Drops(b, r), Adds(b, r), Clears(b, r))
<1>1. /\ r \in [Path -> Content \cup {Dir, None}] /\ M \in [Path -> Content \cup {Dir, None}]
      /\ \A p, d \in Path : M[p] # None /\ d # p /\ p \in Under[d] => M[d] = Dir
  BY TreeIs
<1>2. /\ b.newFiles \subseteq Path /\ b.deleteFiles \subseteq Path /\ b.newDirs \subseteq Path
      /\ b.deleteDirs \subseteq Path
  BY PlainIs
<1>3. \A p \in Path : /\ p \in b.newFiles => M[p] \in Content
                      /\ p \in b.deleteFiles => M[p] \notin Content
                      /\ p \in b.newDirs => M[p] = Dir
                      /\ p \in b.deleteDirs => M[p] # Dir
  BY DEF Tells
<1>4. \A p \in Path : M[p] # r[p] =>
        /\ M[p] \in Content => p \in b.newFiles
        /\ M[p] = Dir => p \in b.newDirs
        /\ r[p] \in Content /\ M[p] \notin Content => p \in b.deleteFiles
        /\ r[p] = Dir => p \in b.deleteDirs /\ Children(r, p) = {}
  BY DEF Explains
<1>5. \A p \in Path : Removes(r, b, p) <=> p \in b.deleteDirs /\ r[p] = Dir
  BY <1>3, <1>4 DEF Removes
<1>6. \A p \in Path : Unlinks(r, b, p) <=> p \in b.deleteFiles /\ r[p] \in Content
  BY DEF Unlinks, IsFile
<1>7. \A p \in Path : Left(r, b, p) = IF M[p] = r[p] \/ (M[p] \in Content /\ r[p] \in Content) THEN r[p] ELSE None
  <2> TAKE p \in Path
  <2>1. Left(r, b, p) = IF (p \in b.deleteDirs /\ r[p] = Dir) \/ (p \in b.deleteFiles /\ r[p] \in Content)
                        THEN None ELSE r[p]
    BY <1>5, <1>6 DEF Left
  <2>2. r[p] \in Content \cup {Dir, None} /\ M[p] \in Content \cup {Dir, None}
    BY <1>1
  <2>3. M[p] # r[p] => /\ r[p] \in Content /\ M[p] \notin Content => p \in b.deleteFiles
                       /\ r[p] = Dir => p \in b.deleteDirs
    BY <1>4
  <2>4. (p \in b.deleteFiles => M[p] \notin Content) /\ (p \in b.deleteDirs => M[p] # Dir)
    BY <1>3
  <2> QED BY <2>1, <2>2, <2>3, <2>4, Nodes
<1>8. \A p, d \in Path : M[p] = Dir /\ d \in Above[p] => M[d] = Dir
  BY <1>1, Nodes, AboveIs
<1>9. \A p \in Path : M[p] = Dir => Left(r, b, p) = Dir \/ (p \in b.newDirs /\ Left(r, b, p) = None)
  BY <1>1, <1>4, <1>7, Nodes
<1>10. \A p \in Path : Makes(r, b, p) <=> p \in b.newDirs /\ r[p] # Dir
  <2> TAKE p \in Path
  <2>1. Above[p] \subseteq Path
    BY AboveIs
  <2>2. p \in b.newDirs => M[p] = Dir
    BY <1>3
  <2>3. M[p] = Dir => \A d \in Above[p] : Left(r, b, d) = Dir \/ (d \in b.newDirs /\ Left(r, b, d) = None)
    BY <1>8, <1>9, <2>1
  <2>4. M[p] = Dir => (Left(r, b, p) = None <=> r[p] # Dir)
    BY <1>7, Nodes
  <2> QED BY <2>2, <2>3, <2>4 DEF Makes
<1>11. \A p \in Path : M[p] = Dir => Left(r, b, p) = Dir \/ Makes(r, b, p)
  BY <1>4, <1>7, <1>10, Nodes
<1>12. \A p \in Path : Gets(r, b, p) <=> p \in b.newFiles
  <2> TAKE p \in Path
  <2>1. Above[p] \subseteq Path
    BY AboveIs
  <2>2. p \in b.newFiles => M[p] \in Content
    BY <1>3
  <2>3. M[p] \in Content => Left(r, b, p) # Dir /\ ~Makes(r, b, p)
    BY <1>3, <1>7, <1>10, Nodes
  <2>4. M[p] \in Content => \A d \in Above[p] : Left(r, b, d) = Dir \/ Makes(r, b, d)
    BY <1>1, <1>11, <2>1, AboveIs, Nodes
  <2> QED BY <2>2, <2>3, <2>4 DEF Gets
<1>13. \A p \in Path : (IF Gets(r, b, p) THEN sender[p] ELSE IF Makes(r, b, p) THEN Dir ELSE Left(r, b, p)) = M[p]
  <2> TAKE p \in Path
  <2>1. Gets(r, b, p) => sender[p] = M[p]
    BY <1>12
  <2>2. Makes(r, b, p) => M[p] = Dir
    BY <1>3, <1>10
  <2>3. ~Gets(r, b, p) /\ ~Makes(r, b, p) => Left(r, b, p) = M[p]
    <3>1. M[p] \in Content \cup {Dir, None}
      BY <1>1
    <3>2. ~(p \in b.newFiles) /\ M[p] # r[p] => M[p] \notin Content
      BY <1>4
    <3>3. M[p] # r[p] /\ M[p] = Dir => p \in b.newDirs /\ r[p] # Dir
      BY <1>4
    <3> QED BY <1>7, <1>10, <1>12, <3>1, <3>2, <3>3
  <2> QED BY <2>1, <2>2, <2>3
<1>14. Updated(sender, r, b, f).tree = M
  <2>1. Updated(sender, r, b, f).tree =
          [p \in Path |-> IF Gets(r, b, p) THEN sender[p] ELSE IF Makes(r, b, p) THEN Dir ELSE Left(r, b, p)]
    BY DEF Updated
  <2> QED BY <1>1, <1>13, <2>1
<1>15. /\ {p \in Path : Removes(r, b, p)} = Clears(b, r)
       /\ {p \in Path : Unlinks(r, b, p)} = Drops(b, r)
       /\ {p \in Path : Makes(r, b, p)} = Adds(b, r)
  BY <1>2, <1>5, <1>6, <1>10 DEF Clears, Drops, Adds
<1>16. Updated(sender, r, b, f).done =
         Calls("RMDIR", Clears(b, r)) \o Calls("UNLINK", Drops(b, r))
                \o Calls("MKDIR", Adds(b, r)) \o Calls("WRITE_DONE", f)
  BY <1>15 DEF Updated
<1> QED BY <1>14, <1>16, NoRenameCalls DEF Doings

-----------------------------------------------------------------------------
(* The machines, with U what each client has to push, merged, and D what it has to pull. *)
(* J are the clients that have joined, F those that will download all, E those whose U   *)
(* may hold the echo of what they have pulled.                                           *)

\* what is to be pushed that the server does not have
Own(t, s, b) == b.newFiles \cup {p \in BagPaths(b) : t[p] # s[p]}
Fits(t, s, p) == t[p] \in {None, s[p]} \/ (t[p] \in Content /\ s[p] \in Content)

Typed(T, w, U, D, J, F) ==
  /\ IsTree(w) /\ \A m \in Machine : IsTree(T[m])
  /\ \A c \in Client : U[c] \in Plain /\ D[c] \in Plain
  /\ J \subseteq Client /\ F \subseteq Client /\ J \cap F = {}
  /\ \A c \in Client \ J : U[c] = NoChanges /\ D[c] = NoChanges
\* what is merged is true
Truth(T, U, D) == \A c \in Client : Tells(U[c], T[c]) /\ Tells(D[c], T[Server])
Apart(U, D) == \A c \in Client : \A p \in BagPaths(U[c]), q \in BagPaths(D[c]) : ~Kin(p, q)
\* nothing is in a directory that is to be removed
Bare(T, U) == \A c \in Client : \A p \in U[c].deleteDirs :
                T[Server][p] = Dir => \A m \in Machine : Children(T[m], p) = {}
Wanted(T, w, U) == \A c \in Client : \A p \in Own(T[c], T[Server], U[c]) : w[p] = T[c][p]
\* what is merged tells all differences
Explained(T, U, D, J) ==
  \A c \in J : \A p \in Path : IF p \in BagPaths(U[c]) THEN Explains(U[c], T[c], T[Server], p)
                               ELSE Explains(D[c], T[Server], T[c], p)
Rest(T, w, U) == \A p \in Path : (\A c \in Client : p \notin Own(T[c], T[Server], U[c])) => w[p] = T[Server][p]
OneOwner(T, U, E) ==
  \A c \in Client : \A d \in Client \ E : c # d =>
    \A p \in Own(T[c], T[Server], U[c]), q \in BagPaths(U[d]) : ~Kin(p, q)
Fresh(T, w, F) == \A c \in F : \A p \in Path : Fits(T[c], T[Server], p) /\ Fits(T[c], w, p)

Core(T, w, U, D, J, F, E) ==
  /\ Typed(T, w, U, D, J, F) /\ Truth(T, U, D) /\ Apart(U, D) /\ Bare(T, U) /\ Wanted(T, w, U)
  /\ Explained(T, U, D, J) /\ Rest(T, w, U) /\ OneOwner(T, U, E) /\ Fresh(T, w, F)

\* Kin is symmetric.
LEMMA KinSym == \A p, q : Kin(p, q) <=> Kin(q, p)
BY DEF Kin

\* A directory is as empty where nothing under it changes.
LEMMA SameKids ==
  ASSUME NEW t, NEW t2, NEW p \in Path, \A x \in Path : Kin(p, x) /\ x # p => t2[x] = t[x],
         Children(t, p) = {}
  PROVE  Children(t2, p) = {}
<1>1. \A x \in Path : x \in Under[p] /\ x # p => t[x] = None
  BY KidsAre
<1>2. \A x \in Path : x \in Under[p] /\ x # p => t2[x] = None
  BY <1>1 DEF Kin
<1> QED BY <1>2, KidsAre

\* Nothing is under what is no directory.
LEMMA NoKids ==
  ASSUME NEW t, IsTree(t), NEW p \in Path, t[p] # Dir
  PROVE  Children(t, p) = {}
<1>1. \A x \in Path : x \in Under[p] /\ x # p => t[x] = None
  BY TreeIs
<1> QED BY <1>1, KidsAre

\* Where a change set that explains all is silent, there is no difference.
LEMMA SameOff ==
  ASSUME NEW t, IsTree(t), NEW r, IsTree(r), NEW b \in Plain, NEW p \in Path, p \notin BagPaths(b),
         Explains(b, t, r, p)
  PROVE  t[p] = r[p]
<1>1. t[p] \in Content \cup {Dir, None} /\ r[p] \in Content \cup {Dir, None}
  BY TreeIs
<1>2. p \notin b.newFiles /\ p \notin b.newDirs /\ p \notin b.deleteFiles /\ p \notin b.deleteDirs
  BY PlainIs
<1>3. t[p] # r[p] =>
        /\ t[p] \in Content => p \in b.newFiles
        /\ t[p] = Dir => p \in b.newDirs
        /\ r[p] \in Content /\ t[p] \notin Content => p \in b.deleteFiles
        /\ r[p] = Dir => p \in b.deleteDirs
  BY DEF Explains
<1> QED BY <1>1, <1>2, <1>3, Nodes

\* Only the path and what is under it matter.
LEMMA SameExplains ==
  ASSUME NEW b, NEW t, NEW t2, NEW r, NEW r2, NEW p, t[p] = t2[p], r[p] = r2[p],
         Children(r, p) = {} => Children(r2, p) = {}, Explains(b, t, r, p)
  PROVE  Explains(b, t2, r2, p)
BY DEF Explains

\* Where nothing differs there is nothing to explain.
LEMMA NoneExplains ==
  ASSUME NEW b, NEW t, NEW r, NEW p, t[p] = r[p]
  PROVE  Explains(b, t, r, p)
BY DEF Explains

\* Own, path by path.
LEMMA OwnIs ==
  ASSUME NEW t, NEW s, NEW b \in Plain
  PROVE  /\ \A p : p \in Own(t, s, b) <=> p \in b.newFiles \/ (p \in BagPaths(b) /\ t[p] # s[p])
         /\ \A p \in Own(t, s, b) : p \in BagPaths(b) /\ p \in Path
         /\ BagPaths(b) \subseteq Path
BY PlainIs DEF Own

\* Who has nothing to push owns nothing.
LEMMA NothingOwn ==
  ASSUME NEW t, NEW s
  PROVE  Own(t, s, NoChanges) = {} /\ Tells(NoChanges, t) /\ BagPaths(NoChanges) = {}
<1>1. BagPaths(NoChanges) = {} /\ NoChanges.newFiles = {} /\ NoChanges.deleteFiles = {}
      /\ NoChanges.newDirs = {} /\ NoChanges.deleteDirs = {}
  BY NoChangesIs
<1> QED BY <1>1 DEF Own, Tells

\* t becomes t2, and w, which looks the same there, becomes w2 the same way
Done(t, t2, w, w2, A, G, K, R) ==
  /\ A \in SUBSET Path /\ G \in SUBSET Path /\ K \in SUBSET Path /\ R \in SUBSET Path
  /\ Becomes(t, t2, A, G, K, R)
  /\ \A p \in Path : IF p \in A \cup G \cup K \cup R THEN w2[p] = t2[p] /\ w[p] = t[p]
                     ELSE w2[p] = w[p] /\ t2[p] = t[p]
  /\ \A p \in A : t[p] # Dir
  /\ \A p \in K : t[p] = None

\* who starts now fits in as before
LEMMA StillFits ==
  ASSUME NEW t, NEW t2, NEW w, NEW w2, NEW A, NEW G, NEW K, NEW R, NEW x, NEW p \in Path,
         Done(t, t2, w, w2, A, G, K, R), p \in G \cup R => x[p] = None,
         x[p] \in Content \cup {Dir, None}, Fits(x, w, p)
  PROVE  Fits(x, w2, p)
<1>1. /\ p \in A => t2[p] \in Content
      /\ p \in K => t2[p] = Dir
  BY DEF Done, Becomes
<1>2. p \notin A \cup G \cup K \cup R => w2[p] = w[p]
  BY DEF Done
<1>3. p \in A => w2[p] \in Content /\ w[p] # Dir
  BY <1>1 DEF Done
<1>4. p \in K => w[p] = None
  BY DEF Done
<1> QED BY <1>2, <1>3, <1>4, Nodes DEF Fits

\* a user of client c does what leaves files at A, removes those at G, makes the directories
\* K and removes R
UserStep(T, w, U, D, F, c, T2, t2, w2, U2, A, G, K, R) ==
  /\ IsTree(t2) /\ IsTree(w2) /\ Done(T[c], t2, w, w2, A, G, K, R)
  /\ \A m \in Machine : T2[m] = IF m = c THEN t2 ELSE T[m]
  /\ \A d \in Client : U2[d] = IF d = c THEN Changed(U[c], A, G, K, R) ELSE U[d]
  /\ \A d \in Client \ {c} : \A p \in A \cup G \cup K \cup R, q \in BagPaths(U[d]) : ~Kin(p, q)
  /\ \A p \in A \cup G \cup K \cup R, q \in BagPaths(D[c]) : ~Kin(p, q)
  /\ \A p \in R : \A m \in Machine : Children(T2[m], p) = {}
  /\ \A d \in F : \A p \in G \cup R : T[d][p] = None

\* A user of client c goes on.
LEMMA CoreUser ==
  ASSUME NEW T, NEW w, NEW U, NEW D, NEW J, NEW F, NEW E, Core(T, w, U, D, J, F, E),
         NEW c \in J, NEW T2, NEW t2, NEW w2, NEW U2, NEW A, NEW G, NEW K, NEW R,
         UserStep(T, w, U, D, F, c, T2, t2, w2, U2, A, G, K, R)
  PROVE  Core(T2, w2, U2, D, J, F, E)
<1> SUFFICES ASSUME IsTree(t2), IsTree(w2), Done(T[c], t2, w, w2, A, G, K, R),
         \A m \in Machine : T2[m] = IF m = c THEN t2 ELSE T[m],
         \A d \in Client : U2[d] = IF d = c THEN Changed(U[c], A, G, K, R) ELSE U[d],
         \A d \in Client \ {c} : \A p \in A \cup G \cup K \cup R, q \in BagPaths(U[d]) : ~Kin(p, q),
         \A p \in A \cup G \cup K \cup R, q \in BagPaths(D[c]) : ~Kin(p, q),
         \A p \in R : \A m \in Machine : Children(T2[m], p) = {},
         \A d \in F : \A p \in G \cup R : T[d][p] = None
             PROVE  Core(T2, w2, U2, D, J, F, E)
  BY DEF UserStep
<1> DEFINE P == A \cup G \cup K \cup R  tc == T[c]  ts == T[Server]
<1>1. /\ IsTree(w) /\ \A m \in Machine : IsTree(T[m])
      /\ \A d \in Client : U[d] \in Plain /\ D[d] \in Plain
      /\ J \subseteq Client /\ F \subseteq Client /\ J \cap F = {}
      /\ \A d \in Client \ J : U[d] = NoChanges /\ D[d] = NoChanges
  BY DEF Core, Typed
<1>2. c \in Client /\ c \in Machine /\ Server \in Machine /\ c # Server /\ Server \notin Client /\ Client \subseteq Machine
  BY <1>1, SyncAssumption DEF Machine
<1>3. /\ A \in SUBSET Path /\ G \in SUBSET Path /\ K \in SUBSET Path /\ R \in SUBSET Path
      /\ Becomes(tc, t2, A, G, K, R)
      /\ \A p \in Path : IF p \in P THEN w2[p] = t2[p] /\ w[p] = tc[p]
                         ELSE w2[p] = w[p] /\ t2[p] = tc[p]
  BY DEF Done
<1>4. Changed(U[c], A, G, K, R) \in Plain /\ BagPaths(Changed(U[c], A, G, K, R)) = BagPaths(U[c]) \cup P
  <2>0. A \in SUBSET Path /\ G \in SUBSET Path /\ K \in SUBSET Path /\ R \in SUBSET Path
    BY <1>3
  <2>1. U[c] \in Plain
    BY <1>1, <1>2
  <2>2. /\ Changed(U[c], A, G, K, R) \in Plain
        /\ BagPaths(Changed(U[c], A, G, K, R)) = BagPaths(U[c]) \cup A \cup G \cup K \cup R
    BY <2>0, <2>1, ChangedPlain
  <2>3. BagPaths(U[c]) \cup A \cup G \cup K \cup R = BagPaths(U[c]) \cup P
    OBVIOUS
  <2> QED BY <2>2, <2>3
<1>5. /\ T2[c] = t2 /\ T2[Server] = ts /\ \A d \in Client \ {c} : T2[d] = T[d]
      /\ U2[c] = Changed(U[c], A, G, K, R) /\ \A d \in Client \ {c} : U2[d] = U[d]
  BY <1>2
<1>6. P \subseteq Path
  BY <1>3
<1>7. /\ \A d \in Client \ {c} : \A p \in P, q \in BagPaths(U[d]) : ~Kin(p, q)
      /\ \A p \in P, q \in BagPaths(D[c]) : ~Kin(p, q)
  OBVIOUS
<1> HIDE DEF P, tc, ts
<1>8. \A d \in Client \ {c} : \A p \in P : p \notin BagPaths(U[d])
  BY <1>6, <1>7, KinIs
<1>9. \A p \in P : p \notin BagPaths(D[c])
  BY <1>6, <1>7, KinIs
<1>10. \A d \in Client : U2[d] \in Plain /\ BagPaths(U2[d]) \subseteq Path /\ BagPaths(U[d]) \subseteq Path
  BY <1>1, <1>4, <1>5, OwnIs
<1>11. /\ \A d \in Client : \A p : p \in Own(T[d], ts, U[d]) <=> p \in U[d].newFiles \/ (p \in BagPaths(U[d]) /\ T[d][p] # ts[p])
       /\ \A d \in Client : \A p : p \in Own(T2[d], ts, U2[d]) <=> p \in U2[d].newFiles \/ (p \in BagPaths(U2[d]) /\ T2[d][p] # ts[p])
       /\ \A d \in Client : \A p \in Own(T[d], ts, U[d]) : p \in BagPaths(U[d]) /\ p \in Path
       /\ \A d \in Client : \A p \in Own(T2[d], ts, U2[d]) : p \in BagPaths(U2[d]) /\ p \in Path
  BY <1>1, <1>10, OwnIs
<1>12. \A d \in Client \ {c} : Own(T2[d], ts, U2[d]) = Own(T[d], ts, U[d])
  BY <1>5
<1>13. U2[c].newFiles = (U[c].newFiles \ G) \cup A
  BY <1>5 DEF Changed
<1>14. /\ \A p \in Path : p \notin P => (p \in Own(T2[c], ts, U2[c]) <=> p \in Own(tc, ts, U[c]))
       /\ \A p \in P : p \in Own(T2[c], ts, U2[c]) => w2[p] = T2[c][p]
       /\ \A p \in P : p \notin Own(T2[c], ts, U2[c]) => w2[p] = ts[p]
  <2>1. \A p \in Path : p \notin P => (p \in U2[c].newFiles <=> p \in U[c].newFiles)
    BY <1>13 DEF P
  <2>2. BagPaths(U2[c]) = BagPaths(U[c]) \cup P
    BY <1>4, <1>5
  <2>3. \A p \in Path : p \notin P => t2[p] = tc[p]
    BY <1>3
  <2>4. \A p \in Path : p \in P => w2[p] = t2[p]
    BY <1>3
  <2> QED BY <1>2, <1>5, <1>6, <1>11, <2>1, <2>2, <2>3, <2>4 DEF tc
<1>15. Typed(T2, w2, U2, D, J, F)
  BY <1>1, <1>2, <1>5, <1>10 DEF Typed
<1>16. Truth(T2, U2, D)
  <2>1. \A d \in Client : Tells(U[d], T[d]) /\ Tells(D[d], ts)
    BY DEF Core, Truth, ts
  <2>2. Tells(U2[c], t2)
    BY <1>2, <1>3, <1>5, <2>1, TellsChanged DEF tc
  <2> QED BY <1>5, <2>1, <2>2 DEF Truth
<1>17. Apart(U2, D)
  <2>1. \A d \in Client : \A p \in BagPaths(U[d]), q \in BagPaths(D[d]) : ~Kin(p, q)
    BY DEF Core, Apart
  <2> QED BY <1>4, <1>5, <1>7, <2>1 DEF Apart
<1>18. Bare(T2, U2)
  <2> SUFFICES ASSUME NEW d \in Client, NEW p \in U2[d].deleteDirs, ts[p] = Dir, NEW m \in Machine
               PROVE  Children(T2[m], p) = {}
    BY <1>5 DEF Bare
  <2>1. \A x \in Client : \A q \in U[x].deleteDirs : ts[q] = Dir => \A n \in Machine : Children(T[n], q) = {}
    BY DEF Core, Bare, ts
  <2>2. p \in Path /\ p \in BagPaths(U2[d])
    BY <1>10, PlainIs
  <2>3. CASE d = c
    <3>1. p \in (U[c].deleteDirs \ K) \cup R
      BY <1>5, <2>3 DEF Changed
    <3>2. CASE p \in R
      BY <3>2
    <3>3. CASE p \in U[c].deleteDirs
      <4>1. m # c => Children(T2[m], p) = {}
        BY <1>2, <2>1, <3>3
      <4>2. t2[p] # Dir
        <5>1. Tells(U2[c], T2[c])
          BY <1>2, <1>16 DEF Truth
        <5> QED BY <1>5, <2>2, <2>3, <5>1 DEF Tells
      <4>3. Children(t2, p) = {}
        BY <2>2, <4>2, NoKids
      <4> QED BY <1>5, <4>1, <4>3
    <3> QED BY <3>1, <3>2, <3>3
  <2>4. CASE d # c
    <3>1. p \in U[d].deleteDirs /\ p \in BagPaths(U[d])
      BY <1>5, <2>2, <2>4
    <3>2. Children(T[m], p) = {}
      BY <2>1, <3>1
    <3>3. \A x \in Path : Kin(p, x) => t2[x] = tc[x]
      BY <1>3, <1>7, <2>4, <3>1, KinSym
    <3>4. Children(tc, p) = {}
      BY <1>2, <2>1, <3>1 DEF tc
    <3>5. Children(t2, p) = {}
      BY <2>2, <3>3, <3>4, SameKids
    <3> QED BY <3>2, <3>5
  <2> QED BY <2>3, <2>4
<1>19. Wanted(T2, w2, U2)
  <2>1. \A d \in Client : \A p \in Own(T[d], ts, U[d]) : w[p] = T[d][p]
    BY DEF Core, Wanted, ts
  <2> SUFFICES ASSUME NEW d \in Client, NEW p \in Own(T2[d], ts, U2[d]) PROVE w2[p] = T2[d][p]
    BY <1>5 DEF Wanted
  <2>2. CASE d = c
    BY <1>2, <1>3, <1>5, <1>11, <1>14, <2>1, <2>2 DEF tc
  <2>3. CASE d # c
    BY <1>3, <1>5, <1>8, <1>11, <1>12, <2>1, <2>3
  <2> QED BY <2>2, <2>3
<1>20. Explained(T2, U2, D, J)
  <2>1. \A d \in J : \A p \in Path : IF p \in BagPaths(U[d]) THEN Explains(U[d], T[d], ts, p)
                                     ELSE Explains(D[d], ts, T[d], p)
    BY DEF Core, Explained, ts
  <2> SUFFICES ASSUME NEW p \in Path
               PROVE  IF p \in BagPaths(U2[c]) THEN Explains(U2[c], t2, ts, p) ELSE Explains(D[c], ts, t2, p)
    BY <1>1, <1>5, <2>1 DEF Explained
  <2>2. CASE p \in BagPaths(U2[c])
    <3>1. Explains(U[c], tc, ts, p)
      <4>1. CASE p \in BagPaths(U[c])
        BY <2>1, <4>1 DEF tc
      <4>2. CASE p \notin BagPaths(U[c])
        <5>1. p \in P /\ p \notin BagPaths(D[c]) /\ Explains(D[c], ts, tc, p)
          BY <1>4, <1>5, <1>9, <2>1, <2>2, <4>2 DEF tc
        <5>2. IsTree(ts) /\ IsTree(tc) /\ D[c] \in Plain
          BY <1>1, <1>2 DEF ts, tc
        <5>3. ts[p] = tc[p]
          BY <5>1, <5>2, SameOff
        <5> QED BY <5>3, NoneExplains
      <4> QED BY <4>1, <4>2
    <3>2. p \in R /\ ts[p] = Dir => Children(ts, p) = {}
      BY <1>2, <1>5
    <3>3. Explains(Changed(U[c], A, G, K, R), t2, ts, p)
      BY <1>3, <3>1, <3>2, ExplainsChanged
    <3> QED BY <1>5, <2>2, <3>3
  <2>3. CASE p \notin BagPaths(U2[c])
    <3>1. p \notin BagPaths(U[c]) /\ p \notin P
      BY <1>4, <1>5, <2>3
    <3>2. Explains(D[c], ts, tc, p)
      BY <2>1, <3>1 DEF tc
    <3>3. t2[p] = tc[p]
      BY <1>3, <3>1
    <3>4. CASE p \in BagPaths(D[c])
      <4>1. \A x \in Path : Kin(p, x) /\ x # p => t2[x] = tc[x]
        BY <1>3, <1>7, <3>4, KinSym
      <4>2. Children(tc, p) = {} => Children(t2, p) = {}
        BY <4>1, SameKids
      <4> QED BY <2>3, <3>2, <3>3, <4>2, SameExplains
    <3>5. CASE p \notin BagPaths(D[c])
      <4>1. IsTree(ts) /\ IsTree(tc) /\ D[c] \in Plain
        BY <1>1, <1>2 DEF ts, tc
      <4>2. ts[p] = tc[p]
        BY <3>2, <3>5, <4>1, SameOff
      <4>3. ts[p] = t2[p]
        BY <3>3, <4>2
      <4>4. Explains(D[c], ts, t2, p)
        BY <4>3, NoneExplains
      <4> QED BY <2>3, <4>4
    <3> QED BY <3>4, <3>5
  <2> QED BY <2>2, <2>3
<1>21. Rest(T2, w2, U2)
  <2>1. \A p \in Path : (\A d \in Client : p \notin Own(T[d], ts, U[d])) => w[p] = ts[p]
    BY DEF Core, Rest, ts
  <2> SUFFICES ASSUME NEW p \in Path, \A d \in Client : p \notin Own(T2[d], ts, U2[d]) PROVE w2[p] = ts[p]
    BY <1>5 DEF Rest
  <2>2. CASE p \in P
    BY <1>2, <1>14, <2>2
  <2>3. CASE p \notin P
    <3>1. \A d \in Client : p \notin Own(T[d], ts, U[d])
      BY <1>12, <1>14, <2>3 DEF tc
    <3> QED BY <1>3, <2>1, <2>3, <3>1
  <2> QED BY <2>2, <2>3
<1>22. OneOwner(T2, U2, E)
  <2>1. \A x \in Client : \A d \in Client \ E : x # d =>
          \A p \in Own(T[x], ts, U[x]), q \in BagPaths(U[d]) : ~Kin(p, q)
    BY DEF Core, OneOwner, ts
  <2> SUFFICES ASSUME NEW x \in Client, NEW d \in Client \ E, x # d,
                      NEW p \in Own(T2[x], ts, U2[x]), NEW q \in BagPaths(U2[d])
               PROVE  ~Kin(p, q)
    BY <1>5 DEF OneOwner
  <2>2. p \in Path
    BY <1>11
  <2>3. CASE x = c
    <3>1. q \in BagPaths(U[d]) /\ d \in Client \ {c}
      BY <1>5, <2>3
    <3>2. p \in P => ~Kin(p, q)
      BY <1>7, <3>1
    <3>3. p \notin P => p \in Own(T[x], ts, U[x])
      BY <1>14, <2>2, <2>3 DEF tc
    <3> QED BY <2>1, <3>1, <3>2, <3>3
  <2>4. CASE x # c
    <3>1. p \in Own(T[x], ts, U[x]) /\ p \in BagPaths(U[x])
      BY <1>11, <1>12, <2>4
    <3>2. q \in BagPaths(U[d]) \/ (d = c /\ q \in P)
      BY <1>4, <1>5
    <3>3. d = c /\ q \in P => ~Kin(p, q)
      BY <1>7, <2>4, <3>1, KinSym
    <3> QED BY <2>1, <3>1, <3>2, <3>3
  <2> QED BY <2>3, <2>4
<1>23. Fresh(T2, w2, F)
  <2>1. \A d \in F : \A p \in Path : Fits(T[d], ts, p) /\ Fits(T[d], w, p)
    BY DEF Core, Fresh, ts
  <2> SUFFICES ASSUME NEW d \in F, NEW p \in Path PROVE Fits(T[d], ts, p) /\ Fits(T[d], w2, p)
    BY <1>1, <1>5 DEF Fresh
  <2>2. T[d][p] \in Content \cup {Dir, None}
    BY <1>1, <1>2, TreeIs
  <2>3. p \in G \cup R => T[d][p] = None
    OBVIOUS
  <2>4. Done(T[c], t2, w, w2, A, G, K, R)
    OBVIOUS
  <2>5. Fits(T[d], w2, p)
    BY <2>1, <2>2, <2>3, <2>4, StillFits
  <2> QED BY <2>1, <2>5
<1> QED BY <1>15, <1>16, <1>17, <1>18, <1>19, <1>20, <1>21, <1>22, <1>23 DEF Core

\* a user of the server does the same there
ServerStep(T, w, U, D, J, F, T2, t2, w2, D2, A, G, K, R) ==
  /\ IsTree(t2) /\ IsTree(w2) /\ Done(T[Server], t2, w, w2, A, G, K, R)
  /\ \A m \in Machine : T2[m] = IF m = Server THEN t2 ELSE T[m]
  /\ \A d \in Client : D2[d] = IF d \in J THEN Changed(D[d], A, G, K, R) ELSE D[d]
  /\ \A d \in Client : \A p \in A \cup G \cup K \cup R, q \in BagPaths(U[d]) : ~Kin(p, q)
  /\ \A p \in R : \A m \in Machine : Children(T2[m], p) = {}
  /\ \A d \in F : \A p \in G \cup R : T[d][p] = None

\* A user of the server goes on.
LEMMA CoreServer ==
  ASSUME NEW T, NEW w, NEW U, NEW D, NEW J, NEW F, NEW E, Core(T, w, U, D, J, F, E),
         NEW T2, NEW t2, NEW w2, NEW D2, NEW A, NEW G, NEW K, NEW R,
         ServerStep(T, w, U, D, J, F, T2, t2, w2, D2, A, G, K, R)
  PROVE  Core(T2, w2, U, D2, J, F, E)
<1> SUFFICES ASSUME IsTree(t2), IsTree(w2), Done(T[Server], t2, w, w2, A, G, K, R),
         \A m \in Machine : T2[m] = IF m = Server THEN t2 ELSE T[m],
         \A d \in Client : D2[d] = IF d \in J THEN Changed(D[d], A, G, K, R) ELSE D[d],
         \A d \in Client : \A p \in A \cup G \cup K \cup R, q \in BagPaths(U[d]) : ~Kin(p, q),
         \A p \in R : \A m \in Machine : Children(T2[m], p) = {},
         \A d \in F : \A p \in G \cup R : T[d][p] = None
             PROVE  Core(T2, w2, U, D2, J, F, E)
  BY DEF ServerStep
<1> DEFINE P == A \cup G \cup K \cup R  ts == T[Server]
<1>1. /\ IsTree(w) /\ \A m \in Machine : IsTree(T[m])
      /\ \A d \in Client : U[d] \in Plain /\ D[d] \in Plain
      /\ J \subseteq Client /\ F \subseteq Client /\ J \cap F = {}
      /\ \A d \in Client \ J : U[d] = NoChanges /\ D[d] = NoChanges
  BY DEF Core, Typed
<1>2. Server \in Machine /\ Server \notin Client /\ Client \subseteq Machine
  BY <1>1, SyncAssumption DEF Machine
<1>3. /\ A \in SUBSET Path /\ G \in SUBSET Path /\ K \in SUBSET Path /\ R \in SUBSET Path
      /\ Becomes(ts, t2, A, G, K, R)
      /\ \A p \in Path : IF p \in P THEN w2[p] = t2[p] /\ w[p] = ts[p]
                         ELSE w2[p] = w[p] /\ t2[p] = ts[p]
  BY DEF Done
<1>4. \A d \in J : /\ Changed(D[d], A, G, K, R) \in Plain
                   /\ BagPaths(Changed(D[d], A, G, K, R)) = BagPaths(D[d]) \cup P
  <2> TAKE d \in J
  <2>0. A \in SUBSET Path /\ G \in SUBSET Path /\ K \in SUBSET Path /\ R \in SUBSET Path
    BY <1>3
  <2>1. D[d] \in Plain
    BY <1>1
  <2>2. /\ Changed(D[d], A, G, K, R) \in Plain
        /\ BagPaths(Changed(D[d], A, G, K, R)) = BagPaths(D[d]) \cup A \cup G \cup K \cup R
    BY <2>0, <2>1, ChangedPlain
  <2>3. BagPaths(D[d]) \cup A \cup G \cup K \cup R = BagPaths(D[d]) \cup P
    OBVIOUS
  <2> QED BY <2>2, <2>3
<1>5. /\ T2[Server] = t2 /\ \A d \in Client : T2[d] = T[d]
      /\ \A d \in J : D2[d] = Changed(D[d], A, G, K, R)
      /\ \A d \in Client \ J : D2[d] = D[d]
  BY <1>1, <1>2
<1>6. P \subseteq Path
  BY <1>3
<1>7. \A d \in Client : \A p \in P, q \in BagPaths(U[d]) : ~Kin(p, q) /\ ~Kin(q, p)
  BY KinSym
<1> HIDE DEF P, ts
<1>8. \A d \in Client : \A p \in P : p \notin BagPaths(U[d])
  BY <1>6, <1>7, KinIs
<1>10. \A d \in Client : BagPaths(U[d]) \subseteq Path /\ D2[d] \in Plain
  <2>1. \A d \in Client : BagPaths(U[d]) \subseteq Path
    BY <1>1, OwnIs
  <2>2. \A d \in Client : D2[d] \in Plain
    BY <1>1, <1>4, <1>5
  <2> QED BY <2>1, <2>2
<1>11. /\ \A d \in Client : \A p : p \in Own(T[d], ts, U[d]) <=> p \in U[d].newFiles \/ (p \in BagPaths(U[d]) /\ T[d][p] # ts[p])
       /\ \A d \in Client : \A p : p \in Own(T[d], t2, U[d]) <=> p \in U[d].newFiles \/ (p \in BagPaths(U[d]) /\ T[d][p] # t2[p])
       /\ \A d \in Client : \A p \in Own(T[d], ts, U[d]) : p \in BagPaths(U[d]) /\ p \in Path
  BY <1>1, OwnIs
<1>12. \A d \in Client : Own(T[d], t2, U[d]) = Own(T[d], ts, U[d])
  <2> TAKE d \in Client
  <2>1. \A p \in BagPaths(U[d]) : t2[p] = ts[p]
    BY <1>3, <1>8, <1>10
  <2>2. \A p : p \in Own(T[d], t2, U[d]) <=> p \in Own(T[d], ts, U[d])
    BY <1>11, <2>1
  <2> QED BY <2>2
<1>15. Typed(T2, w2, U, D2, J, F)
  BY <1>1, <1>2, <1>5, <1>10 DEF Typed
<1>16. Truth(T2, U, D2)
  <2>1. \A d \in Client : Tells(U[d], T[d]) /\ Tells(D[d], ts)
    BY DEF Core, Truth, ts
  <2>2. \A d \in J : Tells(D2[d], t2)
    BY <1>1, <1>3, <1>5, <2>1, TellsChanged
  <2>3. \A d \in Client \ J : Tells(D2[d], t2)
    BY <1>1, <1>5, NothingOwn
  <2> QED BY <1>5, <2>1, <2>2, <2>3 DEF Truth
<1>17. Apart(U, D2)
  <2>1. \A d \in Client : \A p \in BagPaths(U[d]), q \in BagPaths(D[d]) : ~Kin(p, q)
    BY DEF Core, Apart
  <2>2. \A d \in Client : \A q \in BagPaths(D2[d]) : q \in BagPaths(D[d]) \/ q \in P
    BY <1>4, <1>5
  <2> QED BY <1>7, <2>1, <2>2 DEF Apart
<1>18. Bare(T2, U)
  <2> SUFFICES ASSUME NEW d \in Client, NEW p \in U[d].deleteDirs, t2[p] = Dir, NEW m \in Machine
               PROVE  Children(T2[m], p) = {}
    BY <1>5 DEF Bare
  <2>1. \A x \in Client : \A q \in U[x].deleteDirs : ts[q] = Dir => \A n \in Machine : Children(T[n], q) = {}
    BY DEF Core, Bare, ts
  <2>2. p \in Path /\ p \in BagPaths(U[d])
    BY <1>1, PlainIs
  <2>3. \A x \in Path : Kin(p, x) => t2[x] = ts[x]
    BY <1>3, <1>7, <2>2
  <2>4. \A n \in Machine : Children(T[n], p) = {}
    BY <2>1, <2>2, <2>3, KinIs
  <2>5. Children(ts, p) = {}
    BY <1>2, <2>4 DEF ts
  <2>6. Children(t2, p) = {}
    BY <2>2, <2>3, <2>5, SameKids
  <2> QED BY <2>4, <2>6
<1>19. Wanted(T2, w2, U)
  <2>1. \A d \in Client : \A p \in Own(T[d], ts, U[d]) : w[p] = T[d][p]
    BY DEF Core, Wanted, ts
  <2> SUFFICES ASSUME NEW d \in Client, NEW p \in Own(T[d], t2, U[d]) PROVE w2[p] = T[d][p]
    BY <1>5 DEF Wanted
  <2> QED BY <1>3, <1>8, <1>11, <1>12, <2>1
<1>20. Explained(T2, U, D2, J)
  <2>1. \A d \in J : \A p \in Path : IF p \in BagPaths(U[d]) THEN Explains(U[d], T[d], ts, p)
                                     ELSE Explains(D[d], ts, T[d], p)
    BY DEF Core, Explained, ts
  <2> SUFFICES ASSUME NEW d \in J, NEW p \in Path
               PROVE  IF p \in BagPaths(U[d]) THEN Explains(U[d], T[d], t2, p) ELSE Explains(D2[d], t2, T[d], p)
    BY <1>1, <1>5 DEF Explained
  <2>2. CASE p \in BagPaths(U[d])
    <3>1. \A x \in Path : Kin(p, x) => t2[x] = ts[x]
      BY <1>1, <1>3, <1>7, <2>2
    <3>2. t2[p] = ts[p] /\ (Children(ts, p) = {} => Children(t2, p) = {})
      BY <3>1, KinIs, SameKids
    <3>3. Explains(U[d], T[d], ts, p)
      BY <2>1, <2>2
    <3> QED BY <2>2, <3>2, <3>3, SameExplains
  <2>3. CASE p \notin BagPaths(U[d])
    <3>1. Explains(D[d], ts, T[d], p)
      BY <2>1, <2>3
    <3>2. p \in R /\ T[d][p] = Dir => Children(T[d], p) = {}
      BY <1>1, <1>2, <1>5
    <3>3. Explains(Changed(D[d], A, G, K, R), t2, T[d], p)
      BY <1>3, <3>1, <3>2, ExplainsChanged
    <3> QED BY <1>5, <2>3, <3>3
  <2> QED BY <2>2, <2>3
<1>21. Rest(T2, w2, U)
  <2>1. \A p \in Path : (\A d \in Client : p \notin Own(T[d], ts, U[d])) => w[p] = ts[p]
    BY DEF Core, Rest, ts
  <2> SUFFICES ASSUME NEW p \in Path, \A d \in Client : p \notin Own(T[d], t2, U[d]) PROVE w2[p] = t2[p]
    BY <1>5 DEF Rest
  <2> QED BY <1>3, <1>12, <2>1
<1>22. OneOwner(T2, U, E)
  <2>1. \A x \in Client : \A d \in Client \ E : x # d =>
          \A p \in Own(T[x], ts, U[x]), q \in BagPaths(U[d]) : ~Kin(p, q)
    BY DEF Core, OneOwner, ts
  <2> QED BY <1>5, <1>12, <2>1 DEF OneOwner
<1>23. Fresh(T2, w2, F)
  <2>1. \A d \in F : \A p \in Path : Fits(T[d], ts, p) /\ Fits(T[d], w, p)
    BY DEF Core, Fresh, ts
  <2> SUFFICES ASSUME NEW d \in F, NEW p \in Path PROVE Fits(T[d], t2, p) /\ Fits(T[d], w2, p)
    BY <1>1, <1>5 DEF Fresh
  <2>2. T[d][p] \in Content \cup {Dir, None}
    BY <1>1, <1>2, TreeIs
  <2>3. p \in G \cup R => T[d][p] = None
    OBVIOUS
  <2>4. Done(ts, t2, w, w2, A, G, K, R)
    BY DEF ts
  <2>5. Fits(T[d], w2, p)
    BY <2>1, <2>2, <2>3, <2>4, StillFits
  <2>6. CASE p \in P
    BY <1>3, <2>5, <2>6 DEF Fits
  <2>7. CASE p \notin P
    BY <1>3, <2>1, <2>7, <2>5 DEF Fits
  <2> QED BY <2>5, <2>6, <2>7
<1> QED BY <1>15, <1>16, <1>17, <1>18, <1>19, <1>20, <1>21, <1>22, <1>23 DEF Core

\* the server takes what c pushes
LEMMA CorePush ==
  ASSUME NEW T, NEW w, NEW U, NEW D, NEW J, NEW F, NEW E, Core(T, w, U, D, J, F, E),
         NEW c \in J, D[c] = NoChanges, E \cap Client \subseteq {c}, NEW E2, NEW T2, NEW U2, NEW D2,
         \A m \in Machine : T2[m] = IF m = Server THEN T[c] ELSE T[m],
         \A d \in Client : U2[d] = IF d = c THEN NoChanges ELSE U[d],
         \A d \in Client : D2[d] = IF d \in J \ {c}
                                   THEN Changed(D[d], U[c].newFiles, Drops(U[c], T[Server]),
                                                Adds(U[c], T[Server]), Clears(U[c], T[Server]))
                                   ELSE D[d]
  PROVE  Core(T2, w, U2, D2, J, F, E2)
<1> DEFINE A == U[c].newFiles  G == Drops(U[c], T[Server])  K == Adds(U[c], T[Server])
           R == Clears(U[c], T[Server])  P == A \cup G \cup K \cup R  tc == T[c]  ts == T[Server]  b == U[c]
           O == Own(tc, ts, b)
<1>1. /\ IsTree(w) /\ \A m \in Machine : IsTree(T[m])
      /\ \A d \in Client : U[d] \in Plain /\ D[d] \in Plain
      /\ J \subseteq Client /\ F \subseteq Client /\ J \cap F = {}
      /\ \A d \in Client \ J : U[d] = NoChanges /\ D[d] = NoChanges
  BY DEF Core, Typed
<1>2. c \in Client /\ c \in Machine /\ Server \in Machine /\ c # Server /\ Server \notin Client /\ Client \subseteq Machine
  BY <1>1, SyncAssumption DEF Machine
<1>3. b \in Plain /\ IsTree(tc) /\ IsTree(ts)
  BY <1>1, <1>2
<1>4. /\ T2[Server] = tc /\ \A d \in Client : T2[d] = T[d]
      /\ U2[c] = NoChanges /\ \A d \in Client \ {c} : U2[d] = U[d]
      /\ \A d \in J \ {c} : D2[d] = Changed(D[d], A, G, K, R)
      /\ \A d \in (Client \ J) \cup {c} : D2[d] = D[d]
  BY <1>1, <1>2
<1>5. /\ \A p : p \in G <=> p \in b.deleteFiles /\ ts[p] \in Content
      /\ \A p : p \in K <=> p \in b.newDirs /\ ts[p] # Dir
      /\ \A p : p \in R <=> p \in b.deleteDirs /\ ts[p] = Dir
  BY DEF Drops, Adds, Clears
<1> HIDE DEF G, K, R
<1> HIDE DEF P, tc, ts, b
<1>6. /\ b.newFiles \subseteq Path /\ b.deleteFiles \subseteq Path /\ b.newDirs \subseteq Path
      /\ b.deleteDirs \subseteq Path /\ BagPaths(b) = b.newFiles \cup b.deleteFiles \cup b.newDirs \cup b.deleteDirs
  BY <1>3, PlainIs
<1>7. /\ A \in SUBSET Path /\ G \in SUBSET Path /\ K \in SUBSET Path /\ R \in SUBSET Path
      /\ P \subseteq Path /\ P \subseteq BagPaths(b)
  BY <1>5, <1>6 DEF P, b
<1>8. \A p \in Path : Explains(b, tc, ts, p) /\ (p \notin BagPaths(b) => tc[p] = ts[p])
  <2> TAKE p \in Path
  <2>1. IF p \in BagPaths(b) THEN Explains(b, tc, ts, p) ELSE Explains(NoChanges, ts, tc, p)
    BY <1>2 DEF Core, Explained, b, tc, ts
  <2>2. p \notin BagPaths(b) => ts[p] = tc[p]
    <3>1. p \notin BagPaths(NoChanges) /\ NoChanges \in Plain
      BY NoChangesIs
    <3> QED BY <1>3, <2>1, <3>1, SameOff
  <2> QED BY <2>1, <2>2, NoneExplains
<1>9. Tells(b, tc)
  BY <1>2 DEF Core, Truth, b, tc
<1>10. Becomes(ts, tc, A, G, K, R)
  <2> SUFFICES ASSUME NEW p \in Path
               PROVE  /\ p \in A => tc[p] \in Content
                      /\ p \in G => tc[p] \notin Content
                      /\ p \in K => tc[p] = Dir
                      /\ p \in R => tc[p] # Dir
                      /\ tc[p] # ts[p] => /\ tc[p] \in Content => p \in A
                                          /\ tc[p] = Dir => p \in K
                                          /\ ts[p] \in Content /\ tc[p] \notin Content => p \in G
                                          /\ ts[p] = Dir => p \in R
    BY DEF Becomes
  <2>1. /\ p \in b.newFiles => tc[p] \in Content
        /\ p \in b.deleteFiles => tc[p] \notin Content
        /\ p \in b.newDirs => tc[p] = Dir
        /\ p \in b.deleteDirs => tc[p] # Dir
    BY <1>9 DEF Tells
  <2>2. tc[p] # ts[p] =>
          /\ tc[p] \in Content => p \in b.newFiles
          /\ tc[p] = Dir => p \in b.newDirs
          /\ ts[p] \in Content /\ tc[p] \notin Content => p \in b.deleteFiles
          /\ ts[p] = Dir => p \in b.deleteDirs
    BY <1>8 DEF Explains
  <2>3. p \in A <=> p \in b.newFiles
    BY DEF b
  <2> QED BY <1>5, <2>1, <2>2, <2>3
<1>11. /\ \A p : p \in O <=> p \in b.newFiles \/ (p \in BagPaths(b) /\ tc[p] # ts[p])
       /\ \A d \in Client : \A p : p \in Own(T[d], ts, U[d]) <=> p \in U[d].newFiles \/ (p \in BagPaths(U[d]) /\ T[d][p] # ts[p])
       /\ \A d \in Client : \A p : p \in Own(T[d], tc, U[d]) <=> p \in U[d].newFiles \/ (p \in BagPaths(U[d]) /\ T[d][p] # tc[p])
       /\ \A d \in Client : BagPaths(U[d]) \subseteq Path
  BY <1>1, <1>3, OwnIs
<1>12. O = Own(T[c], ts, U[c])
  BY DEF tc, b
<1> HIDE DEF O
<1>13. P \subseteq O
  <2>1. \A p \in Path : /\ p \in b.deleteFiles => tc[p] \notin Content
                        /\ p \in b.newDirs => tc[p] = Dir
                        /\ p \in b.deleteDirs => tc[p] # Dir
    BY <1>9 DEF Tells
  <2> QED BY <1>5, <1>6, <1>7, <1>11, <2>1 DEF P, b
<1>14. \A p \in Path : p \notin O => tc[p] = ts[p]
  BY <1>8, <1>11
<1>15. \A d \in Client \ {c} : \A p \in O, q \in BagPaths(U[d]) : ~Kin(p, q) /\ ~Kin(q, p)
  <2>1. \A d \in Client \ E : c # d => \A p \in Own(T[c], ts, U[c]), q \in BagPaths(U[d]) : ~Kin(p, q)
    BY <1>2 DEF Core, OneOwner, ts
  <2>2. \A d \in Client \ {c} : d \in Client \ E
    OBVIOUS
  <2> QED BY <1>12, <2>1, <2>2, KinSym
<1>16. \A d \in Client \ {c} : \A q \in BagPaths(U[d]) : q \in Path /\ q \notin O /\ tc[q] = ts[q]
  BY <1>11, <1>14, <1>15, KinIs
<1>17. \A d \in Client \ {c} : Own(T[d], tc, U[d]) = Own(T[d], ts, U[d])
  <2> TAKE d \in Client \ {c}
  <2>1. \A p : p \in Own(T[d], tc, U[d]) <=> p \in Own(T[d], ts, U[d])
    BY <1>11, <1>16
  <2> QED BY <2>1
<1>18. \A d \in J \ {c} : /\ Changed(D[d], A, G, K, R) \in Plain
                          /\ BagPaths(Changed(D[d], A, G, K, R)) = BagPaths(D[d]) \cup P
  <2> TAKE d \in J \ {c}
  <2> DEFINE a == A
  <2>0. a \in SUBSET Path /\ G \in SUBSET Path /\ K \in SUBSET Path /\ R \in SUBSET Path
    BY <1>7
  <2>1. D[d] \in Plain
    BY <1>1
  <2> HIDE DEF a
  <2>2. /\ Changed(D[d], a, G, K, R) \in Plain
        /\ BagPaths(Changed(D[d], a, G, K, R)) = BagPaths(D[d]) \cup a \cup G \cup K \cup R
    BY <2>0, <2>1, ChangedPlain
  <2>3. BagPaths(D[d]) \cup a \cup G \cup K \cup R = BagPaths(D[d]) \cup P
    BY DEF P, a
  <2> QED BY <2>2, <2>3 DEF a
<1>19. \A d \in Client : U2[d] \in Plain /\ D2[d] \in Plain
  <2>1. NoChanges \in Plain
    BY NoChangesIs
  <2> QED BY <1>1, <1>4, <1>18, <2>1
<1>20. Own(T[c], tc, U2[c]) = {} /\ BagPaths(U2[c]) = {}
  BY <1>4, NothingOwn
<1>21. \A x \in Client : \A q \in U[x].deleteDirs : ts[q] = Dir => \A n \in Machine : Children(T[n], q) = {}
  BY DEF Core, Bare, ts
<1>31. Typed(T2, w, U2, D2, J, F)
  BY <1>1, <1>2, <1>4, <1>19 DEF Typed, tc
<1>32. Truth(T2, U2, D2)
  <2>1. \A d \in Client : Tells(U[d], T[d]) /\ Tells(D[d], ts)
    BY DEF Core, Truth, ts
  <2>2. \A d \in J \ {c} : Tells(D2[d], tc)
    BY <1>1, <1>4, <1>10, <2>1, TellsChanged
  <2>3. \A d \in (Client \ J) \cup {c} : Tells(D2[d], tc)
    BY <1>1, <1>2, <1>4, NothingOwn
  <2>4. Tells(U2[c], T[c])
    BY <1>4, NothingOwn
  <2> QED BY <1>4, <2>1, <2>2, <2>3, <2>4 DEF Truth
<1>33. Apart(U2, D2)
  <2>1. \A d \in Client : \A p \in BagPaths(U[d]), q \in BagPaths(D[d]) : ~Kin(p, q)
    BY DEF Core, Apart
  <2>2. \A d \in Client : \A q \in BagPaths(D2[d]) : q \in BagPaths(D[d]) \/ q \in O
    BY <1>4, <1>13, <1>18
  <2> QED BY <1>4, <1>15, <1>20, <2>1, <2>2 DEF Apart
<1>34. Bare(T2, U2)
  <2> SUFFICES ASSUME NEW d \in Client \ {c}, NEW p \in U[d].deleteDirs, tc[p] = Dir, NEW m \in Machine
               PROVE  Children(T2[m], p) = {}
    <3>1. U2[c].deleteDirs = {}
      BY <1>4, NoChangesIs
    <3> QED BY <1>4, <3>1 DEF Bare
  <2>1. p \in BagPaths(U[d])
    BY <1>1, PlainIs
  <2>2. ts[p] = Dir
    BY <1>16, <2>1
  <2>3. \A n \in Machine : Children(T[n], p) = {}
    BY <1>21, <2>2
  <2> QED BY <1>2, <2>3
<1>35. Wanted(T2, w, U2)
  <2>1. \A d \in Client : \A p \in Own(T[d], ts, U[d]) : w[p] = T[d][p]
    BY DEF Core, Wanted, ts
  <2> SUFFICES ASSUME NEW d \in Client, NEW p \in Own(T[d], tc, U2[d]) PROVE w[p] = T[d][p]
    BY <1>4 DEF Wanted
  <2> QED BY <1>4, <1>17, <1>20, <2>1
<1>36. Explained(T2, U2, D2, J)
  <2>1. \A d \in J : \A p \in Path : IF p \in BagPaths(U[d]) THEN Explains(U[d], T[d], ts, p)
                                     ELSE Explains(D[d], ts, T[d], p)
    BY DEF Core, Explained, ts
  <2> SUFFICES ASSUME NEW d \in J, NEW p \in Path
               PROVE  IF p \in BagPaths(U2[d]) THEN Explains(U2[d], T[d], tc, p) ELSE Explains(D2[d], tc, T[d], p)
    BY <1>1, <1>4 DEF Explained
  <2>2. CASE d = c
    <3>1. p \notin BagPaths(U2[d]) /\ tc[p] = T[d][p]
      BY <1>20, <2>2 DEF tc
    <3>2. Explains(D2[d], tc, T[d], p)
      BY <3>1, NoneExplains
    <3> QED BY <3>1, <3>2
  <2>3. CASE d # c /\ p \in BagPaths(U[d])
    <3>1. U2[d] = U[d] /\ Explains(U[d], T[d], ts, p) /\ tc[p] = ts[p] /\ d \in Client
      BY <1>1, <1>4, <1>16, <2>1, <2>3
    <3>2. Explains(U[d], T[d], tc, p)
      <4>1. T[d][p] # ts[p] /\ ts[p] = Dir => p \in U[d].deleteDirs
        BY <3>1 DEF Explains
      <4>2. T[d][p] # ts[p] /\ ts[p] = Dir => Children(tc, p) = {}
        BY <1>2, <1>21, <3>1, <4>1 DEF tc
      <4> QED BY <3>1, <4>2 DEF Explains
    <3> QED BY <2>3, <3>1, <3>2
  <2>4. CASE d # c /\ p \notin BagPaths(U[d])
    <3>1. U2[d] = U[d] /\ D2[d] = Changed(D[d], A, G, K, R) /\ Explains(D[d], ts, T[d], p) /\ d \in Machine
      BY <1>1, <1>2, <1>4, <2>1, <2>4
    <3>2. p \in R /\ T[d][p] = Dir => Children(T[d], p) = {}
      BY <1>2, <1>5, <1>21, <3>1 DEF b
    <3>3. Explains(Changed(D[d], A, G, K, R), tc, T[d], p)
      BY <1>10, <3>1, <3>2, ExplainsChanged
    <3> QED BY <2>4, <3>1, <3>3
  <2> QED BY <2>2, <2>3, <2>4
<1>37. Rest(T2, w, U2)
  <2>1. \A p \in Path : (\A d \in Client : p \notin Own(T[d], ts, U[d])) => w[p] = ts[p]
    BY DEF Core, Rest, ts
  <2>2. \A p \in O : w[p] = tc[p]
    BY <1>2, <1>12 DEF Core, Wanted, ts, tc
  <2> SUFFICES ASSUME NEW p \in Path, \A d \in Client : p \notin Own(T[d], tc, U2[d]) PROVE w[p] = tc[p]
    BY <1>4 DEF Rest
  <2>3. \A d \in Client \ {c} : p \notin Own(T[d], ts, U[d])
    BY <1>4, <1>17
  <2>4. p \notin O => w[p] = tc[p]
    BY <1>12, <1>14, <2>1, <2>3
  <2> QED BY <2>2, <2>4
<1>38. OneOwner(T2, U2, E2)
  <2>1. \A x \in Client : \A d \in Client \ E : x # d =>
          \A p \in Own(T[x], ts, U[x]), q \in BagPaths(U[d]) : ~Kin(p, q)
    BY DEF Core, OneOwner, ts
  <2> SUFFICES ASSUME NEW x \in Client, NEW d \in Client, x # d,
                      NEW p \in Own(T[x], tc, U2[x]), NEW q \in BagPaths(U2[d])
               PROVE  ~Kin(p, q)
    BY <1>4 DEF OneOwner
  <2>2. x # c /\ d # c
    BY <1>20
  <2>3. p \in Own(T[x], ts, U[x]) /\ q \in BagPaths(U[d]) /\ d \in Client \ E
    BY <1>4, <1>17, <2>2
  <2> QED BY <2>1, <2>3
<1>39. Fresh(T2, w, F)
  <2>1. \A d \in F : \A p \in Path : Fits(T[d], ts, p) /\ Fits(T[d], w, p)
    BY DEF Core, Fresh, ts
  <2>2. \A p \in O : w[p] = tc[p]
    BY <1>2, <1>12 DEF Core, Wanted, ts, tc
  <2> SUFFICES ASSUME NEW d \in F, NEW p \in Path PROVE Fits(T[d], tc, p) /\ Fits(T[d], w, p)
    BY <1>1, <1>4 DEF Fresh
  <2>3. p \in O => Fits(T[d], tc, p)
    BY <2>1, <2>2 DEF Fits
  <2>4. p \notin O => Fits(T[d], tc, p)
    BY <1>14, <2>1 DEF Fits
  <2> QED BY <2>1, <2>3, <2>4
<1> QED BY <1>31, <1>32, <1>33, <1>34, <1>35, <1>36, <1>37, <1>38, <1>39 DEF Core

\* what a client has that has taken in all there is to pull
Blend(t, s, b) == [p \in Path |-> IF p \in BagPaths(b) THEN t[p] ELSE s[p]]

\* What client c is to pull makes of its tree what the server has, and leaves what c has to push.
LEMMA BlendIs ==
  ASSUME NEW T, NEW w, NEW U, NEW D, NEW J, NEW F, NEW E, Core(T, w, U, D, J, F, E), NEW c \in J
  PROVE  LET M == Blend(T[c], T[Server], U[c])
         IN  /\ IsTree(M) /\ Tells(D[c], M)
             /\ \A p \in Path : Explains(D[c], M, T[c], p)
             /\ \A p \in D[c].newFiles : T[Server][p] = M[p]
<1> DEFINE tc == T[c]  ts == T[Server]  b == U[c]  d == D[c]  M == Blend(tc, ts, b)
<1>1. c \in Client /\ c \in Machine /\ Server \in Machine
  BY DEF Machine, Core, Typed
<1>2. b \in Plain /\ d \in Plain /\ IsTree(tc) /\ IsTree(ts)
  BY <1>1 DEF Core, Typed
<1>3. /\ \A p \in BagPaths(b), q \in BagPaths(d) : ~Kin(p, q)
      /\ \A p \in Path : IF p \in BagPaths(b) THEN Explains(b, tc, ts, p) ELSE Explains(d, ts, tc, p)
      /\ Tells(d, ts)
  BY <1>1 DEF Core, Apart, Explained, Truth
<1> HIDE DEF tc, ts, b, d
<1>4. \A p \in Path : M[p] = IF p \in BagPaths(b) THEN tc[p] ELSE ts[p]
  BY DEF Blend
<1>5. /\ tc \in [Path -> Content \cup {Dir, None}] /\ ts \in [Path -> Content \cup {Dir, None}]
      /\ \A p, x \in Path : tc[p] # None /\ x # p /\ p \in Under[x] => tc[x] = Dir
      /\ \A p, x \in Path : ts[p] # None /\ x # p /\ p \in Under[x] => ts[x] = Dir
  BY <1>2, TreeIs
<1>6. M \in [Path -> Content \cup {Dir, None}]
  BY <1>5 DEF Blend
<1> HIDE DEF M
<1>7. \A p \in Path : p \notin BagPaths(b) /\ p \notin BagPaths(d) => ts[p] = tc[p]
  BY <1>2, <1>3, SameOff
<1>8. BagPaths(b) \subseteq Path /\ BagPaths(d) \subseteq Path
  BY <1>2, OwnIs
<1>9. \A p \in BagPaths(d) : p \notin BagPaths(b) /\ M[p] = ts[p]
  BY <1>3, <1>4, <1>8, KinIs
<1>10. \A p, x \in Path : M[p] # None /\ x # p /\ p \in Under[x] => M[x] = Dir
  <2> SUFFICES ASSUME NEW p \in Path, NEW x \in Path, M[p] # None, x # p, p \in Under[x] PROVE M[x] = Dir
    OBVIOUS
  <2>1. Kin(p, x)
    BY DEF Kin
  <2>2. CASE p \in BagPaths(b) /\ x \in BagPaths(b)
    BY <1>4, <1>5, <2>2
  <2>3. CASE p \in BagPaths(b) /\ x \notin BagPaths(b)
    <3>1. tc[x] = Dir
      BY <1>4, <1>5, <2>3
    <3>2. x \notin BagPaths(d)
      BY <1>3, <2>1, <2>3
    <3> QED BY <1>4, <1>7, <2>3, <3>1, <3>2
  <2>4. CASE p \notin BagPaths(b) /\ x \notin BagPaths(b)
    BY <1>4, <1>5, <2>4
  <2>5. CASE p \notin BagPaths(b) /\ x \in BagPaths(b)
    <3>1. ts[p] # None /\ ts[x] = Dir
      BY <1>4, <1>5, <2>5
    <3>2. Explains(b, tc, ts, x)
      BY <1>3, <2>5
    <3>3. Children(ts, x) # {}
      BY <3>1, KidsAre
    <3>4. tc[x] = ts[x]
      BY <3>1, <3>2, <3>3 DEF Explains
    <3> QED BY <1>4, <2>5, <3>1, <3>4
  <2> QED BY <2>2, <2>3, <2>4, <2>5
<1>11. IsTree(M)
  BY <1>6, <1>10, TreeIs
<1>12. /\ d.newFiles \subseteq BagPaths(d) /\ d.deleteFiles \subseteq BagPaths(d)
       /\ d.newDirs \subseteq BagPaths(d) /\ d.deleteDirs \subseteq BagPaths(d)
  BY <1>2, PlainIs
<1>13. Tells(d, M)
  BY <1>3, <1>9, <1>12 DEF Tells
<1>14. \A p \in Path : Explains(d, M, tc, p)
  <2> TAKE p \in Path
  <2>1. CASE p \in BagPaths(b)
    BY <1>4, <2>1, NoneExplains
  <2>2. CASE p \notin BagPaths(b)
    <3>1. Explains(d, ts, tc, p) /\ M[p] = ts[p]
      BY <1>3, <1>4, <2>2
    <3> QED BY <3>1 DEF Explains
  <2> QED BY <2>1, <2>2
<1>15. \A p \in d.newFiles : ts[p] = M[p]
  BY <1>9, <1>12
<1>16. M = Blend(T[c], T[Server], U[c])
  BY DEF M, tc, ts, b
<1> QED BY <1>11, <1>13, <1>14, <1>15, <1>16 DEF d, tc, ts

\* client c takes what there is to pull
LEMMA CorePatch ==
  ASSUME NEW T, NEW w, NEW U, NEW D, NEW J, NEW F, NEW E, Core(T, w, U, D, J, F, E),
         NEW c \in J, NEW T2, NEW U2, NEW D2,
         \A m \in Machine : T2[m] = IF m = c THEN Blend(T[c], T[Server], U[c]) ELSE T[m],
         \A d \in Client : U2[d] = IF d = c THEN Changed(U[c], {}, Drops(D[c], T[c]), Adds(D[c], T[c]), Clears(D[c], T[c]))
                                   ELSE U[d],
         \A d \in Client : D2[d] = IF d = c THEN NoChanges ELSE D[d]
  PROVE  Core(T2, w, U2, D2, J, F, E \cup {c})
<1> DEFINE G == Drops(D[c], T[c])  K == Adds(D[c], T[c])  R == Clears(D[c], T[c])  tc == T[c]  ts == T[Server]
           b == U[c]  M == Blend(T[c], T[Server], U[c])  z == D[c]
<1>1. /\ IsTree(w) /\ \A m \in Machine : IsTree(T[m])
      /\ \A d \in Client : U[d] \in Plain /\ D[d] \in Plain
      /\ J \subseteq Client /\ F \subseteq Client /\ J \cap F = {}
      /\ \A d \in Client \ J : U[d] = NoChanges /\ D[d] = NoChanges
  BY DEF Core, Typed
<1>2. c \in Client /\ c \in Machine /\ Server \in Machine /\ c # Server /\ Server \notin Client /\ Client \subseteq Machine
  BY <1>1, SyncAssumption DEF Machine
<1>3. b \in Plain /\ z \in Plain /\ IsTree(tc) /\ IsTree(ts)
  BY <1>1, <1>2
<1>4. /\ T2[Server] = ts /\ T2[c] = M /\ \A d \in Client \ {c} : T2[d] = T[d]
      /\ U2[c] = Changed(b, {}, G, K, R) /\ \A d \in Client \ {c} : U2[d] = U[d]
      /\ D2[c] = NoChanges /\ \A d \in Client \ {c} : D2[d] = D[d]
  BY <1>2
<1>5. /\ \A p : p \in G => p \in z.deleteFiles
      /\ \A p : p \in K => p \in z.newDirs
      /\ \A p : p \in R => p \in z.deleteDirs
  BY DEF Drops, Adds, Clears
<1>6. IsTree(M) /\ Tells(z, M)
  BY BlendIs
<1>7. \A p \in Path : M[p] = IF p \in BagPaths(b) THEN tc[p] ELSE ts[p]
  BY DEF Blend
<1>8. /\ \A p \in BagPaths(b), q \in BagPaths(z) : ~Kin(p, q)
      /\ \A p \in Path : IF p \in BagPaths(b) THEN Explains(b, tc, ts, p) ELSE Explains(z, ts, tc, p)
      /\ Tells(b, tc) /\ Tells(z, ts)
  BY <1>2 DEF Core, Apart, Explained, Truth
<1> HIDE DEF G, K, R, tc, ts, b, z, M
<1>9. /\ z.newFiles \subseteq BagPaths(z) /\ z.deleteFiles \subseteq BagPaths(z)
      /\ z.newDirs \subseteq BagPaths(z) /\ z.deleteDirs \subseteq BagPaths(z) /\ BagPaths(z) \subseteq Path
  BY <1>3, PlainIs
<1>10. /\ b.newFiles \subseteq BagPaths(b) /\ b.deleteFiles \subseteq BagPaths(b)
       /\ b.newDirs \subseteq BagPaths(b) /\ b.deleteDirs \subseteq BagPaths(b) /\ BagPaths(b) \subseteq Path
  BY <1>3, PlainIs
<1>11. \A p : p \in G \cup K \cup R => p \in Path /\ p \in BagPaths(z) /\ p \notin BagPaths(b)
  BY <1>5, <1>8, <1>9, KinIs
<1>12. G \in SUBSET Path /\ K \in SUBSET Path /\ R \in SUBSET Path /\ {} \in SUBSET Path
  BY <1>11
<1>13. Changed(b, {}, G, K, R) \in Plain /\ BagPaths(Changed(b, {}, G, K, R)) = BagPaths(b) \cup {} \cup G \cup K \cup R
  <2> DEFINE a == {}
  <2>1. b \in Plain
    BY <1>3
  <2>2. a \in SUBSET Path
    OBVIOUS
  <2> HIDE DEF a
  <2>3. Changed(b, a, G, K, R) \in Plain /\ BagPaths(Changed(b, a, G, K, R)) = BagPaths(b) \cup a \cup G \cup K \cup R
    BY <1>12, <2>1, <2>2, ChangedPlain
  <2> QED BY <2>3 DEF a
<1>14. U2[c] \in Plain /\ \A p : p \in BagPaths(U2[c]) <=> p \in BagPaths(b) \/ p \in G \cup K \cup R
  BY <1>4, <1>13
<1>15. /\ \A p \in BagPaths(b) : p \in U2[c].newFiles <=> p \in b.newFiles
       /\ \A p \in BagPaths(b) : p \in U2[c].newDirs <=> p \in b.newDirs
       /\ \A p \in BagPaths(b) : p \in U2[c].deleteFiles <=> p \in b.deleteFiles
       /\ \A p \in BagPaths(b) : p \in U2[c].deleteDirs <=> p \in b.deleteDirs
       /\ \A p : p \in U2[c].newFiles => p \in b.newFiles
       /\ \A p : p \in U2[c].deleteDirs => p \in b.deleteDirs \/ p \in R
  BY <1>4, <1>11 DEF Changed
<1>16. Own(M, ts, U2[c]) = Own(tc, ts, b)
  <2>1. \A p : p \in Own(M, ts, U2[c]) <=> p \in U2[c].newFiles \/ (p \in BagPaths(U2[c]) /\ M[p] # ts[p])
    BY <1>14, OwnIs
  <2>2. \A p : p \in Own(tc, ts, b) <=> p \in b.newFiles \/ (p \in BagPaths(b) /\ tc[p] # ts[p])
    BY <1>3, OwnIs
  <2>3. \A p \in BagPaths(b) : M[p] = tc[p]
    BY <1>7, <1>10
  <2>4. \A p \in G \cup K \cup R : M[p] = ts[p]
    BY <1>7, <1>11
  <2>5. \A p : p \in Own(M, ts, U2[c]) <=> p \in Own(tc, ts, b)
    BY <1>10, <1>14, <1>15, <2>1, <2>2, <2>3, <2>4
  <2> QED BY <2>5
<1>17. \A d \in Client : Own(T2[d], ts, U2[d]) = Own(T[d], ts, U[d])
  BY <1>4, <1>16 DEF tc, b
<1>18. \A d \in Client : U2[d] \in Plain /\ D2[d] \in Plain
  BY <1>1, <1>4, <1>14, NoChangesIs
<1>21. \A x \in Client : \A q \in U[x].deleteDirs : ts[q] = Dir => \A n \in Machine : Children(T[n], q) = {}
  BY DEF Core, Bare, ts
<1>31. Typed(T2, w, U2, D2, J, F)
  BY <1>1, <1>2, <1>4, <1>6, <1>18 DEF Typed, M
<1>32. Truth(T2, U2, D2)
  <2>1. \A d \in Client : Tells(U[d], T[d]) /\ Tells(D[d], ts)
    BY DEF Core, Truth, ts
  <2>2. Tells(b, M)
    BY <1>7, <1>8, <1>10 DEF Tells
  <2>3. Becomes(M, M, {}, G, K, R)
    BY <1>5, <1>6 DEF Becomes, Tells
  <2>4. Tells(U2[c], M)
    BY <1>4, <2>2, <2>3, TellsChanged
  <2>5. Tells(D2[c], ts)
    BY <1>4, NothingOwn
  <2> QED BY <1>4, <2>1, <2>4, <2>5 DEF Truth
<1>33. Apart(U2, D2)
  <2>1. \A d \in Client : \A p \in BagPaths(U[d]), q \in BagPaths(D[d]) : ~Kin(p, q)
    BY DEF Core, Apart
  <2>2. BagPaths(D2[c]) = {}
    BY <1>4, NothingOwn
  <2> QED BY <1>4, <2>1, <2>2 DEF Apart
<1>34. Bare(T2, U2)
  <2> SUFFICES ASSUME NEW d \in Client, NEW p \in U2[d].deleteDirs, ts[p] = Dir, NEW m \in Machine
               PROVE  Children(T2[m], p) = {}
    BY <1>4 DEF Bare
  <2>1. p \in U[d].deleteDirs
    <3>1. d # c => p \in U[d].deleteDirs
      BY <1>4
    <3>2. p \in R => ts[p] # Dir
      BY <1>5, <1>8, <1>11 DEF Tells
    <3> QED BY <1>15, <3>1, <3>2 DEF b
  <2>2. p \in Path
    BY <1>1, <2>1, PlainIs
  <2>3. \A n \in Machine : Children(T[n], p) = {}
    BY <1>21, <2>1
  <2>4. Children(tc, p) = {} /\ Children(ts, p) = {}
    BY <1>2, <2>3 DEF tc, ts
  <2>5. \A x \in Path : x \in Under[p] /\ x # p => tc[x] = None /\ ts[x] = None
    BY <2>2, <2>4, KidsAre
  <2>6. \A x \in Path : x \in Under[p] /\ x # p => M[x] = None
    BY <1>7, <2>5
  <2>7. Children(M, p) = {}
    BY <2>2, <2>6, KidsAre
  <2> QED BY <2>3, <2>7 DEF M
<1>35. Wanted(T2, w, U2)
  <2>1. \A d \in Client : \A p \in Own(T[d], ts, U[d]) : w[p] = T[d][p]
    BY DEF Core, Wanted, ts
  <2>2. \A p \in Own(tc, ts, b) : p \in BagPaths(b) /\ p \in Path
    BY <1>3, OwnIs
  <2>3. \A p \in Own(tc, ts, b) : M[p] = tc[p]
    BY <1>7, <2>2
  <2>4. \A p \in Own(T2[c], ts, U2[c]) : w[p] = T2[c][p]
    BY <1>2, <1>4, <1>17, <2>1, <2>3 DEF tc, b
  <2> QED BY <1>4, <1>17, <2>1, <2>4 DEF Wanted
<1>36. Explained(T2, U2, D2, J)
  <2>1. \A d \in J : \A p \in Path : IF p \in BagPaths(U[d]) THEN Explains(U[d], T[d], ts, p)
                                     ELSE Explains(D[d], ts, T[d], p)
    BY DEF Core, Explained, ts
  <2> SUFFICES ASSUME NEW p \in Path
               PROVE  IF p \in BagPaths(U2[c]) THEN Explains(U2[c], M, ts, p) ELSE Explains(D2[c], ts, M, p)
    BY <1>1, <1>4, <2>1 DEF Explained
  <2>2. CASE p \in BagPaths(b)
    <3>1. Explains(b, tc, ts, p) /\ M[p] = tc[p]
      BY <1>7, <1>8, <2>2
    <3>2. Explains(U2[c], M, ts, p)
      BY <1>15, <2>2, <3>1 DEF Explains
    <3> QED BY <1>14, <2>2, <3>2
  <2>3. CASE p \notin BagPaths(b)
    <3>1. M[p] = ts[p]
      BY <1>7, <2>3
    <3> QED BY <3>1, NoneExplains
  <2> QED BY <2>2, <2>3
<1>37. Rest(T2, w, U2)
  BY <1>4, <1>17 DEF Core, Rest, ts
<1>38. OneOwner(T2, U2, E \cup {c})
  <2>1. \A x \in Client : \A d \in Client \ E : x # d =>
          \A p \in Own(T[x], ts, U[x]), q \in BagPaths(U[d]) : ~Kin(p, q)
    BY DEF Core, OneOwner, ts
  <2> SUFFICES ASSUME NEW x \in Client, NEW d \in Client \ (E \cup {c}), x # d,
                      NEW p \in Own(T2[x], ts, U2[x]), NEW q \in BagPaths(U2[d])
               PROVE  ~Kin(p, q)
    BY <1>4 DEF OneOwner
  <2> QED BY <1>4, <1>17, <2>1
<1>39. Fresh(T2, w, F)
  BY <1>1, <1>4 DEF Core, Fresh, ts
<1> QED BY <1>31, <1>32, <1>33, <1>34, <1>35, <1>36, <1>37, <1>38, <1>39 DEF Core

\* client c, that starts, has taken all the server has
LEMMA CoreDownload ==
  ASSUME NEW T, NEW w, NEW U, NEW D, NEW J, NEW F, NEW E, Core(T, w, U, D, J, F, E),
         NEW c \in F, NEW T2,
         \A m \in Machine : T2[m] = IF m = c THEN T[Server] ELSE T[m]
  PROVE  Core(T2, w, U, D, J, F \ {c}, E \cup {c})
<1> DEFINE ts == T[Server]
<1>1. /\ IsTree(w) /\ \A m \in Machine : IsTree(T[m])
      /\ \A d \in Client : U[d] \in Plain /\ D[d] \in Plain
      /\ J \subseteq Client /\ F \subseteq Client /\ J \cap F = {}
      /\ \A d \in Client \ J : U[d] = NoChanges /\ D[d] = NoChanges
  BY DEF Core, Typed
<1>2. c \in Client /\ c \in Machine /\ Server \in Machine /\ c # Server /\ Server \notin Client /\ Client \subseteq Machine
  BY <1>1, SyncAssumption DEF Machine
<1>3. T2[Server] = ts /\ T2[c] = ts /\ \A d \in Client \ {c} : T2[d] = T[d]
  BY <1>2
<1>4. U[c] = NoChanges /\ D[c] = NoChanges /\ c \notin J
  BY <1>1, <1>2
<1> HIDE DEF ts
<1>5. Own(T[c], ts, U[c]) = {} /\ Own(ts, ts, U[c]) = {} /\ BagPaths(U[c]) = {} /\ Tells(U[c], ts)
  BY <1>4, NothingOwn
<1>6. \A d \in Client : Own(T2[d], ts, U[d]) = Own(T[d], ts, U[d])
  BY <1>3, <1>5
<1>31. Typed(T2, w, U, D, J, F \ {c})
  BY <1>1, <1>2, <1>3 DEF Typed, ts
<1>32. Truth(T2, U, D)
  BY <1>3, <1>5 DEF Core, Truth, ts
<1>33. Apart(U, D)
  BY DEF Core
<1>34. Bare(T2, U)
  BY <1>2, <1>3 DEF Core, Bare, ts
<1>35. Wanted(T2, w, U)
  BY <1>3, <1>5, <1>6 DEF Core, Wanted, ts
<1>36. Explained(T2, U, D, J)
  BY <1>1, <1>3, <1>4 DEF Core, Explained, ts
<1>37. Rest(T2, w, U)
  BY <1>3, <1>6 DEF Core, Rest, ts
<1>38. OneOwner(T2, U, E \cup {c})
  BY <1>3, <1>6 DEF Core, OneOwner, ts
<1>39. Fresh(T2, w, F \ {c})
  BY <1>1, <1>3 DEF Core, Fresh, ts
<1> QED BY <1>31, <1>32, <1>33, <1>34, <1>35, <1>36, <1>37, <1>38, <1>39 DEF Core

\* a client that has all joins
LEMMA CoreJoin ==
  ASSUME NEW T, NEW w, NEW U, NEW D, NEW J, NEW F, NEW E, Core(T, w, U, D, J, F, E),
         NEW c \in Client, c \notin F, c \notin J, T[c] = T[Server]
  PROVE  Core(T, w, U, D, J \cup {c}, F, E)
<1>1. /\ U[c] = NoChanges /\ D[c] = NoChanges
      /\ Typed(T, w, U, D, J \cup {c}, F)
  BY DEF Core, Typed
<1>2. BagPaths(U[c]) = {}
  BY <1>1, NothingOwn
<1>3. \A p \in Path : Explains(D[c], T[Server], T[c], p)
  BY NoneExplains
<1>4. Explained(T, U, D, J \cup {c})
  BY <1>2, <1>3 DEF Core, Explained
<1> QED BY <1>1, <1>4 DEF Core

\* the echo of a client begins, or ends when it has nothing to push
LEMMA CoreEcho ==
  ASSUME NEW T, NEW w, NEW U, NEW D, NEW J, NEW F, NEW E, Core(T, w, U, D, J, F, E),
         NEW E2, \A c \in Client : c \in E /\ c \notin E2 => U[c] = NoChanges
  PROVE  Core(T, w, U, D, J, F, E2)
<1>1. \A c \in Client : c \in E /\ c \notin E2 => BagPaths(U[c]) = {}
  BY NothingOwn
<1>2. OneOwner(T, U, E2)
  BY <1>1 DEF Core, OneOwner
<1> QED BY <1>2 DEF Core

\* client c, which has nothing to push, starts again
LEMMA CoreLeave ==
  ASSUME NEW T, NEW w, NEW U, NEW D, NEW J, NEW F, NEW E, Core(T, w, U, D, J, F, E),
         NEW c \in Client, U[c] = NoChanges, NEW D2,
         \A d \in Client : D2[d] = IF d = c THEN NoChanges ELSE D[d],
         \A p \in Path : Fits(T[c], T[Server], p) /\ Fits(T[c], w, p)
  PROVE  Core(T, w, U, D2, J \ {c}, F \cup {c}, E)
<1>1. NoChanges \in Plain /\ BagPaths(NoChanges) = {} /\ Tells(NoChanges, T[Server])
  BY NoChangesIs, NothingOwn
<1>2. D2[c] = NoChanges /\ \A d \in Client \ {c} : D2[d] = D[d]
  OBVIOUS
<1>3. Typed(T, w, U, D2, J \ {c}, F \cup {c})
  BY <1>1, <1>2 DEF Core, Typed
<1>4. Truth(T, U, D2)
  BY <1>1, <1>2 DEF Core, Truth
<1>5. Apart(U, D2)
  BY <1>1, <1>2 DEF Core, Apart
<1>6. Explained(T, U, D2, J \ {c})
  BY <1>2 DEF Core, Explained, Typed
<1>7. Fresh(T, w, F \cup {c})
  BY DEF Core, Fresh
<1> QED BY <1>3, <1>4, <1>5, <1>6, <1>7 DEF Core

\* no client has a server any more, and none has anything to push
LEMMA CoreLost ==
  ASSUME NEW T, NEW w, NEW U, NEW D, NEW J, NEW F, NEW E, Core(T, w, U, D, J, F, E), NEW D2,
         \A d \in Client : U[d] = NoChanges /\ D2[d] = NoChanges
  PROVE  Core(T, w, U, D2, {}, {}, {})
<1>1. NoChanges \in Plain /\ BagPaths(NoChanges) = {} /\ Tells(NoChanges, T[Server])
  BY NoChangesIs, NothingOwn
<1>2. \A d \in Client : Own(T[d], T[Server], U[d]) = {} /\ BagPaths(U[d]) = {}
  BY NothingOwn
<1>3. Typed(T, w, U, D2, {}, {})
  BY <1>1 DEF Core, Typed
<1>4. Truth(T, U, D2)
  BY <1>1 DEF Core, Truth
<1>5. Apart(U, D2)
  BY <1>1 DEF Apart
<1>6. Explained(T, U, D2, {}) /\ Fresh(T, w, {})
  BY DEF Explained, Fresh
<1>7. OneOwner(T, U, {})
  BY <1>2 DEF OneOwner
<1> QED BY <1>3, <1>4, <1>5, <1>6, <1>7 DEF Core

\* At first there is nothing to transfer but to those who start.
LEMMA CoreInit ==
  ASSUME NEW T, NEW w, NEW U, NEW D, NEW J, NEW E,
         IsTree(w), \A m \in Machine : IsTree(T[m]), T[Server] = w,
         \A c \in Client : U[c] = NoChanges /\ D[c] = NoChanges,
         \A c \in Client : \A p \in Path : T[c][p] = None, J = {}
  PROVE  Core(T, w, U, D, J, Client, E)
<1>1. /\ NoChanges \in Plain /\ BagPaths(NoChanges) = {}
      /\ NoChanges.deleteDirs = {} /\ \A t : Tells(NoChanges, t)
  BY NoChangesIs, NothingOwn
<1>2. \A d \in Client : Own(T[d], T[Server], U[d]) = {} /\ BagPaths(U[d]) = {} /\ BagPaths(D[d]) = {}
  BY NothingOwn
<1>3. Typed(T, w, U, D, J, Client)
  BY <1>1 DEF Typed
<1>4. Truth(T, U, D) /\ Apart(U, D) /\ Bare(T, U)
  BY <1>1 DEF Truth, Apart, Bare
<1>5. Wanted(T, w, U) /\ OneOwner(T, U, E)
  BY <1>2 DEF Wanted, OneOwner
<1>6. Explained(T, U, D, J) /\ Rest(T, w, U)
  BY DEF Explained, Rest
<1>7. Fresh(T, w, Client)
  BY DEF Fresh, Fits
<1> QED BY <1>3, <1>4, <1>5, <1>6, <1>7 DEF Core

-----------------------------------------------------------------------------
(* What a client has to pull *)

\* the journals from n on and what is not staged, s, merged
ToPull(j, n, s) == Merge(FlattenSeq(SubSeq(j, n, Len(j))) \o s)

\* What is in two sequences, one behind the other.
LEMMA ToSetConcat ==
  ASSUME NEW E, NEW s \in Seq(E), NEW q \in Seq(E)
  PROVE  ToSet(s \o q) = ToSet(s) \cup ToSet(q)
<1>1. /\ Len(s) \in Nat /\ Len(q) \in Nat /\ Len(s \o q) = Len(s) + Len(q) /\ s \o q \in Seq(E)
      /\ \A i \in 1..(Len(s) + Len(q)) : (s \o q)[i] = IF i <= Len(s) THEN s[i] ELSE q[i - Len(s)]
  BY ConcatProperties, LenProperties
<1>2. DOMAIN s = 1..Len(s) /\ DOMAIN q = 1..Len(q) /\ DOMAIN (s \o q) = 1..(Len(s) + Len(q))
  BY <1>1, LenProperties
<1> DEFINE z == s \o q
<1> HIDE DEF z
<1>3. \A x : x \in ToSet(z) => x \in ToSet(s) \cup ToSet(q)
  <2> SUFFICES ASSUME NEW i \in 1..(Len(s) + Len(q)) PROVE z[i] \in ToSet(s) \cup ToSet(q)
    BY <1>2 DEF ToSet, z
  <2>1. CASE i <= Len(s)
    BY <1>1, <1>2, <2>1 DEF ToSet, z
  <2>2. CASE ~(i <= Len(s))
    <3>1. i - Len(s) \in 1..Len(q) /\ z[i] = q[i - Len(s)]
      BY <1>1, <2>2 DEF z
    <3> QED BY <1>2, <3>1 DEF ToSet
  <2> QED BY <2>1, <2>2
<1>4. \A i \in 1..Len(s) : s[i] \in ToSet(z)
  <2> TAKE i \in 1..Len(s)
  <2>1. i \in 1..(Len(s) + Len(q)) /\ z[i] = s[i]
    BY <1>1 DEF z
  <2> QED BY <1>2, <2>1 DEF ToSet, z
<1>5. \A i \in 1..Len(q) : q[i] \in ToSet(z)
  <2> TAKE i \in 1..Len(q)
  <2>1. i + Len(s) \in 1..(Len(s) + Len(q)) /\ ~(i + Len(s) <= Len(s)) /\ (i + Len(s)) - Len(s) = i
    BY <1>1
  <2>2. z[i + Len(s)] = q[i]
    BY <1>1, <2>1 DEF z
  <2> QED BY <1>2, <2>1, <2>2 DEF ToSet, z
<1>6. \A x : x \in ToSet(s) \cup ToSet(q) => x \in ToSet(z)
  BY <1>2, <1>4, <1>5 DEF ToSet
<1>7. ToSet(z) = ToSet(s) \cup ToSet(q)
  BY <1>3, <1>6
<1> QED BY <1>7 DEF z

\* The records of one journal more.
LEMMA RecordsAppend ==
  ASSUME NEW E, NEW s \in Seq(E), NEW e \in E
  PROVE  Records(Append(s, e)) = Records(s) \cup ToSet(e)
<1>1. /\ Len(Append(s, e)) = Len(s) + 1 /\ Len(s) \in Nat
      /\ Append(s, e)[Len(s) + 1] = e /\ \A i \in 1..Len(s) : Append(s, e)[i] = s[i]
      /\ Append(s, e) \in Seq(E)
  BY AppendProperties, LenProperties
<1>2. DOMAIN s = 1..Len(s) /\ DOMAIN Append(s, e) = 1..(Len(s) + 1)
  BY <1>1, LenProperties
<1>3. \A i \in 1..(Len(s) + 1) : i \in 1..Len(s) \/ i = Len(s) + 1
  BY <1>1
<1> DEFINE z == Append(s, e)
<1>4. /\ \A i \in DOMAIN z : ToSet(z[i]) \subseteq Records(s) \cup ToSet(e)
      /\ \A i \in DOMAIN s : i \in DOMAIN z /\ z[i] = s[i]
      /\ Len(s) + 1 \in DOMAIN z /\ z[Len(s) + 1] = e
  BY <1>1, <1>2, <1>3 DEF Records
<1> HIDE DEF z
<1>5. \A x : x \in Records(z) => x \in Records(s) \cup ToSet(e)
  BY <1>4 DEF Records
<1>6. \A x : x \in Records(s) \cup ToSet(e) => x \in Records(z)
  BY <1>4 DEF Records
<1>7. Records(z) = Records(s) \cup ToSet(e)
  BY <1>5, <1>6
<1> QED BY <1>7 DEF z

\* The journals, flattened, are a sequence of their records.
LEMMA FlatRecords ==
  \A s \in Seq(Seq(RecOp)) : FlattenSeq(s) \in Seq(RecOp) /\ ToSet(FlattenSeq(s)) = Records(s)
<1> DEFINE T == {s \in Seq(Seq(RecOp)) : FlattenSeq(s) \in Seq(RecOp) /\ ToSet(FlattenSeq(s)) = Records(s)}
<1>1. <<>> \in T
  <2>1. ToSet(<<>>) = {} /\ Records(<<>>) = {}
    BY DEF ToSet, Records
  <2> QED BY <2>1, FlatEmpty, EmptySeq
<1>2. ASSUME NEW s \in Seq(Seq(RecOp)), NEW e \in Seq(RecOp), s \in T PROVE Append(s, e) \in T
  <2> DEFINE f == FlattenSeq(s)
  <2>1. f \in Seq(RecOp) /\ ToSet(f) = Records(s)
    BY <1>2
  <2>2. FlattenSeq(Append(s, e)) = f \o e
    BY FlatAppend
  <2> HIDE DEF f
  <2>3. f \o e \in Seq(RecOp) /\ ToSet(f \o e) = ToSet(f) \cup ToSet(e)
    BY <2>1, ToSetConcat, ConcatProperties
  <2>4. Records(Append(s, e)) = Records(s) \cup ToSet(e) /\ Append(s, e) \in Seq(Seq(RecOp))
    BY RecordsAppend, AppendProperties
  <2> QED BY <2>1, <2>2, <2>3, <2>4
<1> HIDE DEF T
<1>3. Seq(Seq(RecOp)) \subseteq T
  BY <1>1, <1>2, SeqInduction
<1> QED BY <1>3 DEF T

\* The journals from n on, when there is one journal more.
LEMMA SubSeqAppend ==
  ASSUME NEW E, NEW j \in Seq(E), NEW e \in E, NEW n \in 1..(Len(j) + 1)
  PROVE  /\ SubSeq(j, n, Len(j)) \in Seq(E)
         /\ SubSeq(Append(j, e), n, Len(Append(j, e))) = Append(SubSeq(j, n, Len(j)), e)
<1>1. Len(j) \in Nat /\ Len(Append(j, e)) = Len(j) + 1 /\ Append(j, e) \in Seq(E)
      /\ Append(j, e)[Len(j) + 1] = e /\ \A i \in 1..Len(j) : Append(j, e)[i] = j[i]
  BY AppendProperties, LenProperties
<1>2. \A i \in 1..Len(j) : j[i] \in E
  BY ElementOfSeq
<1>3. SubSeq(j, n, Len(j)) \in Seq(E)
  BY <1>1, <1>2, SubSeqProperties
<1> DEFINE s == SubSeq(j, n, Len(j))  z == Append(j, e)
<1>4. SubSeq(z, n, Len(z)) = Append(s, e)
  <2>1. SubSeq(z, n, Len(z)) = [i \in 1..(Len(j) + 1 - n + 1) |-> z[n + i - 1]]
    BY <1>1
  <2>2. s = [i \in 1..(Len(j) - n + 1) |-> j[n + i - 1]]
    BY <1>1
  <2>3. Len(s) = Len(j) - n + 1 /\ Len(s) \in Nat
    BY <1>1, <2>2
  <2>4. Append(s, e) = [i \in 1..(Len(s) + 1) |-> IF i = Len(s) + 1 THEN e ELSE s[i]]
    BY <1>3, <2>3
  <2> QED BY <1>1, <2>1, <2>2, <2>3, <2>4
<1> QED BY <1>3, <1>4

\* What is to be pulled is about the paths of the records; it is the same when they are staged,
\* and it is merged with one record more when one is recorded.
LEMMA PullFacts ==
  ASSUME NEW j \in Seq(Seq(RecOp)), NEW n \in 1..(Len(j) + 1), NEW s \in Seq(RecOp)
  PROVE  /\ ToPull(j, n, s) \in Plain
         /\ \A p : p \in BagPaths(ToPull(j, n, s))
                     <=> \E o \in Records(SubSeq(j, n, Len(j))) \cup ToSet(s) : p \in PathsOf(o)
         /\ ToPull(Append(j, s), n, <<>>) = ToPull(j, n, s)
         /\ \A o \in RecOp : ToPull(j, n, Append(s, o)) =
                               Changed(ToPull(j, n, s), FileAt(o), FileOff(o), DirAt(o), DirOff(o))
<1> DEFINE J == SubSeq(j, n, Len(j))  f == FlattenSeq(J)
<1>1. J \in Seq(Seq(RecOp))
  BY SubSeqAppend
<1>2. f \in Seq(RecOp) /\ ToSet(f) = Records(J)
  BY <1>1, FlatRecords
<1>3. ToPull(j, n, s) = Merge(f \o s)
  BY DEF ToPull
<1>4. FlattenSeq(SubSeq(Append(j, s), n, Len(Append(j, s)))) = f \o s
  <2>1. SubSeq(Append(j, s), n, Len(Append(j, s))) = Append(J, s)
    BY SubSeqAppend
  <2>2. FlattenSeq(Append(J, s)) = FlattenSeq(J) \o s
    BY <1>1, FlatAppend
  <2> QED BY <2>1, <2>2
<1> HIDE DEF f
<1>5. f \o s \in Seq(RecOp) /\ ToSet(f \o s) = ToSet(f) \cup ToSet(s)
  BY <1>2, ToSetConcat, ConcatProperties
<1>6. Merge(f \o s) \in Plain /\ BagPaths(Merge(f \o s)) = UNION {PathsOf(o) : o \in ToSet(f \o s)}
  BY <1>5, MergeRecs
<1>7. ToPull(Append(j, s), n, <<>>) = ToPull(j, n, s)
  <2>1. ToPull(Append(j, s), n, <<>>) = Merge((f \o s) \o <<>>)
    BY <1>4 DEF ToPull
  <2>2. (f \o s) \o <<>> = f \o s
    BY <1>5, ConcatEmptySeq
  <2> QED BY <1>3, <2>1, <2>2
<1>8. ASSUME NEW o \in RecOp
      PROVE  ToPull(j, n, Append(s, o)) = Changed(ToPull(j, n, s), FileAt(o), FileOff(o), DirAt(o), DirOff(o))
  <2>1. ToPull(j, n, Append(s, o)) = Merge(f \o Append(s, o))
    BY DEF ToPull, f
  <2>2. Merge(f \o Append(s, o)) = MergeOne(Merge(f \o s), o)
    BY <1>2, MergeMore
  <2>3. MergeOne(Merge(f \o s), o) = Changed(Merge(f \o s), FileAt(o), FileOff(o), DirAt(o), DirOff(o))
    BY <1>6, MergeOneRec
  <2> QED BY <1>3, <2>1, <2>2, <2>3
<1> HIDE DEF J
<1>9. \A p : p \in BagPaths(ToPull(j, n, s)) <=> \E o \in Records(J) \cup ToSet(s) : p \in PathsOf(o)
  <2>1. BagPaths(ToPull(j, n, s)) = UNION {PathsOf(o) : o \in Records(J) \cup ToSet(s)}
    BY <1>2, <1>3, <1>5, <1>6
  <2> DEFINE S == Records(J) \cup ToSet(s)
  <2> HIDE DEF S
  <2>2. \A p : p \in UNION {PathsOf(o) : o \in S} <=> \E o \in S : p \in PathsOf(o)
    OBVIOUS
  <2> QED BY <2>1, <2>2 DEF S
<1>10. ToPull(j, n, s) \in Plain
  BY <1>3, <1>6
<1> QED BY <1>7, <1>8, <1>9, <1>10 DEF J

\* what a receiver records about a change set, merged behind t
LEMMA DoneMerged ==
  ASSUME NEW t \in Seq(RecOp), NEW A \in SUBSET Path, NEW G \in SUBSET Path, NEW K \in SUBSET Path,
         NEW R \in SUBSET Path, A \cap G = {}, K \cap R = {}
  PROVE  Merge(t \o Doings(A, G, K, R)) = Changed(Merge(t), A, G, K, R)
BY MergeDone

\* and by itself
LEMMA DoneRecs ==
  ASSUME NEW A \in SUBSET Path, NEW G \in SUBSET Path, NEW K \in SUBSET Path,
         NEW R \in SUBSET Path, A \cap G = {}, K \cap R = {}
  PROVE  Doings(A, G, K, R) \in Seq(RecOp)
<1>1. <<>> \in Seq(RecOp)
  BY EmptySeq
<1> QED BY <1>1, MergeDone

\* and behind two sequences.
LEMMA DoneMergedAfter ==
  ASSUME NEW f \in Seq(RecOp), NEW s \in Seq(RecOp),
         NEW A \in SUBSET Path, NEW G \in SUBSET Path, NEW K \in SUBSET Path,
         NEW R \in SUBSET Path, A \cap G = {}, K \cap R = {}
  PROVE  Merge(f \o (s \o Doings(A, G, K, R))) = Changed(Merge(f \o s), A, G, K, R)
<1>1. f \o s \in Seq(RecOp)
  BY Concat
<1>2. Merge((f \o s) \o Doings(A, G, K, R)) = Changed(Merge(f \o s), A, G, K, R)
  <2>1. \A t \in Seq(RecOp) : Merge(t \o Doings(A, G, K, R)) = Changed(Merge(t), A, G, K, R)
    BY DoneMerged
  <2> DEFINE t == f \o s
  <2>2. t \in Seq(RecOp)
    BY <1>1
  <2> HIDE DEF t
  <2>3. Merge(t \o Doings(A, G, K, R)) = Changed(Merge(t), A, G, K, R)
    BY <2>1, <2>2, Zenon
  <2> QED BY <2>3 DEF t
<1>3. Doings(A, G, K, R) \in Seq(RecOp)
  BY DoneRecs
<1>4. f \o (s \o Doings(A, G, K, R)) = (f \o s) \o Doings(A, G, K, R)
  <2> DEFINE d == Doings(A, G, K, R)
  <2>0. d \in Seq(RecOp)
    BY <1>3
  <2> HIDE DEF d
  <2>1. f \o (s \o d) = (f \o s) \o d
    BY <2>0, ConcatAll
  <2> QED BY <2>1 DEF d
<1> QED BY <1>2, <1>4

\* What a receiver records about a change set, and what that makes of what is to pull.
LEMMA PullDone ==
  ASSUME NEW j \in Seq(Seq(RecOp)), NEW n \in 1..(Len(j) + 1), NEW s \in Seq(RecOp),
         NEW A \in SUBSET Path, NEW G \in SUBSET Path, NEW K \in SUBSET Path,
         NEW R \in SUBSET Path, A \cap G = {}, K \cap R = {}
  PROVE  ToPull(j, n, s \o Doings(A, G, K, R)) = Changed(ToPull(j, n, s), A, G, K, R)
<1> DEFINE J == SubSeq(j, n, Len(j))  f == FlattenSeq(J)  done == Doings(A, G, K, R)
<1>1. f \in Seq(RecOp)
  <2>1. J \in Seq(Seq(RecOp))
    BY SubSeqAppend
  <2> QED BY <2>1, FlatRecords
<1>2. ToPull(j, n, s) = Merge(f \o s) /\ ToPull(j, n, s \o done) = Merge(f \o (s \o done))
  BY DEF ToPull
<1> HIDE DEF f
<1>3. f \o s \in Seq(RecOp)
  BY <1>1, Concat
<1> HIDE DEF done
<1>6. ToPull(j, n, s \o done) = Changed(ToPull(j, n, s), A, G, K, R)
  BY <1>1, <1>2, DoneMergedAfter DEF done
<1> QED BY <1>6 DEF done

\* Above the last stamp there is nothing to pull.
LEMMA PullNothing ==
  ASSUME NEW j \in Seq(Seq(RecOp))
  PROVE  ToPull(j, Len(j) + 1, <<>>) = NoChanges
<1>1. Len(j) \in Nat
  BY LenProperties
<1>2. SubSeq(j, Len(j) + 1, Len(j)) = <<>>
  <2>1. Len(j) + 1 \in Int /\ Len(j) \in Int /\ Len(j) < Len(j) + 1
    BY <1>1
  <2> QED BY <2>1, SubSeqEmpty
<1>3. <<>> \o <<>> = <<>>
  BY EmptySeq, ConcatEmptySeq
<1> QED BY <1>2, <1>3, FlatEmpty, MergeEmpty DEF ToPull

-----------------------------------------------------------------------------
(* The inductive invariant *)

\* what c has to push, and what it has to pull beyond what it is being sent as a whole
Up(c) == IF at[c] = "push" THEN bag[c] ELSE Merge(queue[c])
Down(c) == IF at[c] \in {"idle", "patch"} /\ last_sync[c] > 0
           THEN ToPull(journal, last_sync[c], queue[Server]) ELSE NoChanges
Ups == [c \in Client |-> Up(c)]
Downs == [c \in Client |-> Down(c)]
Joined == {c \in Client : last_sync[c] > 0}
Starting == {c \in Client : last_sync[c] = 0 /\ at[c] \in {"idle", "all"}}
Echoing == {c \in Client : at[c] \in {"stamp", "drain", "push"}}

\* the invariant of the change sets, in this state
CoreNow == Core(tree, want, Ups, Downs, Joined, Starting, Echoing)

\* what is recorded
Recs == queue \in [Machine -> Seq(RecOp)] /\ journal \in Seq(Seq(RecOp))

\* what goes with where the update of c stands
FormOf(c) ==
  /\ at[c] \notin {"push", "patch"} => bag[c] = NoChanges
  /\ at[c] = "push" => queue[c] = <<>>
  /\ at[c] = "reply" => queue[Server] = <<>>
  /\ last_sync[c] = 0 => queue[c] = <<>> /\ at[c] \in {"idle", "all", "stamp", "offline"}
  /\ at[c] \in {"all", "offline"} => last_sync[c] = 0
  /\ at[c] # "stuck"
  /\ last_sync[c] = 0 /\ at[c] = "stamp" => tree[c] = tree[Server]
Forms == \A c \in Client : FormOf(c)

Calm == TypeOK /\ SyncInv /\ Recs /\ Forms /\ CoreNow

\* what of the state all steps need
LEMMA CalmFacts ==
  ASSUME Calm
  PROVE  /\ Server \in Machine /\ Server \notin Client /\ Client \subseteq Machine
         /\ Machine = Client \cup {Server}
         /\ DOMAIN tree = Machine /\ DOMAIN queue = Machine /\ DOMAIN bag = Client
         /\ \A m \in Machine : IsTree(tree[m]) /\ queue[m] \in Seq(RecOp)
         /\ IsTree(want) /\ journal \in Seq(Seq(RecOp)) /\ Len(journal) \in Nat
         /\ server_stamp = Len(journal) + 1
         /\ last_sync \in [Client -> 0..(Len(journal) + 1)]
         /\ at \in [Client -> {"idle", "all", "patch", "stamp", "drain", "push", "stage", "reply", "stuck", "offline"}]
         /\ \A c, d \in Client : Busy(c) /\ Busy(d) => c = d
         /\ \A c \in Client : at[c] \in Before => queue[Server] = <<>>
         /\ \A c \in Client : FormOf(c) /\ CoversOf(c)
         /\ CoreNow
<1>1. TypeOK /\ SyncInv /\ Recs /\ Forms /\ CoreNow
  BY DEF Calm
<1>2. Server \notin Client
  BY SyncAssumption
<1>3. queue \in [Machine -> Seq(RecOp)] /\ journal \in Seq(Seq(RecOp))
  BY <1>1 DEF Recs
<1>4. Len(journal) \in Nat
  BY <1>3, LenProperties
<1>5. /\ DOMAIN tree = Machine /\ DOMAIN queue = Machine /\ DOMAIN bag = Client
      /\ \A m \in Machine : IsTree(tree[m])
      /\ IsTree(want) /\ last_sync \in [Client -> 0..(Len(journal) + 1)]
      /\ at \in [Client -> {"idle", "all", "patch", "stamp", "drain", "push", "stage", "reply", "stuck", "offline"}]
  BY <1>1 DEF TypeOK, server_stamp
<1>6. \A m \in Machine : queue[m] \in Seq(RecOp)
  BY <1>3
<1>7. /\ \A c, d \in Client : Busy(c) /\ Busy(d) => c = d
      /\ \A c \in Client : at[c] \in Before => queue[Server] = <<>>
      /\ \A c \in Client : FormOf(c) /\ CoversOf(c)
  BY <1>1 DEF SyncInv, TurnInv, StampsCover, CoversOf, Forms
<1> QED BY <1>1, <1>2, <1>3, <1>4, <1>5, <1>6, <1>7 DEF Machine, server_stamp

\* The stamp of client c.
LEMMA SyncParts ==
  ASSUME Calm, NEW c \in Client
  PROVE  /\ last_sync[c] \in 0..(Len(journal) + 1)
         /\ last_sync[c] > 0 => last_sync[c] \in 1..(Len(journal) + 1)
         /\ c \in Joined <=> last_sync[c] > 0
         /\ last_sync[c] > 0 <=> last_sync[c] # 0
<1>1. last_sync[c] \in 0..(Len(journal) + 1) /\ Len(journal) \in Nat
  BY CalmFacts
<1> QED BY <1>1 DEF Joined

\* the parts that a step may leave as they are
LEMMA SameUp ==
  ASSUME NEW c \in Client, at'[c] = at[c], bag'[c] = bag[c], queue'[c] = queue[c]
  PROVE  Ups'[c] = Ups[c]
BY DEF Ups, Up

\* So for what is to be pulled.
LEMMA SameDown ==
  ASSUME NEW c \in Client, at'[c] = at[c], last_sync'[c] = last_sync[c], journal' = journal,
         queue'[Server] = queue[Server]
  PROVE  Downs'[c] = Downs[c]
BY DEF Downs, Down

\* all that c has to pull is staged, and it has it
LEMMA DownNothing ==
  ASSUME Calm, NEW n, n = Len(journal) + 1, NEW s, s = <<>>
  PROVE  ToPull(journal, n, s) = NoChanges
<1>1. journal \in Seq(Seq(RecOp))
  BY CalmFacts
<1> QED BY <1>1, PullNothing

\* The invariant holds at first.
LEMMA InitCalm == Init => Calm
<1> SUFFICES ASSUME Init PROVE Calm
  OBVIOUS
<1>1. /\ tree = [m \in Machine |-> IF m = Server THEN ServerTree ELSE [p \in Path |-> None]]
      /\ queue = [m \in Machine |-> <<>>] /\ journal = <<>> /\ last_sync = [c \in Client |-> 0]
      /\ at = [c \in Client |-> "idle"] /\ bag = [c \in Client |-> NoChanges] /\ want = ServerTree
  BY DEF Init
<1>2. TypeOK /\ SyncInv
  BY InitType, InitSync
<1>3. Recs
  <2>1. <<>> \in Seq(RecOp) /\ <<>> \in Seq(Seq(RecOp))
    BY EmptySeq
  <2> QED BY <1>1, <2>1 DEF Recs
<1>4. Forms
  BY <1>1 DEF Forms, FormOf, Machine
<1>5. CoreNow
  <2>1. Server \in Machine /\ Client \subseteq Machine /\ Server \notin Client
    BY SyncAssumption DEF Machine
  <2>2. IsTree(want) /\ \A m \in Machine : IsTree(tree[m])
    BY <1>2 DEF TypeOK
  <2>3. tree[Server] = want /\ \A c \in Client : \A p \in Path : tree[c][p] = None
    BY <1>1, <2>1
  <2>4. \A c \in Client : Ups[c] = NoChanges /\ Downs[c] = NoChanges
    BY <1>1, <2>1, MergeEmpty DEF Ups, Downs, Up, Down
  <2>5. Joined = {} /\ Starting = Client
    BY <1>1 DEF Joined, Starting
  <2>6. Core(tree, want, Ups, Downs, Joined, Client, Echoing)
    BY <2>2, <2>3, <2>4, <2>5, CoreInit
  <2> QED BY <2>5, <2>6 DEF CoreNow
<1> QED BY <1>2, <1>3, <1>4, <1>5 DEF Calm

-----------------------------------------------------------------------------
(* The steps of an update *)

\* Nothing changes but that an echo begins or ends.
LEMMA CoreSame ==
  ASSUME CoreNow, tree' = tree, want' = want,
         \A c \in Client : Ups'[c] = Ups[c] /\ Downs'[c] = Downs[c],
         Joined' = Joined, Starting' = Starting,
         \A c \in Client : c \in Echoing /\ c \notin Echoing' => Ups[c] = NoChanges
  PROVE  CoreNow'
<1>1. Ups' = Ups /\ Downs' = Downs
  BY DEF Ups, Downs
<1>2. Core(tree, want, Ups, Downs, Joined, Starting, Echoing)
  BY DEF CoreNow
<1>3. Core(tree, want, Ups, Downs, Joined, Starting, Echoing')
  BY <1>2, CoreEcho
<1>4. Core(tree', want', Ups', Downs', Joined', Starting', Echoing')
  BY <1>1, <1>3
<1> QED BY <1>4 DEF CoreNow

\* Staging moves records from the queue to the journal.
LEMMA StageCalm ==
  ASSUME Calm, StageChanges
  PROVE  Recs' /\ Forms' /\ CoreNow'
<1>1. /\ journal' = Append(journal, queue[Server]) /\ queue' = [queue EXCEPT ![Server] = <<>>]
      /\ UNCHANGED <<tree, last_sync, at, bag, want>>
  BY DEF StageChanges
<1>2. /\ Server \in Machine /\ Server \notin Client /\ Client \subseteq Machine
      /\ DOMAIN queue = Machine /\ journal \in Seq(Seq(RecOp)) /\ queue[Server] \in Seq(RecOp)
      /\ queue \in [Machine -> Seq(RecOp)]
      /\ \A c \in Client : FormOf(c)
      /\ CoreNow
  BY CalmFacts DEF Calm, Recs
<1>3. queue'[Server] = <<>> /\ \A c \in Client : queue'[c] = queue[c]
  BY <1>1, <1>2
<1>4. Recs'
  <2>1. <<>> \in Seq(RecOp) /\ Append(journal, queue[Server]) \in Seq(Seq(RecOp))
    BY <1>2, EmptySeq, AppendProperties
  <2>2. queue' \in [Machine -> Seq(RecOp)]
    BY <1>1, <1>2, <2>1
  <2> QED BY <1>1, <2>1, <2>2 DEF Recs
<1>5. Forms'
  BY <1>1, <1>2, <1>3 DEF Forms, FormOf
<1>6. ASSUME NEW c \in Client PROVE Ups'[c] = Ups[c] /\ Downs'[c] = Downs[c]
  <2>1. Ups'[c] = Ups[c]
    BY <1>1, <1>3, SameUp
  <2>2. last_sync[c] > 0 => last_sync[c] \in 1..(Len(journal) + 1)
    BY SyncParts
  <2>3. last_sync[c] > 0 => ToPull(journal', last_sync[c], queue'[Server]) = ToPull(journal, last_sync[c], queue[Server])
    BY <1>1, <1>2, <1>3, <2>2, PullFacts
  <2>4. Downs'[c] = Downs[c]
    BY <1>1, <2>3 DEF Downs, Down
  <2> QED BY <2>1, <2>4
<1>7. Joined' = Joined /\ Starting' = Starting /\ Echoing' = Echoing
  BY <1>1 DEF Joined, Starting, Echoing
<1>8. CoreNow'
  BY <1>1, <1>2, <1>6, <1>7, CoreSame
<1> QED BY <1>4, <1>5, <1>8

\* So does the end of a push.
LEMMA PushStagesCalm ==
  ASSUME Calm, NEW c \in Client, PushStages(c)
  PROVE  Recs' /\ Forms' /\ CoreNow'
<1>1. /\ journal' = IF queue[Server] = <<>> THEN journal ELSE Append(journal, queue[Server])
      /\ queue' = [queue EXCEPT ![Server] = <<>>] /\ at' = [at EXCEPT ![c] = "reply"]
      /\ at[c] = "stage" /\ UNCHANGED <<tree, last_sync, bag, want>>
  BY DEF PushStages, Goto
<1>2. /\ Server \in Machine /\ Server \notin Client /\ Client \subseteq Machine
      /\ DOMAIN queue = Machine /\ journal \in Seq(Seq(RecOp)) /\ queue[Server] \in Seq(RecOp)
      /\ queue \in [Machine -> Seq(RecOp)]
      /\ \A d \in Client : FormOf(d)
      /\ CoreNow /\ DOMAIN at = Client
  BY CalmFacts DEF Calm, Recs
<1>3. queue'[Server] = <<>> /\ \A d \in Client : queue'[d] = queue[d]
  BY <1>1, <1>2
<1>4. at'[c] = "reply" /\ \A d \in Client : d # c => at'[d] = at[d]
  BY <1>1, <1>2
<1>5. Recs'
  <2>1. <<>> \in Seq(RecOp) /\ Append(journal, queue[Server]) \in Seq(Seq(RecOp))
    BY <1>2, EmptySeq, AppendProperties
  <2>2. queue' \in [Machine -> Seq(RecOp)]
    BY <1>1, <1>2, <2>1
  <2>3. journal' \in Seq(Seq(RecOp))
    BY <1>1, <1>2, <2>1
  <2> QED BY <2>2, <2>3 DEF Recs
<1>6. Forms'
  <2>1. FormOf(c)'
    BY <1>1, <1>2, <1>3, <1>4 DEF FormOf
  <2>2. \A d \in Client : d # c => FormOf(d)'
    BY <1>1, <1>2, <1>3, <1>4 DEF FormOf
  <2> QED BY <2>1, <2>2 DEF Forms
<1>7. ASSUME NEW d \in Client PROVE Ups'[d] = Ups[d] /\ Downs'[d] = Downs[d]
  <2>1. Ups'[d] = Ups[d]
    BY <1>1, <1>3, <1>4 DEF Ups, Up
  <2>2. last_sync[d] > 0 => last_sync[d] \in 1..(Len(journal) + 1)
    BY SyncParts
  <2>3. last_sync[d] > 0 => ToPull(journal', last_sync[d], queue'[Server]) = ToPull(journal, last_sync[d], queue[Server])
    BY <1>1, <1>2, <1>3, <2>2, PullFacts
  <2>4. Downs'[d] = Downs[d]
    BY <1>1, <1>4, <2>3 DEF Downs, Down
  <2> QED BY <2>1, <2>4
<1>8. Joined' = Joined /\ Starting' = Starting /\ Echoing' = Echoing
  BY <1>1, <1>4 DEF Joined, Starting, Echoing
<1>9. CoreNow'
  BY <1>1, <1>2, <1>7, <1>8, CoreSame
<1> QED BY <1>5, <1>6, <1>9

\* The answer covers what was pushed: the client has nothing to pull.
LEMMA PushDoneCalm ==
  ASSUME Calm, NEW c \in Client, PushDone(c)
  PROVE  Recs' /\ Forms' /\ CoreNow'
<1>1. /\ last_sync' = [last_sync EXCEPT ![c] = server_stamp] /\ at' = [at EXCEPT ![c] = "idle"]
      /\ at[c] = "reply" /\ UNCHANGED <<tree, queue, journal, bag, want>>
  BY DEF PushDone, Goto
<1>2. /\ \A d \in Client : FormOf(d)
      /\ CoreNow /\ DOMAIN at = Client /\ DOMAIN last_sync = Client
      /\ server_stamp = Len(journal) + 1 /\ Len(journal) \in Nat
  BY CalmFacts
<1>3. /\ at'[c] = "idle" /\ last_sync'[c] = Len(journal) + 1 /\ last_sync'[c] > 0
      /\ \A d \in Client : d # c => at'[d] = at[d] /\ last_sync'[d] = last_sync[d]
  BY <1>1, <1>2
<1>4. Recs'
  BY <1>1 DEF Recs, Calm
<1>5. last_sync[c] # 0 /\ queue[Server] = <<>>
  BY <1>1, <1>2 DEF FormOf
<1>6. Forms'
  <2>1. FormOf(c)'
    BY <1>1, <1>2, <1>3 DEF FormOf
  <2>2. \A d \in Client : d # c => FormOf(d)'
    BY <1>1, <1>2, <1>3 DEF FormOf
  <2> QED BY <2>1, <2>2 DEF Forms
<1>7. ASSUME NEW d \in Client PROVE Ups'[d] = Ups[d] /\ Downs'[d] = Downs[d]
  <2>1. Ups'[d] = Ups[d]
    BY <1>1, <1>3 DEF Ups, Up
  <2>2. CASE d = c
    <3>1. ToPull(journal, last_sync'[c], queue[Server]) = NoChanges
      BY <1>3, <1>5, DownNothing
    <3> QED BY <1>1, <1>3, <2>1, <2>2, <3>1 DEF Downs, Down
  <2>3. CASE d # c
    BY <1>1, <1>3, <2>1, <2>3, SameDown
  <2> QED BY <2>2, <2>3
<1>8. last_sync[c] > 0
  BY <1>5, SyncParts
<1>9. Joined' = Joined /\ Starting' = Starting /\ Echoing' = Echoing
  BY <1>1, <1>3, <1>5, <1>8 DEF Joined, Starting, Echoing
<1>10. CoreNow'
  BY <1>1, <1>2, <1>7, <1>9, CoreSame
<1> QED BY <1>4, <1>6, <1>10

\* A client that has all joins; for another nothing changes.
LEMMA StampCalm ==
  ASSUME Calm, NEW c \in Client, Stamp(c)
  PROVE  Recs' /\ Forms' /\ CoreNow'
<1>1. /\ last_sync' = [last_sync EXCEPT ![c] = server_stamp] /\ at' = [at EXCEPT ![c] = "drain"]
      /\ at[c] = "stamp" /\ UNCHANGED <<tree, queue, journal, bag, want>>
  BY DEF Stamp, Goto
<1>2. /\ \A d \in Client : FormOf(d)
      /\ CoreNow /\ DOMAIN at = Client /\ DOMAIN last_sync = Client
      /\ server_stamp = Len(journal) + 1 /\ Len(journal) \in Nat
  BY CalmFacts
<1>3. /\ at'[c] = "drain" /\ last_sync'[c] > 0 /\ last_sync'[c] # 0
      /\ \A d \in Client : d # c => at'[d] = at[d] /\ last_sync'[d] = last_sync[d]
  BY <1>1, <1>2
<1>4. Recs'
  BY <1>1 DEF Recs, Calm
<1>5. Forms'
  <2>1. FormOf(c)'
    BY <1>1, <1>2, <1>3 DEF FormOf
  <2>2. \A d \in Client : d # c => FormOf(d)'
    BY <1>1, <1>2, <1>3 DEF FormOf
  <2> QED BY <2>1, <2>2 DEF Forms
<1>6. ASSUME NEW d \in Client PROVE Ups'[d] = Ups[d] /\ Downs'[d] = Downs[d]
  BY <1>1, <1>3 DEF Ups, Up, Downs, Down
<1>7. Ups' = Ups /\ Downs' = Downs
  BY <1>6 DEF Ups, Downs
<1>8. Joined' = Joined \cup {c} /\ Starting' = Starting /\ Echoing' = Echoing
  BY <1>1, <1>3 DEF Joined, Starting, Echoing
<1>9. Core(tree, want, Ups, Downs, Joined, Starting, Echoing)
  BY <1>2 DEF CoreNow
<1>10. Core(tree, want, Ups, Downs, Joined \cup {c}, Starting, Echoing)
  <2>1. CASE c \in Joined
    <3>1. Joined \cup {c} = Joined
      BY <2>1
    <3> QED BY <1>9, <3>1
  <2>2. CASE c \notin Joined
    <3>1. last_sync[c] = 0
      BY <2>2, SyncParts
    <3>2. tree[c] = tree[Server]
      BY <1>1, <1>2, <3>1 DEF FormOf
    <3>3. c \notin Starting
      BY <1>1 DEF Starting
    <3> QED BY <1>9, <2>2, <3>2, <3>3, CoreJoin
  <2> QED BY <2>1, <2>2
<1>11. Core(tree', want', Ups', Downs', Joined', Starting', Echoing')
  BY <1>1, <1>7, <1>8, <1>10
<1> QED BY <1>4, <1>5, <1>11 DEF CoreNow

\* What is drained is what was recorded; an echo ends when there is none.
LEMMA DrainCalm ==
  ASSUME Calm, NEW c \in Client, Drain(c)
  PROVE  Recs' /\ Forms' /\ CoreNow'
<1>1. /\ \A d \in Client : FormOf(d) /\ CoversOf(d)
      /\ CoreNow /\ DOMAIN at = Client /\ DOMAIN bag = Client /\ DOMAIN queue = Machine
      /\ queue \in [Machine -> Seq(RecOp)] /\ journal \in Seq(Seq(RecOp))
      /\ server_stamp = Len(journal) + 1 /\ Len(journal) \in Nat
      /\ Client \subseteq Machine /\ Server \in Machine /\ Server \notin Client
  BY CalmFacts DEF Calm, Recs
<1>2. at[c] = "drain"
  BY <1>1 DEF Drain, FormOf
<1>3. /\ bag' = [bag EXCEPT ![c] = Merge(queue[c])] /\ queue' = [queue EXCEPT ![c] = <<>>]
      /\ at' = [at EXCEPT ![c] = IF bag'[c] = NoChanges THEN "idle" ELSE "push"]
      /\ UNCHANGED <<tree, journal, last_sync, want>>
  BY <1>2 DEF Drain, Goto
<1>4. /\ bag'[c] = Merge(queue[c]) /\ queue'[c] = <<>> /\ queue'[Server] = queue[Server]
      /\ at'[c] = IF bag'[c] = NoChanges THEN "idle" ELSE "push"
      /\ \A d \in Client : d # c => at'[d] = at[d] /\ bag'[d] = bag[d] /\ queue'[d] = queue[d]
  BY <1>1, <1>3
<1>5. last_sync[c] = Len(journal) + 1 /\ queue[Server] = <<>> /\ last_sync[c] # 0
  BY <1>1, <1>2 DEF CoversOf
<1>6. Recs'
  <2>1. <<>> \in Seq(RecOp)
    BY EmptySeq
  <2> QED BY <1>1, <1>3, <2>1 DEF Recs
<1>7. Forms'
  <2>1. FormOf(c)'
    BY <1>3, <1>4, <1>5 DEF FormOf
  <2>2. \A d \in Client : d # c => FormOf(d)'
    BY <1>1, <1>3, <1>4 DEF FormOf
  <2> QED BY <2>1, <2>2 DEF Forms
<1>8. Ups'[c] = Ups[c]
  BY <1>2, <1>4, MergeEmpty DEF Ups, Up
<1>9. Downs'[c] = Downs[c]
  <2>1. ToPull(journal, last_sync[c], queue[Server]) = NoChanges
    BY <1>5, DownNothing
  <2> QED BY <1>2, <1>3, <1>4, <2>1 DEF Downs, Down
<1>10. ASSUME NEW d \in Client PROVE Ups'[d] = Ups[d] /\ Downs'[d] = Downs[d]
  BY <1>3, <1>4, <1>8, <1>9, SameUp, SameDown
<1>11. Joined' = Joined /\ Starting' = Starting
  BY <1>2, <1>3, <1>4, <1>5 DEF Joined, Starting
<1>12. ASSUME NEW d \in Client, d \in Echoing, d \notin Echoing' PROVE Ups[d] = NoChanges
  <2>1. d = c
    BY <1>4, <1>12 DEF Echoing
  <2>2. at'[c] # "push"
    BY <1>12, <2>1 DEF Echoing
  <2>3. Merge(queue[c]) = NoChanges
    BY <1>4, <2>2
  <2> QED BY <1>2, <2>1, <2>3 DEF Ups, Up
<1>13. tree' = tree /\ want' = want
  BY <1>3
<1>14. CoreNow'
  BY <1>1, <1>10, <1>11, <1>12, <1>13, CoreSame
<1> QED BY <1>6, <1>7, <1>14

\* A pull changes nothing: what it asks for is what is to be pulled.
LEMMA PullCalm ==
  ASSUME Calm, OneUpdate, NEW c \in Client, Pull(c)
  PROVE  Recs' /\ Forms' /\ CoreNow'
<1>1. /\ \A d \in Client : FormOf(d) /\ CoversOf(d)
      /\ CoreNow /\ DOMAIN at = Client /\ DOMAIN bag = Client
      /\ server_stamp = Len(journal) + 1 /\ Len(journal) \in Nat
  BY CalmFacts
<1>2. at[c] = "idle" /\ queue[Server] = <<>> /\ UNCHANGED <<tree, queue, journal, last_sync, want>>
  BY DEF Pull, MayPull, OneUpdate
<1>3. \/ last_sync[c] = Len(journal) + 1 /\ at' = [at EXCEPT ![c] = "drain"] /\ bag' = bag
      \/ last_sync[c] = 0 /\ at' = [at EXCEPT ![c] = "all"] /\ bag' = bag
      \/ last_sync[c] # 0 /\ at' = [at EXCEPT ![c] = "patch"]
         /\ \E b : bag' = [bag EXCEPT ![c] = b]
  BY <1>1 DEF Pull, Goto
<1>4. /\ \A d \in Client : d # c => at'[d] = at[d] /\ bag'[d] = bag[d]
      /\ \/ last_sync[c] = Len(journal) + 1 /\ at'[c] = "drain" /\ bag'[c] = bag[c]
         \/ last_sync[c] = 0 /\ at'[c] = "all" /\ bag'[c] = bag[c]
         \/ last_sync[c] # 0 /\ at'[c] = "patch"
  BY <1>1, <1>3
<1>5. Recs'
  BY <1>2 DEF Recs, Calm
<1>6. last_sync[c] > 0 <=> last_sync[c] # 0
  BY SyncParts
<1>7. Forms'
  <2>1. FormOf(c)'
    BY <1>1, <1>2, <1>4 DEF FormOf
  <2>2. \A d \in Client : d # c => FormOf(d)'
    BY <1>1, <1>2, <1>4 DEF FormOf
  <2> QED BY <2>1, <2>2 DEF Forms
<1>8. Ups'[c] = Ups[c]
  BY <1>2, <1>4 DEF Ups, Up
<1>9. Downs'[c] = Downs[c]
  <2>1. CASE at'[c] = "drain"
    <3>1. last_sync[c] = Len(journal) + 1
      BY <1>4, <2>1
    <3>2. ToPull(journal, last_sync[c], queue[Server]) = NoChanges
      BY <1>2, <3>1, DownNothing
    <3> QED BY <1>2, <2>1, <3>2 DEF Downs, Down
  <2>2. CASE at'[c] = "all"
    <3>1. last_sync[c] = 0
      BY <1>4, <2>2
    <3> QED BY <1>2, <1>6, <2>2, <3>1 DEF Downs, Down
  <2>3. CASE at'[c] = "patch"
    BY <1>2, <2>3 DEF Downs, Down
  <2> QED BY <1>4, <2>1, <2>2, <2>3
<1>10. ASSUME NEW d \in Client PROVE Ups'[d] = Ups[d] /\ Downs'[d] = Downs[d]
  BY <1>2, <1>4, <1>8, <1>9, SameUp, SameDown
<1>11. Joined' = Joined /\ Starting' = Starting
  <2>1. Joined' = Joined
    BY <1>2 DEF Joined
  <2>2. \A d \in Client : d \in Starting' <=> d \in Starting
    BY <1>1, <1>2, <1>4 DEF Starting
  <2>3. Starting' \subseteq Client /\ Starting \subseteq Client
    BY DEF Starting
  <2> QED BY <2>1, <2>2, <2>3
<1>12. \A d \in Client : d \in Echoing => d \in Echoing'
  BY <1>2, <1>4 DEF Echoing
<1>13. CoreNow'
  BY <1>1, <1>2, <1>10, <1>11, <1>12, CoreSame
<1> QED BY <1>5, <1>7, <1>13

\* sendAllData, by the fields of what it sends.
LEMMA AllIs ==
  ASSUME NEW f, NEW d
  PROVE  [NoChanges EXCEPT !.newDirs = d, !.newFiles = f]
           = [newFiles |-> f, deleteFiles |-> {}, newDirs |-> d, deleteDirs |-> {}, renameDirs |-> {}]
<1>1. [NoChanges EXCEPT !.newDirs = d]
        = [newFiles |-> {}, deleteFiles |-> {}, newDirs |-> d, deleteDirs |-> {}, renameDirs |-> {}]
  BY DEF NoChanges
<1> DEFINE b == [NoChanges EXCEPT !.newDirs = d]
<1>2. [b EXCEPT !.newFiles = f]
        = [newFiles |-> f, deleteFiles |-> {}, newDirs |-> d, deleteDirs |-> {}, renameDirs |-> {}]
  <2> HIDE DEF b
  <2>1. b = [newFiles |-> {}, deleteFiles |-> {}, newDirs |-> d, deleteDirs |-> {}, renameDirs |-> {}]
    BY <1>1 DEF b
  <2> QED BY <2>1
<1> QED BY <1>2

\* sendAllData makes of a client that starts what the server has.
LEMMA DownloadAllCalm ==
  ASSUME Calm, NEW c \in Client, DownloadAll(c)
  PROVE  Recs' /\ Forms' /\ CoreNow'
<1> DEFINE dirs == {p \in Path : tree[Server][p] \in {Dir}}
           files == {p \in Path : tree[Server][p] \in Content}
           all == [NoChanges EXCEPT !.newDirs = dirs, !.newFiles = files]
<1>1. /\ at[c] = "all"
      /\ tree' = [tree EXCEPT ![c] = Received(tree[Server], tree[c], all, {}).tree]
      /\ at' = [at EXCEPT ![c] = "stamp"]
      /\ UNCHANGED <<queue, journal, last_sync, bag, want>>
  BY DEF DownloadAll, Goto
<1>2. /\ \A d \in Client : FormOf(d)
      /\ CoreNow /\ DOMAIN at = Client /\ DOMAIN tree = Machine
      /\ Client \subseteq Machine /\ Server \in Machine /\ Server \notin Client
      /\ IsTree(tree[Server]) /\ IsTree(tree[c])
  BY CalmFacts
<1>3. last_sync[c] = 0 /\ c \in Starting
  BY <1>1, <1>2 DEF FormOf, Starting
<1>4. Received(tree[Server], tree[c], all, {}).tree = tree[Server]
  <2>1. all = [newFiles |-> files, deleteFiles |-> {}, newDirs |-> dirs, deleteDirs |-> {}, renameDirs |-> {}]
    BY AllIs
  <2>2. files \in SUBSET Path /\ dirs \in SUBSET Path /\ {} \in SUBSET Path
    OBVIOUS
  <2> HIDE DEF all
  <2>3. all \in Plain
    <3> HIDE DEF files, dirs
    <3> QED BY <2>1, <2>2, MakePlain
  <2>4. all.newFiles = files /\ all.deleteFiles = {} /\ all.newDirs = dirs /\ all.deleteDirs = {}
    BY <2>1
  <2>5. Tells(all, tree[Server])
    BY <2>4 DEF Tells
  <2>6. Core(tree, want, Ups, Downs, Joined, Starting, Echoing)
    BY <1>2 DEF CoreNow
  <2>7. \A p \in Path : Fits(tree[c], tree[Server], p)
    BY <1>3, <2>6 DEF Core, Fresh
  <2>8. \A p \in Path : tree[Server][p] \in Content \cup {Dir, None}
    BY <1>2, TreeIs
  <2>9. \A p \in Path : Explains(all, tree[Server], tree[c], p)
    <3> TAKE p \in Path
    <3>1. /\ tree[c][p] \in {None, tree[Server][p]} \/ (tree[c][p] \in Content /\ tree[Server][p] \in Content)
          /\ tree[Server][p] \in Content \cup {Dir, None}
      BY <2>7, <2>8 DEF Fits
    <3>2. tree[Server][p] \in Content => p \in all.newFiles
      BY <2>4
    <3>3. tree[Server][p] = Dir => p \in all.newDirs
      BY <2>4
    <3>4. tree[c][p] # tree[Server][p] => tree[c][p] = None \/ (tree[c][p] \in Content /\ tree[Server][p] \in Content)
      BY <3>1
    <3> QED BY <3>2, <3>3, <3>4, Nodes DEF Explains
  <2>10. \A p \in all.newFiles : tree[Server][p] = tree[Server][p]
    OBVIOUS
  <2> QED BY <1>2, <2>3, <2>5, <2>9, <2>10, Transfer
<1> HIDE DEF all
<1>5. /\ tree'[c] = tree[Server] /\ at'[c] = "stamp"
      /\ \A d \in Client : d # c => at'[d] = at[d]
      /\ \A m \in Machine : m # c => tree'[m] = tree[m]
  BY <1>1, <1>2, <1>4
<1>6. Recs'
  BY <1>1 DEF Recs, Calm
<1>7. Forms'
  <2>1. FormOf(c)'
    BY <1>1, <1>2, <1>3, <1>5 DEF FormOf
  <2>2. \A d \in Client : d # c => FormOf(d)'
    BY <1>1, <1>2, <1>5 DEF FormOf
  <2> QED BY <2>1, <2>2 DEF Forms
<1>8. last_sync[c] > 0 <=> last_sync[c] # 0
  BY SyncParts
<1>9. ASSUME NEW d \in Client PROVE Ups'[d] = Ups[d] /\ Downs'[d] = Downs[d]
  BY <1>1, <1>3, <1>5, <1>8 DEF Ups, Up, Downs, Down
<1>10. Ups' = Ups /\ Downs' = Downs
  BY <1>9 DEF Ups, Downs
<1>11. Joined' = Joined /\ Starting' = Starting \ {c} /\ Echoing' = Echoing \cup {c}
  BY <1>1, <1>5 DEF Joined, Starting, Echoing
<1>12. Core(tree, want, Ups, Downs, Joined, Starting, Echoing)
  BY <1>2 DEF CoreNow
<1>13. \A m \in Machine : tree'[m] = IF m = c THEN tree[Server] ELSE tree[m]
  BY <1>5
<1>14. Core(tree', want, Ups, Downs, Joined, Starting \ {c}, Echoing \cup {c})
  BY <1>3, <1>12, <1>13, CoreDownload
<1>15. Core(tree', want', Ups', Downs', Joined', Starting', Echoing')
  BY <1>1, <1>10, <1>11, <1>14
<1> QED BY <1>6, <1>7, <1>15 DEF CoreNow

\* A client that starts again has nothing to push and nothing that is gone.
LEMMA RestartCalm ==
  ASSUME Calm, Meeting = {}, NEW c \in Client, Restart(c)
  PROVE  Recs' /\ Forms' /\ CoreNow'
<1>1. /\ at[c] \in {"idle", "offline"} /\ queue[c] = <<>> /\ Compatible(c)
      /\ last_sync' = [last_sync EXCEPT ![c] = 0] /\ queue' = [queue EXCEPT ![c] = <<>>]
      /\ bag' = [bag EXCEPT ![c] = NoChanges] /\ at' = [at EXCEPT ![c] = "idle"]
      /\ UNCHANGED <<tree, journal, want>>
  BY DEF Restart, Goto
<1>2. /\ \A d \in Client : FormOf(d)
      /\ CoreNow /\ DOMAIN at = Client /\ DOMAIN bag = Client /\ DOMAIN queue = Machine
      /\ DOMAIN last_sync = Client
      /\ Client \subseteq Machine /\ Server \in Machine /\ Server \notin Client
      /\ queue \in [Machine -> Seq(RecOp)]
  BY CalmFacts DEF Calm, Recs
<1>3. /\ queue' = queue /\ last_sync'[c] = 0 /\ bag'[c] = NoChanges /\ at'[c] = "idle"
      /\ \A d \in Client : d # c => at'[d] = at[d] /\ bag'[d] = bag[d] /\ last_sync'[d] = last_sync[d]
  BY <1>1, <1>2
<1>4. Recs'
  BY <1>1, <1>3 DEF Recs, Calm
<1>5. Forms'
  <2>1. FormOf(c)'
    BY <1>1, <1>3 DEF FormOf
  <2>2. \A d \in Client : d # c => FormOf(d)'
    BY <1>1, <1>2, <1>3 DEF FormOf
  <2> QED BY <2>1, <2>2 DEF Forms
<1>6. Ups[c] = NoChanges /\ Ups'[c] = NoChanges
  BY <1>1, <1>3, MergeEmpty DEF Ups, Up
<1>7. ASSUME NEW d \in Client PROVE Ups'[d] = Ups[d]
  BY <1>3, <1>6, SameUp
<1>8. Ups' = Ups
  BY <1>7 DEF Ups
<1>9. ASSUME NEW d \in Client PROVE Downs'[d] = IF d = c THEN NoChanges ELSE Downs[d]
  <2>1. CASE d = c
    BY <1>3, <2>1 DEF Downs, Down
  <2>2. CASE d # c
    <3>1. at'[d] = at[d] /\ last_sync'[d] = last_sync[d] /\ journal' = journal /\ queue'[Server] = queue[Server]
      BY <1>1, <1>3, <2>2
    <3> QED BY <2>2, <3>1, SameDown
  <2> QED BY <2>1, <2>2
<1>10. Joined' = Joined \ {c} /\ Starting' = Starting \cup {c} /\ Echoing' = Echoing
  BY <1>1, <1>3 DEF Joined, Starting, Echoing
<1>11. Core(tree, want, Ups, Downs, Joined, Starting, Echoing)
  BY <1>2 DEF CoreNow
<1>12. \A p \in Path : Fits(tree[c], tree[Server], p) /\ Fits(tree[c], want, p)
  BY <1>1 DEF Compatible, Fits, IsFile
<1>13. Core(tree, want, Ups, Downs', Joined \ {c}, Starting \cup {c}, Echoing)
  BY <1>6, <1>9, <1>11, <1>12, CoreLeave
<1>14. Core(tree', want', Ups', Downs', Joined', Starting', Echoing')
  BY <1>1, <1>8, <1>10, <1>13
<1> QED BY <1>4, <1>5, <1>14 DEF CoreNow

\* A server that starts again loses its clients, none of which has anything to push.
LEMMA ServerRestartCalm ==
  ASSUME Calm, Meeting = {}, ServerRestart
  PROVE  Recs' /\ Forms' /\ CoreNow'
<1>1. /\ \A m \in Machine : queue[m] = <<>>
      /\ \A c \in Client : ~Busy(c)
      /\ queue' = [queue EXCEPT ![Server] = <<>>]
      /\ at' = [c \in Client |-> "offline"] /\ bag' = [c \in Client |-> NoChanges]
      /\ last_sync' = [c \in Client |-> 0]
      /\ UNCHANGED <<tree, journal, want>>
  BY DEF ServerRestart
<1>2. /\ CoreNow /\ DOMAIN queue = Machine
      /\ Client \subseteq Machine /\ Server \in Machine /\ Server \notin Client
      /\ queue \in [Machine -> Seq(RecOp)]
  BY CalmFacts DEF Calm, Recs
<1>3. queue' = queue
  BY <1>1, <1>2
<1>4. Recs'
  BY <1>1, <1>3 DEF Recs, Calm
<1>5. Forms'
  BY <1>1, <1>2, <1>3 DEF Forms, FormOf
<1>6. ASSUME NEW c \in Client PROVE Ups[c] = NoChanges /\ Ups'[c] = NoChanges /\ Downs'[c] = NoChanges
  BY <1>1, <1>2, <1>3, MergeEmpty DEF Ups, Up, Downs, Down, Busy
<1>7. Ups' = Ups
  BY <1>6 DEF Ups
<1>8. Joined' = {} /\ Starting' = {} /\ Echoing' = {}
  BY <1>1 DEF Joined, Starting, Echoing
<1>9. Core(tree, want, Ups, Downs, Joined, Starting, Echoing)
  BY <1>2 DEF CoreNow
<1>10. Core(tree, want, Ups, Downs', {}, {}, {})
  BY <1>6, <1>9, CoreLost
<1>11. Core(tree', want', Ups', Downs', Joined', Starting', Echoing')
  BY <1>1, <1>7, <1>8, <1>10
<1> QED BY <1>4, <1>5, <1>11 DEF CoreNow

\* What a change set deletes of what is there is not what it brings.
LEMMA DropsApart ==
  ASSUME NEW b \in Plain, NEW t, Tells(b, t), NEW r
  PROVE  /\ Drops(b, r) \in SUBSET Path /\ Adds(b, r) \in SUBSET Path /\ Clears(b, r) \in SUBSET Path
         /\ b.newFiles \in SUBSET Path
         /\ b.newFiles \cap Drops(b, r) = {} /\ {} \cap Drops(b, r) = {} /\ Adds(b, r) \cap Clears(b, r) = {}
<1>1. /\ b.newFiles \subseteq Path /\ b.deleteFiles \subseteq Path /\ b.newDirs \subseteq Path
      /\ b.deleteDirs \subseteq Path
  BY PlainIs
<1> QED BY <1>1 DEF Drops, Adds, Clears, Tells

\* The patch is what is to be pulled.
LEMMA PatchCalm ==
  ASSUME Calm, NEW c \in Client, Patch(c)
  PROVE  Recs' /\ Forms' /\ CoreNow'
<1> DEFINE D == Downs[c]  U == Ups[c]  s == tree[Server]
           M == Blend(tree[c], s, U)
           G == Drops(D, tree[c])  K == Adds(D, tree[c])  R == Clears(D, tree[c])
           done == Doings({}, G, K, R)
<1>1. /\ \A d \in Client : FormOf(d) /\ CoversOf(d)
      /\ CoreNow /\ DOMAIN at = Client /\ DOMAIN tree = Machine /\ DOMAIN bag = Client
      /\ DOMAIN queue = Machine
      /\ Client \subseteq Machine /\ Server \in Machine /\ Server \notin Client
      /\ IsTree(tree[Server]) /\ IsTree(tree[c]) /\ queue[c] \in Seq(RecOp)
      /\ journal \in Seq(Seq(RecOp)) /\ queue \in [Machine -> Seq(RecOp)]
      /\ \A d \in Client : at[d] \in Before => queue[Server] = <<>>
  BY CalmFacts DEF Calm, Recs
<1>2. at[c] = "patch"
  BY DEF Patch
<1>3. c \in Joined /\ last_sync[c] > 0 /\ last_sync[c] # 0
  BY <1>1, <1>2, SyncParts DEF FormOf
<1>4. queue[Server] = <<>>
  BY <1>1, <1>2 DEF Before
<1>5. bag[c] = D
  <2>1. bag[c] = Merge(FlattenSeq(SubSeq(journal, last_sync[c], Len(journal))))
    BY <1>1, <1>2 DEF CoversOf
  <2>2. last_sync[c] \in 1..(Len(journal) + 1)
    BY <1>3, SyncParts
  <2> DEFINE f == FlattenSeq(SubSeq(journal, last_sync[c], Len(journal)))
  <2>3. f \in Seq(RecOp)
    <3>1. SubSeq(journal, last_sync[c], Len(journal)) \in Seq(Seq(RecOp))
      <4>1. <<>> \in Seq(RecOp)
        BY EmptySeq
      <4> QED BY <1>1, <2>2, <4>1, SubSeqAppend
    <3> QED BY <3>1, FlatRecords
  <2>4. ToPull(journal, last_sync[c], queue[Server]) = Merge(f \o queue[Server])
    BY DEF ToPull
  <2> HIDE DEF f
  <2>5. f \o <<>> = f
    BY <2>3, ConcatEmptySeq
  <2>6. D = ToPull(journal, last_sync[c], queue[Server])
    BY <1>2, <1>3 DEF Downs, Down
  <2> QED BY <1>4, <2>1, <2>4, <2>5, <2>6 DEF f
<1>6. Core(tree, want, Ups, Downs, Joined, Starting, Echoing)
  BY <1>1 DEF CoreNow
<1>7. /\ IsTree(M) /\ Tells(D, M)
      /\ \A p \in Path : Explains(D, M, tree[c], p)
      /\ \A p \in D.newFiles : s[p] = M[p]
  BY <1>3, <1>6, BlendIs
<1>8. D \in Plain /\ Tells(D, s)
  BY <1>6 DEF Core, Typed, Truth
<1> HIDE DEF M
<1>9. Received(s, tree[c], D, {}).tree = M /\ Received(s, tree[c], D, {}).done = done
  <2> DEFINE r == tree[c]  e == {}
  <2> HIDE DEF D, U, s, e
  <2>1. IsTree(r) /\ IsTree(M) /\ Tells(D, M) /\ (\A p \in Path : Explains(D, M, r, p))
        /\ (\A p \in D.newFiles : s[p] = M[p]) /\ D \in Plain
    BY <1>1, <1>7, <1>8 DEF s
  <2> HIDE DEF r
  <2>2. Received(s, r, D, e).tree = M
    BY <2>1, Transfer
  <2>3. Received(s, r, D, e).done = Doings(e, Drops(D, r), Adds(D, r), Clears(D, r))
    BY <2>1, Transfer
  <2> QED BY <2>2, <2>3 DEF r, e, G, K, R, done
<1>10. Sendable(s, D)
  <2>1. D.newFiles \subseteq Path
    BY <1>8, PlainIs
  <2> QED BY <1>8, <2>1 DEF Sendable, IsFile, Tells
<1>11. /\ G \in SUBSET Path /\ K \in SUBSET Path /\ R \in SUBSET Path
       /\ {} \cap G = {} /\ K \cap R = {} /\ {} \in SUBSET Path
  BY <1>8, DropsApart
<1>12. /\ tree' = [tree EXCEPT ![c] = M] /\ queue' = [queue EXCEPT ![c] = queue[c] \o done]
       /\ bag' = [bag EXCEPT ![c] = NoChanges] /\ at' = [at EXCEPT ![c] = "stamp"]
       /\ UNCHANGED <<journal, last_sync, want>>
  <2> HIDE DEF D, done
  <2> QED BY <1>5, <1>9, <1>10 DEF Patch, Goto
<1> HIDE DEF D, U, G, K, R
<1>13. done \in Seq(RecOp) /\ queue[c] \o done \in Seq(RecOp)
  <2>1. done \in Seq(RecOp)
    BY <1>11, DoneRecs
  <2> HIDE DEF done
  <2> QED BY <1>1, <2>1, Concat
<1>14. Merge(queue[c] \o done) = Changed(Merge(queue[c]), {}, G, K, R)
  <2> DEFINE q == queue[c]  e == {}
  <2>1. q \in Seq(RecOp)
    BY <1>1
  <2>2. /\ G \in SUBSET Path /\ K \in SUBSET Path /\ R \in SUBSET Path
        /\ e \cap G = {} /\ K \cap R = {} /\ e \in SUBSET Path
    BY <1>11
  <2> HIDE DEF q, e
  <2>3. Merge(q \o Doings(e, G, K, R)) = Changed(Merge(q), e, G, K, R)
    BY <2>1, <2>2, DoneMerged
  <2> QED BY <2>3 DEF q, e, done
<1> HIDE DEF done
<1>15. /\ tree'[c] = M /\ queue'[c] = queue[c] \o done /\ bag'[c] = NoChanges /\ at'[c] = "stamp"
       /\ queue'[Server] = queue[Server]
       /\ \A d \in Client : d # c => at'[d] = at[d] /\ bag'[d] = bag[d] /\ queue'[d] = queue[d]
       /\ \A m \in Machine : m # c => tree'[m] = tree[m]
  BY <1>1, <1>12
<1>16. Recs'
  BY <1>1, <1>12, <1>13 DEF Recs
<1>17. Forms'
  <2>1. FormOf(c)'
    BY <1>1, <1>3, <1>12, <1>15 DEF FormOf
  <2>2. \A d \in Client : d # c => FormOf(d)'
    BY <1>1, <1>12, <1>15 DEF FormOf
  <2> QED BY <2>1, <2>2 DEF Forms
<1>18. Ups'[c] = Changed(U, {}, G, K, R) /\ Downs'[c] = NoChanges
  <2>1. U = Merge(queue[c])
    BY <1>2 DEF U, Ups, Up
  <2>2. Ups'[c] = Merge(queue[c] \o done)
    BY <1>15 DEF Ups, Up
  <2>3. Downs'[c] = NoChanges
    BY <1>15 DEF Downs, Down
  <2> QED BY <1>14, <2>1, <2>2, <2>3
<1>19. \A d \in Client : Ups'[d] = IF d = c THEN Changed(Ups[c], {}, Drops(Downs[c], tree[c]), Adds(Downs[c], tree[c]), Clears(Downs[c], tree[c]))
                                  ELSE Ups[d]
  BY <1>15, <1>18, SameUp DEF U, G, K, R, D
<1>20. \A d \in Client : Downs'[d] = IF d = c THEN NoChanges ELSE Downs[d]
  BY <1>12, <1>15, <1>18, SameDown
<1>21. \A m \in Machine : tree'[m] = IF m = c THEN Blend(tree[c], tree[Server], Ups[c]) ELSE tree[m]
  BY <1>15 DEF M, U
<1>22. Core(tree', want, Ups', Downs', Joined, Starting, Echoing \cup {c})
  BY <1>3, <1>6, <1>19, <1>20, <1>21, CorePatch
<1>23. Joined' = Joined /\ Starting' = Starting /\ Echoing' = Echoing \cup {c}
  BY <1>2, <1>12, <1>15 DEF Joined, Starting, Echoing
<1>24. Core(tree', want', Ups', Downs', Joined', Starting', Echoing')
  BY <1>12, <1>22, <1>23
<1> QED BY <1>16, <1>17, <1>24 DEF CoreNow

\* The push makes of the server what the client has, and others have to pull what it did.
LEMMA PushCalm ==
  ASSUME Calm, NEW c \in Client, Push(c)
  PROVE  Recs' /\ Forms' /\ CoreNow'
<1> DEFINE U == Ups[c]  s == tree[Server]  t == tree[c]
           A == U.newFiles  G == Drops(U, s)  K == Adds(U, s)  R == Clears(U, s)
           done == Doings(A, G, K, R)
<1>1. /\ \A d \in Client : FormOf(d) /\ CoversOf(d)
      /\ CoreNow /\ DOMAIN at = Client /\ DOMAIN tree = Machine /\ DOMAIN bag = Client
      /\ DOMAIN queue = Machine
      /\ Client \subseteq Machine /\ Server \in Machine /\ Server \notin Client
      /\ IsTree(tree[Server]) /\ IsTree(tree[c]) /\ queue[Server] \in Seq(RecOp)
      /\ journal \in Seq(Seq(RecOp)) /\ queue \in [Machine -> Seq(RecOp)]
      /\ \A d, x \in Client : Busy(d) /\ Busy(x) => d = x
  BY CalmFacts DEF Calm, Recs
<1>2. at[c] = "push"
  BY DEF Push
<1>3. c \in Joined /\ last_sync[c] > 0 /\ last_sync[c] # 0
  BY <1>1, <1>2, SyncParts DEF FormOf
<1>4. queue[c] = <<>> /\ bag[c] = U /\ Downs[c] = NoChanges
  BY <1>1, <1>2 DEF FormOf, Ups, Up, Downs, Down
<1>5. Core(tree, want, Ups, Downs, Joined, Starting, Echoing)
  BY <1>1 DEF CoreNow
<1>6. U \in Plain /\ Tells(U, t)
  BY <1>5 DEF Core, Typed, Truth
<1>7. \A p \in Path : Explains(U, t, s, p)
  <2> TAKE p \in Path
  <2>1. CASE p \in BagPaths(U)
    BY <1>3, <1>5, <2>1 DEF Core, Explained
  <2>2. CASE p \notin BagPaths(U)
    <3>1. Explains(NoChanges, s, t, p)
      BY <1>3, <1>4, <1>5, <2>2 DEF Core, Explained
    <3>2. NoChanges \in Plain /\ p \notin BagPaths(NoChanges)
      BY NoChangesIs
    <3>3. s[p] = t[p]
      BY <1>1, <3>1, <3>2, SameOff
    <3> QED BY <3>3, NoneExplains
  <2> QED BY <2>1, <2>2
<1>8. /\ A \in SUBSET Path /\ G \in SUBSET Path /\ K \in SUBSET Path /\ R \in SUBSET Path
      /\ A \cap G = {} /\ K \cap R = {}
  BY <1>6, DropsApart
<1>9. Received(t, s, U, A).tree = t /\ Received(t, s, U, A).done = done
  <2> DEFINE r == tree[c]
  <2>1. IsTree(s) /\ IsTree(r) /\ Tells(U, r) /\ (\A p \in Path : Explains(U, r, s, p))
        /\ (\A p \in U.newFiles : r[p] = r[p]) /\ U \in Plain
    BY <1>1, <1>6, <1>7
  <2> HIDE DEF U, s, r, A
  <2>2. Received(r, s, U, A).tree = r
    BY <2>1, Transfer
  <2>3. Received(r, s, U, A).done = Doings(A, Drops(U, s), Adds(U, s), Clears(U, s))
    BY <2>1, Transfer
  <2> QED BY <2>2, <2>3 DEF r, G, K, R, done
<1>10. Sendable(t, U)
  <2>1. U.newFiles \subseteq Path
    BY <1>6, PlainIs
  <2> QED BY <1>6, <2>1 DEF Sendable, IsFile, Tells
<1>11. /\ tree' = [tree EXCEPT ![Server] = t] /\ queue' = [queue EXCEPT ![Server] = queue[Server] \o done]
       /\ bag' = [bag EXCEPT ![c] = NoChanges] /\ at' = [at EXCEPT ![c] = "stage"]
       /\ UNCHANGED <<journal, last_sync, want>>
  <2> HIDE DEF U, done
  <2> QED BY <1>4, <1>9, <1>10 DEF Push, Goto
<1> HIDE DEF U, A, G, K, R
<1>12. queue[Server] \o done \in Seq(RecOp)
  <2>1. done \in Seq(RecOp)
    BY <1>8, DoneRecs
  <2> HIDE DEF done
  <2> QED BY <1>1, <2>1, Concat
<1>13. ASSUME NEW n \in 1..(Len(journal) + 1)
       PROVE  ToPull(journal, n, queue[Server] \o done) = Changed(ToPull(journal, n, queue[Server]), A, G, K, R)
  <2> DEFINE q == queue[Server]
  <2>1. q \in Seq(RecOp) /\ journal \in Seq(Seq(RecOp))
    BY <1>1
  <2> HIDE DEF q
  <2>2. ToPull(journal, n, q \o Doings(A, G, K, R)) = Changed(ToPull(journal, n, q), A, G, K, R)
    BY <1>8, <2>1, PullDone
  <2> QED BY <2>2 DEF q
<1> HIDE DEF done
<1>14. /\ tree'[Server] = t /\ queue'[Server] = queue[Server] \o done /\ bag'[c] = NoChanges /\ at'[c] = "stage"
       /\ \A d \in Client : d # c => at'[d] = at[d] /\ bag'[d] = bag[d]
       /\ \A d \in Client : queue'[d] = queue[d]
       /\ \A m \in Machine : m # Server => tree'[m] = tree[m]
  BY <1>1, <1>11
<1>15. \A d \in Client : d # c => ~Busy(d)
  BY <1>1, <1>2 DEF Busy
<1>16. Recs'
  BY <1>1, <1>11, <1>12 DEF Recs
<1>17. Forms'
  <2>1. FormOf(c)'
    BY <1>1, <1>3, <1>11, <1>14 DEF FormOf
  <2>2. \A d \in Client : d # c => FormOf(d)'
    BY <1>1, <1>11, <1>14, <1>15 DEF FormOf, Busy
  <2> QED BY <2>1, <2>2 DEF Forms
<1>18. Ups'[c] = NoChanges
  BY <1>4, <1>14, MergeEmpty DEF Ups, Up
<1>19. \A d \in Client : Ups'[d] = IF d = c THEN NoChanges ELSE Ups[d]
  BY <1>14, <1>18, SameUp
<1>20. ASSUME NEW d \in Client
       PROVE  Downs'[d] = IF d \in Joined \ {c} THEN Changed(Downs[d], A, G, K, R) ELSE Downs[d]
  <2>1. last_sync[d] > 0 => last_sync[d] \in 1..(Len(journal) + 1)
    BY SyncParts
  <2>2. CASE d = c
    <3>1. Downs'[d] = NoChanges
      BY <1>14, <2>2 DEF Downs, Down
    <3> QED BY <1>4, <2>2, <3>1
  <2>3. CASE d # c /\ d \notin Joined
    <3>1. ~(last_sync[d] > 0) /\ last_sync'[d] = last_sync[d]
      BY <1>11, <2>3, SyncParts
    <3> QED BY <2>3, <3>1 DEF Downs, Down
  <2>4. CASE d # c /\ d \in Joined
    <3>1. last_sync[d] > 0 /\ last_sync[d] # 0 /\ last_sync'[d] = last_sync[d] /\ journal' = journal
      BY <1>11, <2>4, SyncParts
    <3>2. at[d] = "idle" /\ at'[d] = "idle"
      BY <1>1, <1>14, <1>15, <2>4, <3>1 DEF Busy, FormOf
    <3>3. Downs[d] = ToPull(journal, last_sync[d], queue[Server])
      BY <3>1, <3>2 DEF Downs, Down
    <3>4. Downs'[d] = ToPull(journal, last_sync[d], queue[Server] \o done)
      BY <1>14, <3>1, <3>2 DEF Downs, Down
    <3>5. ToPull(journal, last_sync[d], queue[Server] \o done) = Changed(ToPull(journal, last_sync[d], queue[Server]), A, G, K, R)
      BY <1>13, <2>1, <3>1
    <3> QED BY <2>4, <3>3, <3>4, <3>5
  <2> QED BY <2>2, <2>3, <2>4
<1>21. \A d \in Client : Downs'[d] = IF d \in Joined \ {c}
                                     THEN Changed(Downs[d], Ups[c].newFiles, Drops(Ups[c], tree[Server]),
                                                  Adds(Ups[c], tree[Server]), Clears(Ups[c], tree[Server]))
                                     ELSE Downs[d]
  BY <1>20 DEF A, G, K, R, U
<1>22. \A m \in Machine : tree'[m] = IF m = Server THEN tree[c] ELSE tree[m]
  BY <1>14
<1>23. Echoing \cap Client \subseteq {c}
  BY <1>15 DEF Echoing, Busy
<1>24. Core(tree', want, Ups', Downs', Joined, Starting, Echoing')
  BY <1>3, <1>4, <1>5, <1>19, <1>21, <1>22, <1>23, CorePush
<1>25. Joined' = Joined /\ Starting' = Starting
  BY <1>2, <1>11, <1>14 DEF Joined, Starting
<1>26. Core(tree', want', Ups', Downs', Joined', Starting', Echoing')
  BY <1>11, <1>24, <1>25
<1> QED BY <1>16, <1>17, <1>26 DEF CoreNow

-----------------------------------------------------------------------------
(* The operations of users *)

\* A call does the same to two trees that look the same around its paths.
LEMMA CallBoth ==
  ASSUME NEW t, IsTree(t), NEW w, IsTree(w), NEW o \in RecOp, Succeeds(t, o), NEW v \in Content,
         \A p \in PathsOf(o), q \in Path : Kin(p, q) => t[q] = w[q]
  PROVE  /\ Succeeds(w, o)
         /\ Done(t, Effect(t, o, v), w, Effect(w, o, v), FileAt(o), FileOff(o), DirAt(o), DirOff(o))
<1> DEFINE t2 == Effect(t, o, v)  w2 == Effect(w, o, v)
           A == FileAt(o)  G == FileOff(o)  K == DirAt(o)  R == DirOff(o)
<1>1. o \in FileOp
  BY DEF RecOp
<1>2. /\ A \in SUBSET Path /\ G \in SUBSET Path /\ K \in SUBSET Path /\ R \in SUBSET Path
      /\ PathsOf(o) = A \cup G \cup K \cup R
  BY <1>1, FileOpIs
<1>3. /\ \A p \in Path : t2[p] =
           IF p \in A THEN IF o.type = "RENAME" THEN t[o.path] ELSE v
           ELSE IF p \in K THEN Dir
           ELSE IF p \in G \cup R THEN None ELSE t[p]
      /\ \A p \in Path : /\ p \in A => t[p] # Dir
                         /\ p \in K => t[p] = None
      /\ Becomes(t, t2, A, G, K, R)
  BY <1>1, OpEffect
<1>4. /\ Succeeds(w, o)
      /\ \A p \in PathsOf(o) : w2[p] = t2[p]
      /\ \A p \in Path : p \notin PathsOf(o) => w2[p] = w[p]
  BY <1>1, SameCall
<1>5. \A p \in PathsOf(o) : p \in Path /\ w[p] = t[p]
  BY <1>2, KinIs
<1> HIDE DEF t2, w2, A, G, K, R
<1>6. \A p \in Path : IF p \in A \cup G \cup K \cup R THEN w2[p] = t2[p] /\ w[p] = t[p]
                      ELSE w2[p] = w[p] /\ t2[p] = t[p]
  <2> TAKE p \in Path
  <2>1. CASE p \in PathsOf(o)
    BY <1>2, <1>4, <1>5, <2>1
  <2>2. CASE p \notin PathsOf(o)
    BY <1>2, <1>3, <1>4, <2>2
  <2> QED BY <1>2, <2>1, <2>2
<1>7. Done(t, t2, w, w2, A, G, K, R)
  BY <1>2, <1>3, <1>6 DEF Done
<1> QED BY <1>4, <1>7 DEF t2, w2, A, G, K, R

\* What is recorded is what is merged.
LEMMA RecMerged ==
  ASSUME NEW s \in Seq(RecOp), NEW o \in RecOp
  PROVE  /\ Append(s, o) \in Seq(RecOp)
         /\ Merge(Append(s, o)) = Changed(Merge(s), FileAt(o), FileOff(o), DirAt(o), DirOff(o))
<1>1. Append(s, o) \in Seq(RecOp)
  BY AppendProperties
<1>2. Merge(Append(s, o)) = MergeOne(Merge(s), o)
  BY MergeAppend
<1>3. Merge(s) \in Plain
  BY MergeRecs
<1> QED BY <1>1, <1>2, <1>3, MergeOneRec

\* what of others is near the paths of an operation
LEMMA NotForeign ==
  ASSUME NEW o, NEW S, \A p \in PathsOf(o) : Related(p) \cap S = {},
         PathsOf(o) \subseteq Path, NEW B, B \subseteq S, B \subseteq Path
  PROVE  \A p \in PathsOf(o), q \in B : ~Kin(p, q)
BY KinIs

\* What is merged is about the paths of what is recorded, or of the push.
LEMMA UpPaths ==
  ASSUME Calm, NEW d \in Client
  PROVE  /\ BagPaths(Ups[d]) \subseteq Path
         /\ BagPaths(Ups[d]) \subseteq BagPaths(bag[d]) \cup UNION {PathsOf(o) : o \in ToSet(queue[d])}
<1>1. queue[d] \in Seq(RecOp) /\ CoreNow
  BY CalmFacts
<1>2. Ups[d] \in Plain
  BY <1>1 DEF CoreNow, Core, Typed
<1>3. BagPaths(Ups[d]) \subseteq Path
  BY <1>2, PlainIs
<1>4. at[d] = "push" => Ups[d] = bag[d]
  BY DEF Ups, Up
<1>5. at[d] # "push" => Ups[d] = Merge(queue[d])
  BY DEF Ups, Up
<1>6. BagPaths(Merge(queue[d])) = UNION {PathsOf(o) : o \in ToSet(queue[d])}
  BY <1>1, MergeRecs
<1> DEFINE B == BagPaths(Ups[d])  Q == UNION {PathsOf(o) : o \in ToSet(queue[d])}
<1>7. B = BagPaths(bag[d]) \/ B = Q
  BY <1>4, <1>5, <1>6
<1>8. B \subseteq BagPaths(bag[d]) \cup Q
  <2> HIDE DEF B, Q
  <2> QED BY <1>7
<1> QED BY <1>3, <1>8

\* What is to be pulled is about the paths of records that the client has not got.
LEMMA DownPaths ==
  ASSUME Calm, NEW c \in Client
  PROVE  /\ BagPaths(Downs[c]) \subseteq Path
         /\ \A p \in BagPaths(Downs[c]) : \E o \in Unseen(c) \cup ToSet(queue[Server]) : p \in PathsOf(o)
<1>1. queue[Server] \in Seq(RecOp) /\ journal \in Seq(Seq(RecOp)) /\ CoreNow
  BY CalmFacts
<1>2. Downs[c] \in Plain
  BY <1>1 DEF CoreNow, Core, Typed
<1>3. BagPaths(Downs[c]) \subseteq Path
  BY <1>2, PlainIs
<1>4. last_sync[c] > 0 => last_sync[c] \in 1..(Len(journal) + 1) /\ last_sync[c] # 0
  BY SyncParts
<1> DEFINE J == SubSeq(journal, last_sync[c], Len(journal))
<1>5. ASSUME NEW p \in BagPaths(Downs[c])
      PROVE  \E o \in Unseen(c) \cup ToSet(queue[Server]) : p \in PathsOf(o)
  <2>1. Downs[c] # NoChanges
    BY <1>5, NoChangesIs
  <2>2. Downs[c] = ToPull(journal, last_sync[c], queue[Server]) /\ last_sync[c] > 0
    BY <2>1 DEF Downs, Down
  <2>3. \E o \in Records(J) \cup ToSet(queue[Server]) : p \in PathsOf(o)
    BY <1>1, <1>4, <1>5, <2>2, PullFacts
  <2>4. Unseen(c) = Records(J)
    BY <1>4, <2>2 DEF Unseen
  <2> HIDE DEF J
  <2> QED BY <2>3, <2>4
<1> QED BY <1>3, <1>5

\* What others have to push is foreign,
LEMMA ForeignUp ==
  ASSUME Calm, NEW m \in Machine, NEW d \in Client, d # m, m \in Client => last_sync[m] # 0
  PROVE  BagPaths(Ups[d]) \subseteq Foreign(m) /\ BagPaths(Ups[d]) \subseteq Path
<1>1. d \in Machine \ {m} /\ d \in Client \ {m}
  BY CalmFacts
<1>2. BagPaths(bag[d]) \subseteq UNION {BagPaths(bag[c]) : c \in Client \ {m}}
  BY <1>1
<1>3. UNION {PathsOf(o) : o \in ToSet(queue[d])}
        \subseteq UNION {UNION {PathsOf(o) : o \in ToSet(queue[n])} : n \in Machine \ {m}}
  BY <1>1
<1> QED BY <1>2, <1>3, UpPaths DEF Foreign

\* and so is what is to be pulled.
LEMMA ForeignDown ==
  ASSUME Calm, NEW c \in Client, last_sync[c] # 0
  PROVE  BagPaths(Downs[c]) \subseteq Foreign(c) /\ BagPaths(Downs[c]) \subseteq Path
<1>1. Server \in Machine \ {c} /\ c # Server
  BY CalmFacts
<1>2. ASSUME NEW p \in BagPaths(Downs[c]) PROVE p \in Foreign(c)
  <2>1. PICK o \in Unseen(c) \cup ToSet(queue[Server]) : p \in PathsOf(o)
    BY DownPaths
  <2>2. CASE o \in Unseen(c)
    <3>1. p \in UNION {PathsOf(x) : x \in Unseen(c)}
      BY <2>1, <2>2
    <3> QED BY <1>1, <3>1 DEF Foreign
  <2>3. CASE o \in ToSet(queue[Server])
    <3>1. p \in UNION {PathsOf(x) : x \in ToSet(queue[Server])}
      BY <2>1, <2>3
    <3>2. p \in UNION {UNION {PathsOf(x) : x \in ToSet(queue[n])} : n \in Machine \ {c}}
      BY <1>1, <3>1
    <3> QED BY <3>2 DEF Foreign
  <2> QED BY <2>1, <2>2, <2>3
<1> QED BY <1>2, DownPaths

\* No directory is renamed: the theorems are about the other operations. What a rename of a
\* directory makes of a change set is model-checked only.
DirsStay == \A m \in Machine : \A i \in DOMAIN queue[m] : queue[m][i].type # "RENAME_DIR"

\* what the scenario says of an operation
LEMMA UserFacts ==
  ASSUME Calm, Meeting = {}, TypeOK', DirsStay', NEW m \in Machine, NEW o \in Op, NEW v \in Content,
         UserOp(m, o, v)
  PROVE  /\ o \in RecOp /\ o \in FileOp /\ Succeeds(tree[m], o)
         /\ tree' = [tree EXCEPT ![m] = Effect(tree[m], o, v)]
         /\ queue' = [queue EXCEPT ![m] = Append(queue[m], o)]
         /\ want' = IF Succeeds(want, o) THEN Effect(want, o, v) ELSE want
         /\ UNCHANGED <<journal, last_sync, at, bag>>
         /\ IF m = Server THEN \A c \in Client : ~Busy(c) ELSE at[m] # "push"
         /\ \A p \in PathsOf(o) : Related(p) \cap Foreign(m) = {}
         /\ PathsOf(o) \subseteq Path /\ o.path \in Path /\ o.path \in PathsOf(o)
         /\ \A p \in DirOff(o) : \A n \in Machine : Children(tree'[n], p) = {}
         /\ \A c \in Starting : \A p \in FileOff(o) \cup DirOff(o) : tree[c][p] = None
         /\ IsTree(tree'[m]) /\ IsTree(want')
         /\ Recs'
<1>1. /\ DOMAIN queue = Machine /\ DOMAIN tree = Machine /\ queue \in [Machine -> Seq(RecOp)]
      /\ queue[m] \in Seq(RecOp) /\ journal \in Seq(Seq(RecOp)) /\ IsTree(tree[m])
  BY CalmFacts DEF Calm, Recs
<1>2. /\ Succeeds(tree[m], o)
      /\ tree' = [tree EXCEPT ![m] = Effect(tree[m], o, v)]
      /\ queue' = [queue EXCEPT ![m] = Append(queue[m], o)]
      /\ want' = IF Succeeds(want, o) THEN Effect(want, o, v) ELSE want
      /\ UNCHANGED <<journal, last_sync, at, bag>>
  BY DEF UserOp
<1>3. /\ IF m = Server THEN \A c \in Client : ~Busy(c) ELSE at[m] # "push"
      /\ \A p \in PathsOf(o) : Related(p) \cap Foreign(m) = {}
      /\ Orderly(m, o) /\ Forgotten(o)
  BY DEF UserOp, MayDo
<1>4. o.type # "RENAME_DIR"
  <2>1. queue'[m] = Append(queue[m], o)
    BY <1>1, <1>2
  <2>2. Len(queue[m]) + 1 \in DOMAIN Append(queue[m], o) /\ Append(queue[m], o)[Len(queue[m]) + 1] = o
    <3>1. Len(queue[m]) \in Nat /\ Append(queue[m], o) \in Seq(RecOp \cup {o})
          /\ Len(Append(queue[m], o)) = Len(queue[m]) + 1 /\ Append(queue[m], o)[Len(queue[m]) + 1] = o
      <4>1. queue[m] \in Seq(RecOp \cup {o})
        BY <1>1, SeqMonotonic
      <4> QED BY <4>1, AppendProperties, LenProperties
    <3> QED BY <3>1, LenProperties
  <2> QED BY <2>1, <2>2 DEF DirsStay
<1>5. o \in FileOp /\ o \in RecOp
  BY <1>2, <1>4 DEF FileOp, RecOp, Succeeds
<1>6. PathsOf(o) \subseteq Path /\ o.path \in Path /\ o.path \in PathsOf(o)
  <2>1. PathsOf(o) \subseteq Path /\ o.path \in Path
    BY <1>5, FileOpIs
  <2> QED BY <2>1 DEF PathsOf
<1>7. /\ DOMAIN tree' = Machine /\ \A n \in Machine : IsTree(tree'[n])
      /\ IsTree(want')
  BY DEF TypeOK
<1>8. ASSUME NEW p \in DirOff(o), NEW n \in Machine PROVE Children(tree'[n], p) = {}
  <2>1. o.type = "RMDIR" /\ p = o.path
    BY <1>8 DEF DirOff
  <2>2. CASE n # m
    <3>1. Children(tree[n], o.path) = {}
      BY <1>3, <2>1 DEF Orderly
    <3>2. tree'[n] = tree[n]
      BY <1>1, <1>2, <2>2
    <3> QED BY <2>1, <3>1, <3>2
  <2>3. CASE n = m
    <3>1. tree'[m] = Effect(tree[m], o, v)
      BY <1>1, <1>2
    <3>2. tree[m] \in [Path -> Content \cup {Dir, None}]
      BY <1>1 DEF IsTree
    <3>3. tree'[m][p] = None
      BY <1>6, <2>1, <3>1, <3>2 DEF Effect
    <3>4. tree'[m][p] # Dir
      BY <3>3, Nodes
    <3> QED BY <1>6, <1>7, <2>1, <2>3, <3>4, NoKids
  <2> QED BY <2>2, <2>3
<1>9. ASSUME NEW c \in Starting, NEW p \in FileOff(o) \cup DirOff(o) PROVE tree[c][p] = None
  <2>1. o.type \in {"UNLINK", "RENAME", "RMDIR"} /\ p = o.path
    BY <1>9 DEF FileOff, DirOff
  <2>2. c \in Client /\ last_sync[c] = 0
    BY DEF Starting
  <2> QED BY <1>3, <2>1, <2>2 DEF Forgotten
<1>10. Recs'
  <2>1. Append(queue[m], o) \in Seq(RecOp)
    BY <1>1, <1>5, RecMerged
  <2>2. queue' \in [Machine -> Seq(RecOp)]
    BY <1>1, <1>2, <2>1
  <2> QED BY <1>1, <1>2, <2>2 DEF Recs
<1> QED BY <1>2, <1>3, <1>5, <1>6, <1>7, <1>8, <1>9, <1>10

\* A user of client c: near the paths of the operation the client has what all will have.
LEMMA ClientUserCalm ==
  ASSUME Calm, Meeting = {}, TypeOK', DirsStay', NEW c \in Client, NEW o \in Op, NEW v \in Content,
         UserOp(c, o, v)
  PROVE  Recs' /\ Forms' /\ CoreNow'
<1> DEFINE A == FileAt(o)  G == FileOff(o)  K == DirAt(o)  R == DirOff(o)
           t2 == Effect(tree[c], o, v)  w2 == Effect(want, o, v)
<1>0. /\ c \in Machine /\ Server \in Machine /\ Server \notin Client /\ Client \subseteq Machine /\ c # Server
      /\ DOMAIN tree = Machine /\ DOMAIN queue = Machine /\ IsTree(tree[c]) /\ IsTree(tree[Server]) /\ IsTree(want)
      /\ queue[c] \in Seq(RecOp)
      /\ \A d \in Client : FormOf(d)
      /\ CoreNow
  BY CalmFacts
<1>1. /\ o \in RecOp /\ o \in FileOp /\ Succeeds(tree[c], o)
      /\ tree' = [tree EXCEPT ![c] = t2]
      /\ queue' = [queue EXCEPT ![c] = Append(queue[c], o)]
      /\ want' = IF Succeeds(want, o) THEN w2 ELSE want
      /\ UNCHANGED <<journal, last_sync, at, bag>>
      /\ at[c] # "push"
  BY <1>0, UserFacts
<1>2. /\ \A p \in PathsOf(o) : Related(p) \cap Foreign(c) = {}
      /\ PathsOf(o) \subseteq Path /\ o.path \in Path /\ o.path \in PathsOf(o)
      /\ \A p \in R : \A n \in Machine : Children(tree'[n], p) = {}
      /\ \A d \in Starting : \A p \in G \cup R : tree[d][p] = None
      /\ IsTree(tree'[c]) /\ IsTree(want')
      /\ Recs'
  BY <1>0, UserFacts
<1>3. last_sync[c] # 0
  <2>1. SUFFICES ASSUME last_sync[c] = 0 PROVE FALSE
    OBVIOUS
  <2>2. Foreign(c) = Path
    BY <2>1 DEF Foreign
  <2>3. o.path \in Related(o.path)
    BY <1>2, KinIs
  <2> QED BY <1>2, <2>2, <2>3
<1>4. c \in Joined
  BY <1>3, SyncParts
<1>5. Core(tree, want, Ups, Downs, Joined, Starting, Echoing)
  BY <1>0 DEF CoreNow
<1>6. ASSUME NEW d \in Client \ {c}
      PROVE  \A p \in PathsOf(o), q \in BagPaths(Ups[d]) : ~Kin(p, q)
  <2>1. BagPaths(Ups[d]) \subseteq Foreign(c) /\ BagPaths(Ups[d]) \subseteq Path
    BY <1>0, <1>3, ForeignUp
  <2> QED BY <1>2, <2>1, NotForeign
<1>7. \A p \in PathsOf(o), q \in BagPaths(Downs[c]) : ~Kin(p, q)
  <2>1. BagPaths(Downs[c]) \subseteq Foreign(c) /\ BagPaths(Downs[c]) \subseteq Path
    BY <1>3, ForeignDown
  <2> QED BY <1>2, <2>1, NotForeign
<1>8. ASSUME NEW p \in PathsOf(o), NEW q \in Path, Kin(p, q) PROVE tree[c][q] = want[q]
  <2>1. Ups[c] \in Plain /\ Downs[c] \in Plain
    BY <1>5 DEF Core, Typed
  <2>2. CASE q \in Own(tree[c], tree[Server], Ups[c])
    BY <1>5, <2>2 DEF Core, Wanted
  <2>3. CASE q \notin Own(tree[c], tree[Server], Ups[c])
    <3>1. \A d \in Client : q \notin Own(tree[d], tree[Server], Ups[d])
      <4> SUFFICES ASSUME NEW d \in Client \ {c}, q \in Own(tree[d], tree[Server], Ups[d]) PROVE FALSE
        BY <2>3
      <4>1. Ups[d] \in Plain
        BY <1>5 DEF Core, Typed
      <4>2. q \in BagPaths(Ups[d])
        BY <4>1, OwnIs
      <4> QED BY <1>6, <1>8, <4>2
    <3>2. want[q] = tree[Server][q]
      BY <1>5, <3>1 DEF Core, Rest
    <3>3. tree[c][q] = tree[Server][q]
      <4>1. CASE q \in BagPaths(Ups[c])
        BY <2>1, <2>3, <4>1, OwnIs
      <4>2. CASE q \notin BagPaths(Ups[c])
        <5>1. Explains(Downs[c], tree[Server], tree[c], q)
          BY <1>4, <1>5, <4>2 DEF Core, Explained
        <5>2. q \notin BagPaths(Downs[c])
          BY <1>7, <1>8
        <5> QED BY <1>0, <2>1, <5>1, <5>2, SameOff
      <4> QED BY <4>1, <4>2
    <3> QED BY <3>2, <3>3
  <2> QED BY <2>2, <2>3
<1>9. Succeeds(want, o) /\ Done(tree[c], t2, want, w2, A, G, K, R)
  <2> DEFINE t == tree[c]
  <2>1. IsTree(t) /\ IsTree(want) /\ o \in RecOp /\ Succeeds(t, o)
        /\ \A p \in PathsOf(o), q \in Path : Kin(p, q) => t[q] = want[q]
    BY <1>0, <1>1, <1>8
  <2> HIDE DEF t
  <2>2. Succeeds(want, o) /\ Done(t, Effect(t, o, v), want, Effect(want, o, v), A, G, K, R)
    BY <2>1, CallBoth
  <2> QED BY <2>2 DEF t
<1>10. PathsOf(o) = A \cup G \cup K \cup R
  BY <1>1, FileOpIs
<1>11. Merge(Append(queue[c], o)) = Changed(Merge(queue[c]), A, G, K, R)
  BY <1>0, <1>1, RecMerged
<1> HIDE DEF A, G, K, R, t2, w2
<1>12. /\ tree'[c] = t2 /\ want' = w2 /\ queue'[c] = Append(queue[c], o) /\ queue'[Server] = queue[Server]
       /\ \A d \in Client : d # c => queue'[d] = queue[d]
       /\ \A m \in Machine : m # c => tree'[m] = tree[m]
  BY <1>0, <1>1, <1>9
<1>13. Forms'
  <2>1. FormOf(c)'
    BY <1>0, <1>1, <1>3, <1>12 DEF FormOf
  <2>2. \A d \in Client : d # c => FormOf(d)'
    BY <1>0, <1>1, <1>12 DEF FormOf
  <2> QED BY <2>1, <2>2 DEF Forms
<1>14. Ups'[c] = Changed(Ups[c], A, G, K, R)
  BY <1>1, <1>11, <1>12 DEF Ups, Up
<1>15. \A d \in Client : Ups'[d] = IF d = c THEN Changed(Ups[c], A, G, K, R) ELSE Ups[d]
  BY <1>1, <1>12, <1>14, SameUp
<1>16. Downs' = Downs /\ Joined' = Joined /\ Starting' = Starting /\ Echoing' = Echoing
  <2>1. \A d \in Client : Downs'[d] = Downs[d]
    BY <1>1, <1>12, SameDown
  <2>2. Downs' = Downs
    BY <2>1 DEF Downs
  <2> QED BY <1>1, <2>2 DEF Joined, Starting, Echoing
<1>17. \A m \in Machine : tree'[m] = IF m = c THEN t2 ELSE tree[m]
  BY <1>12
<1>18. /\ \A d \in Client \ {c} : \A p \in A \cup G \cup K \cup R, q \in BagPaths(Ups[d]) : ~Kin(p, q)
       /\ \A p \in A \cup G \cup K \cup R, q \in BagPaths(Downs[c]) : ~Kin(p, q)
  BY <1>6, <1>7, <1>10
<1>19. IsTree(t2) /\ IsTree(w2)
  BY <1>2, <1>12
<1>a. /\ \A p \in R : \A m \in Machine : Children(tree'[m], p) = {}
      /\ \A d \in Starting : \A p \in G \cup R : tree[d][p] = None
      /\ Done(tree[c], t2, want, w2, A, G, K, R)
  BY <1>2, <1>9
<1>b. UserStep(tree, want, Ups, Downs, Starting, c, tree', t2, w2, Ups', A, G, K, R)
  BY <1>15, <1>17, <1>18, <1>19, <1>a DEF UserStep
<1>20. Core(tree', w2, Ups', Downs, Joined, Starting, Echoing)
  BY <1>4, <1>5, <1>b, CoreUser
<1>21. Core(tree', want', Ups', Downs', Joined', Starting', Echoing')
  BY <1>12, <1>16, <1>20
<1> QED BY <1>2, <1>13, <1>21 DEF CoreNow

\* A user of the server: so has the server.
LEMMA ServerUserCalm ==
  ASSUME Calm, Meeting = {}, TypeOK', DirsStay', NEW o \in Op, NEW v \in Content,
         UserOp(Server, o, v)
  PROVE  Recs' /\ Forms' /\ CoreNow'
<1> DEFINE A == FileAt(o)  G == FileOff(o)  K == DirAt(o)  R == DirOff(o)
           s == tree[Server]  t2 == Effect(s, o, v)  w2 == Effect(want, o, v)
<1>0. /\ Server \in Machine /\ Server \notin Client /\ Client \subseteq Machine
      /\ DOMAIN tree = Machine /\ DOMAIN queue = Machine /\ IsTree(s) /\ IsTree(want)
      /\ queue[Server] \in Seq(RecOp) /\ journal \in Seq(Seq(RecOp))
      /\ \A d \in Client : FormOf(d)
      /\ CoreNow
  BY CalmFacts
<1>1. /\ o \in RecOp /\ o \in FileOp /\ Succeeds(s, o)
      /\ tree' = [tree EXCEPT ![Server] = t2]
      /\ queue' = [queue EXCEPT ![Server] = Append(queue[Server], o)]
      /\ want' = IF Succeeds(want, o) THEN w2 ELSE want
      /\ UNCHANGED <<journal, last_sync, at, bag>>
      /\ \A c \in Client : ~Busy(c)
  BY <1>0, UserFacts
<1>2. /\ \A p \in PathsOf(o) : Related(p) \cap Foreign(Server) = {}
      /\ PathsOf(o) \subseteq Path /\ o.path \in Path /\ o.path \in PathsOf(o)
      /\ \A p \in R : \A n \in Machine : Children(tree'[n], p) = {}
      /\ \A d \in Starting : \A p \in G \cup R : tree[d][p] = None
      /\ IsTree(tree'[Server]) /\ IsTree(want')
      /\ Recs'
  BY <1>0, UserFacts
<1>5. Core(tree, want, Ups, Downs, Joined, Starting, Echoing)
  BY <1>0 DEF CoreNow
<1>6. ASSUME NEW d \in Client
      PROVE  \A p \in PathsOf(o), q \in BagPaths(Ups[d]) : ~Kin(p, q)
  <2>1. BagPaths(Ups[d]) \subseteq Foreign(Server) /\ BagPaths(Ups[d]) \subseteq Path
    BY <1>0, ForeignUp
  <2> QED BY <1>2, <2>1, NotForeign
<1>8. ASSUME NEW p \in PathsOf(o), NEW q \in Path, Kin(p, q) PROVE s[q] = want[q]
  <2>1. \A d \in Client : q \notin Own(tree[d], s, Ups[d])
    <3> SUFFICES ASSUME NEW d \in Client, q \in Own(tree[d], s, Ups[d]) PROVE FALSE
      OBVIOUS
    <3>1. Ups[d] \in Plain
      BY <1>5 DEF Core, Typed
    <3>2. q \in BagPaths(Ups[d])
      BY <3>1, OwnIs
    <3> QED BY <1>6, <1>8, <3>2
  <2> QED BY <1>5, <2>1 DEF Core, Rest
<1>9. Succeeds(want, o) /\ Done(s, t2, want, w2, A, G, K, R)
  <2>1. IsTree(s) /\ IsTree(want) /\ o \in RecOp /\ Succeeds(s, o)
        /\ \A p \in PathsOf(o), q \in Path : Kin(p, q) => s[q] = want[q]
    BY <1>0, <1>1, <1>8
  <2> HIDE DEF s
  <2> QED BY <2>1, CallBoth
<1>10. PathsOf(o) = A \cup G \cup K \cup R
  BY <1>1, FileOpIs
<1>11. ASSUME NEW n \in 1..(Len(journal) + 1)
       PROVE  ToPull(journal, n, Append(queue[Server], o)) = Changed(ToPull(journal, n, queue[Server]), A, G, K, R)
  BY <1>0, <1>1, PullFacts
<1> HIDE DEF A, G, K, R, t2, w2
<1>12. /\ tree'[Server] = t2 /\ want' = w2 /\ queue'[Server] = Append(queue[Server], o)
       /\ \A d \in Client : queue'[d] = queue[d]
       /\ \A m \in Machine : m # Server => tree'[m] = tree[m]
  BY <1>0, <1>1, <1>9
<1>13. Forms'
  BY <1>0, <1>1, <1>12 DEF Forms, FormOf, Busy
<1>14. Ups' = Ups
  <2>1. \A d \in Client : Ups'[d] = Ups[d]
    BY <1>1, <1>12, SameUp
  <2> QED BY <2>1 DEF Ups
<1>15. ASSUME NEW d \in Client
       PROVE  Downs'[d] = IF d \in Joined THEN Changed(Downs[d], A, G, K, R) ELSE Downs[d]
  <2>1. last_sync[d] > 0 => last_sync[d] \in 1..(Len(journal) + 1)
    BY SyncParts
  <2>2. CASE d \notin Joined
    <3>1. ~(last_sync[d] > 0) /\ last_sync'[d] = last_sync[d]
      BY <1>1, <2>2, SyncParts
    <3> QED BY <2>2, <3>1 DEF Downs, Down
  <2>3. CASE d \in Joined
    <3>1. last_sync[d] > 0 /\ last_sync[d] # 0 /\ last_sync'[d] = last_sync[d] /\ journal' = journal
      BY <1>1, <2>3, SyncParts
    <3>2. at[d] = "idle" /\ at'[d] = "idle"
      BY <1>0, <1>1, <3>1 DEF Busy, FormOf
    <3>3. Downs[d] = ToPull(journal, last_sync[d], queue[Server])
      BY <3>1, <3>2 DEF Downs, Down
    <3>4. Downs'[d] = ToPull(journal, last_sync[d], Append(queue[Server], o))
      BY <1>12, <3>1, <3>2 DEF Downs, Down
    <3>5. ToPull(journal, last_sync[d], Append(queue[Server], o)) = Changed(ToPull(journal, last_sync[d], queue[Server]), A, G, K, R)
      BY <1>11, <2>1, <3>1
    <3> QED BY <2>3, <3>3, <3>4, <3>5
  <2> QED BY <2>2, <2>3
<1>16. Joined' = Joined /\ Starting' = Starting /\ Echoing' = Echoing
  BY <1>1 DEF Joined, Starting, Echoing
<1>17. \A m \in Machine : tree'[m] = IF m = Server THEN t2 ELSE tree[m]
  BY <1>12
<1>18. \A d \in Client : \A p \in A \cup G \cup K \cup R, q \in BagPaths(Ups[d]) : ~Kin(p, q)
  BY <1>6, <1>10
<1>19. IsTree(t2) /\ IsTree(w2)
  BY <1>2, <1>12
<1>a. /\ \A p \in R : \A m \in Machine : Children(tree'[m], p) = {}
      /\ \A d \in Starting : \A p \in G \cup R : tree[d][p] = None
      /\ Done(tree[Server], t2, want, w2, A, G, K, R)
  BY <1>2, <1>9
<1>b. \A d \in Client : Downs'[d] = IF d \in Joined THEN Changed(Downs[d], A, G, K, R) ELSE Downs[d]
  BY <1>15
<1> HIDE DEF s
<1>c. ServerStep(tree, want, Ups, Downs, Joined, Starting, tree', t2, w2, Downs', A, G, K, R)
  BY <1>b, <1>17, <1>18, <1>19, <1>a DEF ServerStep
<1>20. Core(tree', w2, Ups, Downs', Joined, Starting, Echoing)
  BY <1>5, <1>c, CoreServer
<1>21. Core(tree', want', Ups', Downs', Joined', Starting', Echoing')
  BY <1>12, <1>14, <1>16, <1>20
<1> QED BY <1>2, <1>13, <1>21 DEF CoreNow

\* All steps keep the invariant.
LEMMA CalmStep ==
  ASSUME Meeting = {}, Calm, DirsStay', [Next]_vars
  PROVE  Calm'
<1>1. OneUpdate
  BY DEF OneUpdate
<1>2. TypeOK' /\ SyncInv'
  BY <1>1, NextType, SyncStep DEF Calm
<1>3. ASSUME NEW m \in Machine, NEW o \in Op, NEW v \in Content, UserOp(m, o, v)
      PROVE  Recs' /\ Forms' /\ CoreNow'
  <2>1. m \in Client \/ m = Server
    BY DEF Machine
  <2> QED BY <1>2, <1>3, <2>1, ClientUserCalm, ServerUserCalm
<1>4. ASSUME NEW c \in Client, Update(c) PROVE Recs' /\ Forms' /\ CoreNow'
  BY <1>1, <1>4, PullCalm, DownloadAllCalm, PatchCalm, StampCalm, DrainCalm, PushCalm,
     PushStagesCalm, PushDoneCalm DEF Update
<1>5. ASSUME NEW c \in Client, Restart(c) PROVE Recs' /\ Forms' /\ CoreNow'
  BY <1>5, RestartCalm
<1>6. ASSUME UNCHANGED vars PROVE Recs' /\ Forms' /\ CoreNow'
  <2>1. Recs /\ Forms /\ CoreNow
    BY DEF Calm
  <2>2. Recs'
    BY <1>6, <2>1 DEF vars, Recs
  <2>3. Forms'
    BY <1>6, <2>1 DEF vars, Forms, FormOf
  <2>4. UNCHANGED <<tree, want, Ups, Downs, Joined, Starting, Echoing>>
    BY <1>6 DEF vars, Ups, Up, Downs, Down, Joined, Starting, Echoing
  <2>5. CoreNow'
    BY <2>1, <2>4 DEF CoreNow
  <2> QED BY <2>2, <2>3, <2>5
<1>7. Recs' /\ Forms' /\ CoreNow'
  BY <1>3, <1>4, <1>5, <1>6, StageCalm, ServerRestartCalm DEF Next
<1> QED BY <1>2, <1>7 DEF Calm

\* A difference between a client and the server is told by what is to be pushed or pulled.
LEMMA CalmDifferences == Calm => DifferencesOnTheWay
<1> SUFFICES ASSUME Calm, NEW c \in Client, Online(c), NEW p \in Path, tree[c][p] # tree[Server][p]
             PROVE  p \in OnTheWay(c)
  BY DEF DifferencesOnTheWay
<1>1. /\ IsTree(tree[c]) /\ IsTree(tree[Server]) /\ CoreNow
  BY CalmFacts
<1>2. Core(tree, want, Ups, Downs, Joined, Starting, Echoing)
  BY <1>1 DEF CoreNow
<1>3. c \in Joined
  BY SyncParts DEF Online
<1>4. CASE p \in BagPaths(Ups[c])
  <2>1. p \in BagPaths(bag[c]) \cup UNION {PathsOf(o) : o \in ToSet(queue[c])}
    BY <1>4, UpPaths
  <2> QED BY <2>1 DEF OnTheWay
<1>5. CASE p \notin BagPaths(Ups[c])
  <2>1. Explains(Downs[c], tree[Server], tree[c], p)
    BY <1>2, <1>3, <1>5 DEF Core, Explained
  <2>2. Downs[c] \in Plain
    BY <1>2 DEF Core, Typed
  <2>3. p \in BagPaths(Downs[c])
    BY <1>1, <2>1, <2>2, SameOff
  <2>4. PICK o \in Unseen(c) \cup ToSet(queue[Server]) : p \in PathsOf(o)
    BY <2>3, DownPaths
  <2> QED BY <2>4 DEF OnTheWay
<1> QED BY <1>4, <1>5

\* When nothing is to be pushed or pulled nobody differs.
LEMMA CalmConverged == Calm => Converged
<1> SUFFICES ASSUME Calm, Quiet, NEW m \in Machine
             PROVE  tree[m] = want
  BY DEF Converged
<1>1. /\ \A n \in Machine : IsTree(tree[n])
      /\ IsTree(want) /\ CoreNow
      /\ server_stamp = Len(journal) + 1 /\ Len(journal) \in Nat
      /\ Machine = Client \cup {Server} /\ Server \in Machine
  BY CalmFacts
<1>2. Core(tree, want, Ups, Downs, Joined, Starting, Echoing)
  BY <1>1 DEF CoreNow
<1>3. \A c \in Client : bag[c] = NoChanges /\ queue[c] = <<>> /\ last_sync[c] = Len(journal) + 1 /\ queue[Server] = <<>>
  BY <1>1 DEF Quiet
<1>4. ASSUME NEW c \in Client PROVE Ups[c] = NoChanges /\ Downs[c] = NoChanges /\ c \in Joined
  <2>1. Ups[c] = NoChanges
    BY <1>3, MergeEmpty DEF Ups, Up
  <2>2. ToPull(journal, last_sync[c], queue[Server]) = NoChanges
    BY <1>3, DownNothing
  <2>3. Downs[c] = NoChanges
    BY <2>2 DEF Downs, Down
  <2> QED BY <1>1, <1>3, <2>1, <2>3 DEF Joined
<1>5. ASSUME NEW p \in Path PROVE want[p] = tree[Server][p]
  <2>1. \A c \in Client : p \notin Own(tree[c], tree[Server], Ups[c])
    BY <1>4, NothingOwn
  <2> QED BY <1>2, <2>1 DEF Core, Rest
<1>6. ASSUME NEW c \in Client, NEW p \in Path PROVE tree[Server][p] = tree[c][p]
  <2>1. NoChanges \in Plain /\ p \notin BagPaths(NoChanges)
    BY NoChangesIs
  <2>2. Explains(NoChanges, tree[Server], tree[c], p)
    BY <1>2, <1>4, <2>1 DEF Core, Explained
  <2> QED BY <1>1, <2>1, <2>2, SameOff
<1>7. \A p \in Path : tree[m][p] = want[p]
  BY <1>1, <1>5, <1>6
<1>8. tree[m] \in [Path -> Content \cup {Dir, None}] /\ want \in [Path -> Content \cup {Dir, None}]
  BY <1>1 DEF IsTree
<1> QED BY <1>7, <1>8

\* The invariant holds throughout.
LEMMA CalmAlways ==
  ASSUME Meeting = {} PROVE Spec /\ []DirsStay => []Calm
<1>1. Calm /\ DirsStay' /\ [Next]_vars => Calm'
  BY CalmStep
<1> QED BY <1>1, InitCalm, PTL DEF Spec

\* While users keep their operations apart, do none during an update and rename no directories,
\* each difference between a client and the server is told by a record on its way, in a queue, a
\* journal above last_sync, a push or a patch, so that an update repairs it; the stamps never let
\* a client pass over a journal (DriveServerAgent.cpp:250-353, DriveClientAgent.cpp:217-293).
THEOREM AllOnTheWay ==
  ASSUME Meeting = {} PROVE Spec /\ []DirsStay => []DifferencesOnTheWay
BY CalmAlways, CalmDifferences, PTL

\* Then, too, when all is transferred, every machine has the tree that the operations of all users would
\* have led to in one place: merging to sets of paths, applying them in a fixed order and the echo
\* of what is applied lose nothing and bring nothing back (DriveServerAgent.cpp:216-353,
\* DriveClientAgent.cpp:178-293).
THEOREM Convergence ==
  ASSUME Meeting = {} PROVE Spec /\ []DirsStay => []Converged
BY CalmAlways, CalmConverged, PTL
=============================================================================
