--------------------------- MODULE ZeroSyncProofs ---------------------------
(* The types of ZeroSync, with the trees, for every value of its constants, and the   *)
(* invariant about the stamps on which the theorems of ZeroSyncCalmProofs rest.       *)
EXTENDS ZeroSyncProps, SequenceTheorems, WellFoundedInduction, TLAPS

-----------------------------------------------------------------------------
(* Induction, and the functions that are defined by it *)

\* A set of numbers that is not empty has a least element.
LEMMA Least ==
  ASSUME NEW T, T \subseteq Nat, T # {}
  PROVE  \E n \in T : \A m \in T : n <= m
<1>1. PICK n \in T : \A m \in T : ~(<<m, n>> \in OpToRel(<, Nat))
  BY WFMin, NatLessThanWellFounded
<1>2. \A m \in T : ~(m < n)
  BY <1>1 DEF OpToRel
<1> QED BY <1>2

\* A set that holds 0 and the successor of each of its numbers holds them all.
LEMMA Induction ==
  ASSUME NEW T, 0 \in T, \A n \in Nat : n \in T => n + 1 \in T
  PROVE  Nat \subseteq T
<1> SUFFICES ASSUME Nat \ T # {} PROVE FALSE
  OBVIOUS
<1>1. PICK n \in Nat \ T : \A m \in Nat \ T : n <= m
  BY Least
<1>2. n # 0 /\ n - 1 \in Nat /\ n - 1 \notin T
  BY <1>1
<1>3. (n - 1) + 1 = n
  BY <1>1
<1> QED BY <1>1, <1>2, <1>3

\* What is in a sequence that is one element longer.
LEMMA ToSetAppend ==
  ASSUME NEW E, NEW s \in Seq(E), NEW e \in E
  PROVE  ToSet(Append(s, e)) = ToSet(s) \cup {e} /\ Append(s, e) \in Seq(E)
<1>1. /\ Append(s, e) \in Seq(E) /\ Len(Append(s, e)) = Len(s) + 1 /\ Len(s) \in Nat
      /\ Append(s, e)[Len(s) + 1] = e /\ \A i \in 1..Len(s) : Append(s, e)[i] = s[i]
  BY AppendProperties, LenProperties
<1>2. DOMAIN s = 1..Len(s) /\ DOMAIN Append(s, e) = 1..(Len(s) + 1)
  BY <1>1, LenProperties
<1>3. \A i \in 1..(Len(s) + 1) : i \in 1..Len(s) \/ i = Len(s) + 1
  BY <1>1
<1>4. \A i \in 1..Len(s) : i \in 1..(Len(s) + 1)
  BY <1>1
<1>5. Len(s) + 1 \in 1..(Len(s) + 1)
  BY <1>1
<1> QED BY <1>1, <1>2, <1>3, <1>4, <1>5 DEF ToSet

\* the function that Chosen (ZeroSync) is defined by, on 0..n
ChosenOn(s, S, n, f) ==
  f = [i \in 0..n |-> IF i = 0 THEN <<>>
                      ELSE IF s[i] \in S THEN Append(f[i - 1], s[i]) ELSE f[i - 1]]

\* The function that Chosen is defined by exists.
LEMMA ChosenExists ==
  ASSUME NEW s, NEW S
  PROVE  \A n \in Nat : \E f : ChosenOn(s, S, n, f)
<1> DEFINE T == {n \in Nat : \E f : ChosenOn(s, S, n, f)}
<1>1. 0 \in T
  <2>1. ChosenOn(s, S, 0, [i \in 0..0 |-> <<>>])
    BY DEF ChosenOn
  <2> QED BY <2>1
<1>2. ASSUME NEW n \in Nat, n \in T PROVE n + 1 \in T
  <2>1. PICK f : ChosenOn(s, S, n, f)
    BY <1>2
  <2> DEFINE g == [i \in 0..(n + 1) |-> IF i = n + 1
                    THEN IF s[n + 1] \in S THEN Append(f[n], s[n + 1]) ELSE f[n] ELSE f[i]]
  <2>2. \A i \in 0..n : g[i] = f[i]
    OBVIOUS
  <2>3. g[n + 1] = IF s[n + 1] \in S THEN Append(f[n], s[n + 1]) ELSE f[n]
    OBVIOUS
  <2>4. \A i \in 0..n : f[i] = IF i = 0 THEN <<>>
                               ELSE IF s[i] \in S THEN Append(f[i - 1], s[i]) ELSE f[i - 1]
    BY <2>1 DEF ChosenOn
  <2>5. \A i \in 0..(n + 1) : g[i] = IF i = 0 THEN <<>>
                                     ELSE IF s[i] \in S THEN Append(g[i - 1], s[i]) ELSE g[i - 1]
    <3> TAKE i \in 0..(n + 1)
    <3>1. CASE i = n + 1
      BY <3>1, <2>2, <2>3
    <3>2. CASE i # n + 1 /\ i # 0
      <4>1. i \in 0..n /\ i - 1 \in 0..n
        BY <3>2
      <4> QED BY <4>1, <2>2, <2>4
    <3>3. CASE i = 0
      BY <3>3, <2>2, <2>4
    <3> QED BY <3>1, <3>2, <3>3
  <2>6. g = [i \in 0..(n + 1) |-> g[i]]
    OBVIOUS
  <2> HIDE DEF g
  <2>7. ChosenOn(s, S, n + 1, g)
    BY <2>5, <2>6 DEF ChosenOn
  <2> QED BY <2>7
<1> HIDE DEF T
<1>3. Nat \subseteq T
  BY <1>1, <1>2, Induction
<1> QED BY <1>3 DEF T

\* Chosen as far as the first i elements of s go
LEMMA ChosenStep ==
  ASSUME NEW S, NEW E, NEW s \in Seq(E)
  PROVE  \E f : /\ Chosen(s, S) = f[Len(s)]
                /\ f[0] = <<>>
                /\ \A i \in 1..Len(s) : f[i] = IF s[i] \in S THEN Append(f[i - 1], s[i]) ELSE f[i - 1]
<1> DEFINE f == CHOOSE g : ChosenOn(s, S, Len(s), g)
<1>1. ChosenOn(s, S, Len(s), f)
  BY ChosenExists, LenProperties
<1>2. Chosen(s, S) = f[Len(s)]
  BY DEF Chosen, ChosenOn
<1> HIDE DEF f
<1>3. f[0] = <<>> /\ \A i \in 1..Len(s) : f[i] = IF s[i] \in S THEN Append(f[i - 1], s[i]) ELSE f[i - 1]
  <2>1. Len(s) \in Nat
    BY LenProperties
  <2>2. \A i \in 0..Len(s) : f[i] = IF i = 0 THEN <<>>
                                    ELSE IF s[i] \in S THEN Append(f[i - 1], s[i]) ELSE f[i - 1]
    BY <1>1 DEF ChosenOn
  <2>3. 0 \in 0..Len(s) /\ \A i \in 1..Len(s) : i \in 0..Len(s) /\ i # 0
    BY <2>1
  <2> QED BY <2>2, <2>3
<1> QED BY <1>2, <1>3

\* What is chosen is what of s is in S.
LEMMA ChosenIs ==
  ASSUME NEW S, NEW E, NEW s \in Seq(E)
  PROVE  /\ Chosen(s, S) \in Seq(E)
         /\ ToSet(Chosen(s, S)) = ToSet(s) \cap S
<1>1. PICK f : /\ Chosen(s, S) = f[Len(s)]
               /\ f[0] = <<>>
               /\ \A i \in 1..Len(s) : f[i] = IF s[i] \in S THEN Append(f[i - 1], s[i]) ELSE f[i - 1]
  BY ChosenStep
<1> DEFINE Sofar(n) == {s[i] : i \in 1..n} \cap S
           T == {n \in Nat : n <= Len(s) => f[n] \in Seq(E) /\ ToSet(f[n]) = Sofar(n)}
<1>0. Len(s) \in Nat
  BY LenProperties
<1>2. 0 \in T
  <2>1. ToSet(<<>>) = {} /\ <<>> \in Seq(E) /\ Sofar(0) = {}
    BY DEF ToSet
  <2> QED BY <1>1, <2>1
<1>3. ASSUME NEW n \in Nat, n \in T PROVE n + 1 \in T
  <2> SUFFICES ASSUME n + 1 <= Len(s)
               PROVE  f[n + 1] \in Seq(E) /\ ToSet(f[n + 1]) = Sofar(n + 1)
    OBVIOUS
  <2>1. n + 1 \in 1..Len(s) /\ f[n] \in Seq(E) /\ ToSet(f[n]) = Sofar(n)
    BY <1>0, <1>3
  <2>2. s[n + 1] \in E
    BY <2>1, ElementOfSeq
  <2>3. Sofar(n + 1) = Sofar(n) \cup ({s[n + 1]} \cap S)
    OBVIOUS
  <2> HIDE DEF Sofar, T
  <2>4. f[n + 1] = IF s[n + 1] \in S THEN Append(f[(n + 1) - 1], s[n + 1]) ELSE f[(n + 1) - 1]
    BY <1>1, <2>1
  <2>5. f[n + 1] = IF s[n + 1] \in S THEN Append(f[n], s[n + 1]) ELSE f[n]
    <3>1. (n + 1) - 1 = n
      OBVIOUS
    <3> QED BY <2>4, <3>1
  <2>6. ToSet(Append(f[n], s[n + 1])) = ToSet(f[n]) \cup {s[n + 1]} /\ Append(f[n], s[n + 1]) \in Seq(E)
    BY <2>1, <2>2, ToSetAppend
  <2> QED BY <2>1, <2>3, <2>5, <2>6
<1> HIDE DEF T
<1>4. Nat \subseteq T
  BY <1>2, <1>3, Induction
<1>5. Len(s) \in T
  BY <1>0, <1>4
<1>6. Sofar(Len(s)) = ToSet(s) \cap S
  BY <1>0 DEF ToSet
<1> QED BY <1>0, <1>1, <1>5, <1>6 DEF T

\* the function that Merge is defined by, on the subsets of 1..n
MergeOn(s, n, f) ==
  f = [I \in SUBSET (1..n) |-> IF I = {} THEN NoChanges
                               ELSE LET i == Max(I) IN MergeOne(f[I \ {i}], s[i])]

\* There is such a function.
LEMMA MergeExists ==
  ASSUME NEW s
  PROVE  \A n \in Nat : \E f : MergeOn(s, n, f)
<1> DEFINE T == {n \in Nat : \E f : MergeOn(s, n, f)}
<1>1. 0 \in T
  <2>1. MergeOn(s, 0, [I \in SUBSET (1..0) |-> NoChanges])
    BY DEF MergeOn
  <2> QED BY <2>1
<1>2. ASSUME NEW n \in Nat, n \in T PROVE n + 1 \in T
  <2>1. PICK f : MergeOn(s, n, f)
    BY <1>2
  <2> DEFINE g == [I \in SUBSET (1..(n + 1)) |->
                     IF n + 1 \in I THEN MergeOne(f[I \ {n + 1}], s[n + 1]) ELSE f[I]]
  <2>2. ASSUME NEW I \in SUBSET (1..(n + 1)), n + 1 \in I
        PROVE  g[I] = IF I = {} THEN NoChanges ELSE LET i == Max(I) IN MergeOne(g[I \ {i}], s[i])
    <3>1. Max(I) = n + 1
      <4>1. \A j \in I : n + 1 >= j
        OBVIOUS
      <4>2. \A i \in I : (\A j \in I : i >= j) => i = n + 1
        BY <2>2
      <4> QED BY <2>2, <4>1, <4>2 DEF Max
    <3>2. g[I] = MergeOne(f[I \ {n + 1}], s[n + 1])
      BY <2>2
    <3>3. I \ {n + 1} \in SUBSET (1..(n + 1)) /\ n + 1 \notin I \ {n + 1}
      OBVIOUS
    <3>4. g[I \ {n + 1}] = f[I \ {n + 1}]
      BY <3>3
    <3> QED BY <2>2, <3>1, <3>2, <3>4
  <2>3. ASSUME NEW I \in SUBSET (1..(n + 1)), n + 1 \notin I
        PROVE  g[I] = IF I = {} THEN NoChanges ELSE LET i == Max(I) IN MergeOne(g[I \ {i}], s[i])
    <3>1. I \in SUBSET (1..n)
      BY <2>3
    <3>2. g[I] = f[I]
      BY <2>3
    <3>3. \A i : I \ {i} \in SUBSET (1..(n + 1)) /\ n + 1 \notin I \ {i}
      BY <2>3
    <3>4. \A i : g[I \ {i}] = f[I \ {i}]
      BY <3>3
    <3>5. f[I] = IF I = {} THEN NoChanges ELSE LET i == Max(I) IN MergeOne(f[I \ {i}], s[i])
      BY <2>1, <3>1 DEF MergeOn
    <3> HIDE DEF g
    <3> QED BY <3>2, <3>4, <3>5
  <2>4. g = [I \in SUBSET (1..(n + 1)) |-> g[I]]
    OBVIOUS
  <2> HIDE DEF g
  <2>5. \A I \in SUBSET (1..(n + 1)) :
          g[I] = IF I = {} THEN NoChanges ELSE LET i == Max(I) IN MergeOne(g[I \ {i}], s[i])
    BY <2>2, <2>3
  <2>6. MergeOn(s, n + 1, g)
    BY <2>4, <2>5 DEF MergeOn
  <2> QED BY <2>6
<1> HIDE DEF T
<1>3. Nat \subseteq T
  BY <1>1, <1>2, Induction
<1> QED BY <1>3 DEF T

\* How it goes on from 1..k to 1..k + 1.
LEMMA MergeNext ==
  ASSUME NEW s, NEW n \in Nat, NEW f, MergeOn(s, n, f)
  PROVE  f[{}] = NoChanges /\ \A k \in Nat : k + 1 <= n => f[1..(k + 1)] = MergeOne(f[1..k], s[k + 1])
<1>1. f[{}] = NoChanges
  BY DEF MergeOn
<1>2. ASSUME NEW k \in Nat, k + 1 <= n PROVE f[1..(k + 1)] = MergeOne(f[1..k], s[k + 1])
  <2>1. 1..(k + 1) \in SUBSET (1..n) /\ k + 1 \in 1..(k + 1)
    BY <1>2
  <2>2. Max(1..(k + 1)) = k + 1
    <3>1. \A j \in 1..(k + 1) : k + 1 >= j
      OBVIOUS
    <3>2. \A i \in 1..(k + 1) : (\A j \in 1..(k + 1) : i >= j) => i = k + 1
      BY <2>1
    <3> QED BY <2>1, <3>1, <3>2 DEF Max
  <2>3. (1..(k + 1)) \ {k + 1} = 1..k /\ 1..(k + 1) # {}
    BY <2>1
  <2>4. f[1..(k + 1)] = LET i == Max(1..(k + 1)) IN MergeOne(f[(1..(k + 1)) \ {i}], s[i])
    BY <2>1, <2>3 DEF MergeOn
  <2> QED BY <2>2, <2>3, <2>4
<1> QED BY <1>1, <1>2

\* Merging is going on from what is merged of one record less.
LEMMA MergeUnfolds ==
  ASSUME NEW s, NEW n \in Nat, DOMAIN s = 1..n
  PROVE  \E f : Merge(s) = f[1..n] /\ MergeOn(s, n, f)
<1> DEFINE f == CHOOSE g : MergeOn(s, n, g)
<1>1. MergeOn(s, n, f)
  BY MergeExists
<1>2. Merge(s) = f[1..n]
  BY DEF Merge, FoldLeft, MapThenFoldSet, MergeOn
<1> QED BY <1>1, <1>2


\* What is merged of nothing.
LEMMA MergeEmpty == Merge(<<>>) = NoChanges
<1>1. DOMAIN <<>> = 1..0 /\ 1..0 = {}
  OBVIOUS
<1>2. PICK f : Merge(<<>>) = f[1..0] /\ MergeOn(<<>>, 0, f)
  BY <1>1, MergeUnfolds
<1> QED BY <1>1, <1>2, MergeNext

\* What is merged of one record more (the agents merge from first to last).
LEMMA MergeAppend ==
  ASSUME NEW E, NEW s \in Seq(E), NEW e \in E
  PROVE  Merge(Append(s, e)) = MergeOne(Merge(s), e)
<1> DEFINE n == Len(s)
           q == Append(s, e)
<1>1. n \in Nat /\ DOMAIN s = 1..n /\ DOMAIN q = 1..(n + 1)
      /\ q[n + 1] = e /\ \A i \in 1..n : q[i] = s[i]
  BY AppendProperties, LenProperties
<1> HIDE DEF n, q
<1>2. PICK f : Merge(s) = f[1..n] /\ MergeOn(s, n, f)
  BY <1>1, MergeUnfolds
<1>3. PICK g : Merge(q) = g[1..(n + 1)] /\ MergeOn(q, n + 1, g)
  BY <1>1, MergeUnfolds
<1>f. f[{}] = NoChanges /\ \A k \in Nat : k + 1 <= n => f[1..(k + 1)] = MergeOne(f[1..k], s[k + 1])
  <2>1. n \in Nat
    BY <1>1
  <2>2. MergeOn(s, n, f)
    BY <1>2
  <2> QED BY <2>1, <2>2, MergeNext
<1> DEFINE T == {k \in Nat : k <= n => f[1..k] = g[1..k]}
<1>4. 0 \in T
  <2>1. 1..0 = {}
    OBVIOUS
  <2> QED BY <2>1, <1>1, <1>2, <1>3, MergeNext
<1>5. ASSUME NEW k \in Nat, k \in T PROVE k + 1 \in T
  <2> SUFFICES ASSUME k + 1 <= n PROVE f[1..(k + 1)] = g[1..(k + 1)]
    OBVIOUS
  <2>1. f[1..k] = g[1..k] /\ k + 1 \in 1..n
    BY <1>1, <1>5
  <2>2. f[1..(k + 1)] = MergeOne(f[1..k], s[k + 1])
    BY <1>f
  <2>3. g[1..(k + 1)] = MergeOne(g[1..k], q[k + 1])
    BY <1>1, <1>3, MergeNext
  <2> QED BY <1>1, <2>1, <2>2, <2>3
<1> HIDE DEF T
<1>6. Nat \subseteq T
  BY <1>4, <1>5, Induction
<1>7. f[1..n] = g[1..n]
  BY <1>1, <1>6 DEF T
<1>8. g[1..(n + 1)] = MergeOne(g[1..n], q[n + 1])
  BY <1>1, <1>3, MergeNext
<1> QED BY <1>1, <1>2, <1>3, <1>7, <1>8 DEF q

\* the function that Renames is defined by, on the subsets of 1..n
RenamesOn(s, acc, n, f) ==
  f = [I \in SUBSET (1..n) |-> IF I = {} THEN acc
                               ELSE LET i == Max(I) IN RenameNext(f[I \ {i}], s[i])]

\* There is such a function.
LEMMA RenamesExists ==
  ASSUME NEW s, NEW acc
  PROVE  \A n \in Nat : \E f : RenamesOn(s, acc, n, f)
<1> DEFINE T == {n \in Nat : \E f : RenamesOn(s, acc, n, f)}
<1>1. 0 \in T
  <2>1. RenamesOn(s, acc, 0, [I \in SUBSET (1..0) |-> acc])
    BY DEF RenamesOn
  <2> QED BY <2>1
<1>2. ASSUME NEW n \in Nat, n \in T PROVE n + 1 \in T
  <2>1. PICK f : RenamesOn(s, acc, n, f)
    BY <1>2
  <2> DEFINE g == [I \in SUBSET (1..(n + 1)) |->
                     IF n + 1 \in I THEN RenameNext(f[I \ {n + 1}], s[n + 1]) ELSE f[I]]
  <2>2. ASSUME NEW I \in SUBSET (1..(n + 1)), n + 1 \in I
        PROVE  g[I] = IF I = {} THEN acc ELSE LET i == Max(I) IN RenameNext(g[I \ {i}], s[i])
    <3>1. Max(I) = n + 1
      <4>1. \A j \in I : n + 1 >= j
        OBVIOUS
      <4>2. \A i \in I : (\A j \in I : i >= j) => i = n + 1
        BY <2>2
      <4> QED BY <2>2, <4>1, <4>2 DEF Max
    <3>2. g[I] = RenameNext(f[I \ {n + 1}], s[n + 1])
      BY <2>2
    <3>3. I \ {n + 1} \in SUBSET (1..(n + 1)) /\ n + 1 \notin I \ {n + 1}
      OBVIOUS
    <3>4. g[I \ {n + 1}] = f[I \ {n + 1}]
      BY <3>3
    <3> QED BY <2>2, <3>1, <3>2, <3>4
  <2>3. ASSUME NEW I \in SUBSET (1..(n + 1)), n + 1 \notin I
        PROVE  g[I] = IF I = {} THEN acc ELSE LET i == Max(I) IN RenameNext(g[I \ {i}], s[i])
    <3>1. I \in SUBSET (1..n)
      BY <2>3
    <3>2. g[I] = f[I]
      BY <2>3
    <3>3. \A i : I \ {i} \in SUBSET (1..(n + 1)) /\ n + 1 \notin I \ {i}
      BY <2>3
    <3>4. \A i : g[I \ {i}] = f[I \ {i}]
      BY <3>3
    <3>5. f[I] = IF I = {} THEN acc ELSE LET i == Max(I) IN RenameNext(f[I \ {i}], s[i])
      BY <2>1, <3>1 DEF RenamesOn
    <3> HIDE DEF g
    <3> QED BY <3>2, <3>4, <3>5
  <2>4. g = [I \in SUBSET (1..(n + 1)) |-> g[I]]
    OBVIOUS
  <2> HIDE DEF g
  <2>5. \A I \in SUBSET (1..(n + 1)) :
          g[I] = IF I = {} THEN acc ELSE LET i == Max(I) IN RenameNext(g[I \ {i}], s[i])
    BY <2>2, <2>3
  <2>6. RenamesOn(s, acc, n + 1, g)
    BY <2>4, <2>5 DEF RenamesOn
  <2> QED BY <2>6
<1> HIDE DEF T
<1>3. Nat \subseteq T
  BY <1>1, <1>2, Induction
<1> QED BY <1>3 DEF T

\* How it goes on from 1..k to 1..k + 1.
LEMMA RenamesNext ==
  ASSUME NEW s, NEW acc, NEW n \in Nat, NEW f, RenamesOn(s, acc, n, f)
  PROVE  f[{}] = acc /\ \A k \in Nat : k + 1 <= n => f[1..(k + 1)] = RenameNext(f[1..k], s[k + 1])
<1>1. f[{}] = acc
  BY DEF RenamesOn
<1>2. ASSUME NEW k \in Nat, k + 1 <= n PROVE f[1..(k + 1)] = RenameNext(f[1..k], s[k + 1])
  <2>1. 1..(k + 1) \in SUBSET (1..n) /\ k + 1 \in 1..(k + 1)
    BY <1>2
  <2>2. Max(1..(k + 1)) = k + 1
    <3>1. \A j \in 1..(k + 1) : k + 1 >= j
      OBVIOUS
    <3>2. \A i \in 1..(k + 1) : (\A j \in 1..(k + 1) : i >= j) => i = k + 1
      BY <2>1
    <3> QED BY <2>1, <3>1, <3>2 DEF Max
  <2>3. (1..(k + 1)) \ {k + 1} = 1..k /\ 1..(k + 1) # {}
    BY <2>1
  <2>4. f[1..(k + 1)] = LET i == Max(1..(k + 1)) IN RenameNext(f[(1..(k + 1)) \ {i}], s[i])
    BY <2>1, <2>3 DEF RenamesOn
  <2> QED BY <2>2, <2>3, <2>4
<1> QED BY <1>1, <1>2

\* The renames are done one after the other.
LEMMA RenamesUnfolds ==
  ASSUME NEW s, NEW acc, NEW n \in Nat, DOMAIN s = 1..n
  PROVE  \E f : FoldLeft(RenameNext, acc, s) = f[1..n] /\ RenamesOn(s, acc, n, f)
<1> DEFINE f == CHOOSE g : RenamesOn(s, acc, n, g)
<1>1. RenamesOn(s, acc, n, f)
  BY RenamesExists
<1>2. FoldLeft(RenameNext, acc, s) = f[1..n]
  BY DEF FoldLeft, MapThenFoldSet, RenamesOn
<1> QED BY <1>1, <1>2

\* No renames change nothing.
LEMMA RenamesEmpty == \A acc : FoldLeft(RenameNext, acc, <<>>) = acc
<1> TAKE acc
<1>1. DOMAIN <<>> = 1..0 /\ 1..0 = {}
  OBVIOUS
<1>2. PICK f : FoldLeft(RenameNext, acc, <<>>) = f[1..0] /\ RenamesOn(<<>>, acc, 0, f)
  BY <1>1, RenamesUnfolds
<1>3. RenamesOn(<<>>, acc, 0, f)
  BY <1>2
<1>4. f[{}] = acc
  BY <1>3, RenamesNext
<1>5. f[1..0] = acc
  BY <1>1, <1>4
<1> QED BY <1>2, <1>5, Zenon

\* f goes from acc to r along s
Goes(s, acc, f, r) ==
  /\ r = f[1..Len(s)] /\ f[{}] = acc
  /\ \A k \in Nat : k + 1 <= Len(s) => f[1..(k + 1)] = RenameNext(f[1..k], s[k + 1])

\* The same, without naming what the function is.
LEMMA RenamesGo == \A E : \A s \in Seq(E) : \A acc : \E f : Goes(s, acc, f, FoldLeft(RenameNext, acc, s))
<1> SUFFICES ASSUME NEW E, NEW s \in Seq(E), NEW acc PROVE \E f : Goes(s, acc, f, FoldLeft(RenameNext, acc, s))
  OBVIOUS
<1> DEFINE n == Len(s)
<1>0. n \in Nat /\ DOMAIN s = 1..n
  BY LenProperties
<1> HIDE DEF n
<1>1. PICK f : FoldLeft(RenameNext, acc, s) = f[1..n] /\ RenamesOn(s, acc, n, f)
  BY <1>0, RenamesUnfolds
<1>2. RenamesOn(s, acc, n, f)
  BY <1>1
<1>3. f[{}] = acc /\ \A k \in Nat : k + 1 <= n => f[1..(k + 1)] = RenameNext(f[1..k], s[k + 1])
  BY <1>0, <1>2, RenamesNext
<1>4. FoldLeft(RenameNext, acc, s) = f[1..n]
  BY <1>1
<1>5. Goes(s, acc, f, FoldLeft(RenameNext, acc, s))
  BY <1>3, <1>4, Zenon DEF Goes, n
<1> QED BY <1>5, Zenon

\* What holds at first and is kept by each call holds in the end.
LEMMA RenamesKeep ==
  ASSUME NEW E, NEW s \in Seq(E), NEW acc, NEW Good, acc \in Good,
         \A a \in Good, e \in E : RenameNext(a, e) \in Good
  PROVE  FoldLeft(RenameNext, acc, s) \in Good
<1> DEFINE n == Len(s)
<1>1. n \in Nat /\ DOMAIN s = 1..n /\ \A i \in 1..n : s[i] \in E
  BY LenProperties, ElementOfSeq
<1> HIDE DEF n
<1>2. PICK f : Goes(s, acc, f, FoldLeft(RenameNext, acc, s))
  BY RenamesGo, Zenon
<1>3. /\ FoldLeft(RenameNext, acc, s) = f[1..n] /\ f[{}] = acc
      /\ \A k \in Nat : k + 1 <= n => f[1..(k + 1)] = RenameNext(f[1..k], s[k + 1])
  BY <1>2, Zenon DEF Goes, n
<1> DEFINE T == {k \in Nat : k <= n => f[1..k] \in Good}
<1>4. 0 \in T
  <2>1. 1..0 = {}
    OBVIOUS
  <2> QED BY <2>1, <1>3
<1>5. ASSUME NEW k \in Nat, k \in T PROVE k + 1 \in T
  <2> SUFFICES ASSUME k + 1 <= n PROVE f[1..(k + 1)] \in Good
    OBVIOUS
  <2>1. f[1..k] \in Good /\ s[k + 1] \in E
    BY <1>1, <1>5
  <2>2. f[1..(k + 1)] = RenameNext(f[1..k], s[k + 1])
    BY <1>3
  <2> QED BY <2>1, <2>2
<1> HIDE DEF T
<1>6. Nat \subseteq T
  BY <1>4, <1>5, Induction
<1> QED BY <1>1, <1>3, <1>6 DEF T

\* Induction over sequences.
LEMMA SeqInduction ==
  ASSUME NEW E, NEW T, <<>> \in T, \A s \in Seq(E), e \in E : s \in T => Append(s, e) \in T
  PROVE  Seq(E) \subseteq T
<1> DEFINE N == {n \in Nat : \A s \in Seq(E) : Len(s) = n => s \in T}
<1>1. 0 \in N
  BY EmptySeq
<1>2. ASSUME NEW n \in Nat, n \in N PROVE n + 1 \in N
  <2> SUFFICES ASSUME NEW s \in Seq(E), Len(s) = n + 1 PROVE s \in T
    OBVIOUS
  <2>1. s # <<>>
    BY EmptySeq
  <2>2. PICK q \in Seq(E), e \in E : s = Append(q, e)
    BY <2>1, SequenceEmptyOrAppend
  <2>3. Len(q) = n
    BY <2>2, AppendProperties, LenProperties
  <2> QED BY <1>2, <2>2, <2>3
<1> HIDE DEF N
<1>3. Nat \subseteq N
  BY <1>1, <1>2, Induction
<1> QED BY <1>3, LenProperties DEF N

\* the function that FlattenSeq is defined by
FlatOn(s, n, f) == f = [i \in 1..n |-> IF i = 1 THEN s[i] ELSE f[i - 1] \o s[i]]

\* There is such a function.
LEMMA FlatExists ==
  ASSUME NEW s
  PROVE  \A n \in Nat : \E f : FlatOn(s, n, f)
<1> DEFINE T == {n \in Nat : \E f : FlatOn(s, n, f)}
<1>1. 0 \in T
  <2>1. FlatOn(s, 0, [i \in 1..0 |-> <<>>])
    BY DEF FlatOn
  <2> QED BY <2>1
<1>2. ASSUME NEW n \in Nat, n \in T PROVE n + 1 \in T
  <2>1. PICK f : FlatOn(s, n, f)
    BY <1>2
  <2> DEFINE g == [i \in 1..(n + 1) |-> IF i = n + 1 THEN IF i = 1 THEN s[i] ELSE f[n] \o s[i] ELSE f[i]]
  <2>a. \A i \in 1..n : f[i] = IF i = 1 THEN s[i] ELSE f[i - 1] \o s[i]
    BY <2>1 DEF FlatOn
  <2>b. \A i \in 1..n : g[i] = f[i]
    OBVIOUS
  <2>2. \A i \in 1..n : g[i] = f[i] /\ f[i] = IF i = 1 THEN s[i] ELSE f[i - 1] \o s[i]
    BY <2>a, <2>b, Zenon
  <2>3. g[n + 1] = IF n + 1 = 1 THEN s[n + 1] ELSE f[n] \o s[n + 1]
    OBVIOUS
  <2>4. g = [i \in 1..(n + 1) |-> g[i]]
    OBVIOUS
  <2> HIDE DEF g
  <2>5. ASSUME NEW i \in 1..(n + 1) PROVE g[i] = IF i = 1 THEN s[i] ELSE g[i - 1] \o s[i]
    <3>1. CASE i = n + 1
      <4>1. i - 1 = n /\ (i # 1 => n \in 1..n)
        BY <3>1
      <4> QED BY <3>1, <4>1, <2>2, <2>3
    <3>2. CASE i # n + 1
      <4>1. i \in 1..n /\ (i # 1 => i - 1 \in 1..n)
        BY <3>2
      <4> QED BY <4>1, <2>2
    <3> QED BY <3>1, <3>2
  <2>6. FlatOn(s, n + 1, g)
    BY <2>4, <2>5 DEF FlatOn
  <2> QED BY <2>6
<1> HIDE DEF T
<1>3. Nat \subseteq T
  BY <1>1, <1>2, Induction
<1> QED BY <1>3 DEF T

\* Flattening is going on from what is flattened of one sequence less.
LEMMA FlatUnfolds ==
  ASSUME NEW s, NEW n \in Nat, Len(s) = n, n # 0
  PROVE  \E f : FlattenSeq(s) = f[n] /\ f[1] = s[1]
                /\ \A i \in 1..n : i # 1 => f[i] = f[i - 1] \o s[i]
<1> DEFINE f == CHOOSE g : FlatOn(s, n, g)
<1>1. FlatOn(s, n, f)
  BY FlatExists
<1>2. FlattenSeq(s) = f[n]
  BY DEF FlattenSeq, FlatOn
<1> HIDE DEF f
<1>3. \A i \in 1..n : f[i] = IF i = 1 THEN s[i] ELSE f[i - 1] \o s[i]
  BY <1>1 DEF FlatOn
<1>4. 1 \in 1..n
  OBVIOUS
<1>5. f[1] = s[1] /\ \A i \in 1..n : i # 1 => f[i] = f[i - 1] \o s[i]
  BY <1>3, <1>4
<1> QED BY <1>2, <1>5, Zenon

\* What is flattened of nothing.
LEMMA FlatEmpty == FlattenSeq(<<>>) = <<>>
BY DEF FlattenSeq

\* What is flattened of one sequence more.
LEMMA FlatAppend ==
  ASSUME NEW E, NEW s \in Seq(Seq(E)), NEW e \in Seq(E)
  PROVE  FlattenSeq(Append(s, e)) = FlattenSeq(s) \o e
<1> DEFINE n == Len(s)
           q == Append(s, e)
<1>1. n \in Nat /\ Len(q) = n + 1 /\ q[n + 1] = e /\ \A i \in 1..n : q[i] = s[i]
  BY AppendProperties, LenProperties
<1>2. CASE n = 0
  <2>1. s = <<>>
    BY <1>2, EmptySeq
  <2>2. FlattenSeq(q) = e
    <3>1. Len(q) = 1 /\ q[1] = e
      BY <1>1, <1>2
    <3> HIDE DEF q
    <3>2. \E g : FlattenSeq(q) = g[1] /\ g[1] = q[1] /\ \A i \in 1..1 : i # 1 => g[i] = g[i - 1] \o q[i]
      <4>1. 1 \in Nat /\ 1 # 0
        OBVIOUS
      <4> QED BY <3>1, <4>1, FlatUnfolds, Zenon
    <3> QED BY <3>1, <3>2
  <2> QED BY <2>1, <2>2, FlatEmpty, ConcatEmptySeq
<1>3. CASE n # 0
  <2> HIDE DEF n, q
  <2>1. PICK f : FlattenSeq(s) = f[n] /\ f[1] = s[1] /\ \A i \in 1..n : i # 1 => f[i] = f[i - 1] \o s[i]
    BY <1>1, <1>3, FlatUnfolds DEF n
  <2>2. PICK g : FlattenSeq(q) = g[n + 1] /\ g[1] = q[1]
                 /\ \A i \in 1..(n + 1) : i # 1 => g[i] = g[i - 1] \o q[i]
    <3>1. n + 1 \in Nat /\ n + 1 # 0
      BY <1>1
    <3> QED BY <1>1, <3>1, FlatUnfolds
  <2> DEFINE T == {k \in Nat : k + 1 <= n => f[k + 1] = g[k + 1]}
  <2>3. 0 \in T
    BY <1>1, <1>3, <2>1, <2>2
  <2>4. ASSUME NEW k \in Nat, k \in T PROVE k + 1 \in T
    <3> SUFFICES ASSUME (k + 1) + 1 <= n PROVE f[(k + 1) + 1] = g[(k + 1) + 1]
      OBVIOUS
    <3> DEFINE i == (k + 1) + 1
    <3>1. i \in 1..n /\ i \in 1..(n + 1) /\ i # 1 /\ i - 1 = k + 1
      BY <1>1
    <3>2. f[k + 1] = g[k + 1]
      BY <1>1, <2>4
    <3> HIDE DEF i
    <3>3. f[i] = f[k + 1] \o s[i] /\ g[i] = g[k + 1] \o q[i] /\ q[i] = s[i]
      BY <1>1, <2>1, <2>2, <3>1
    <3>4. f[i] = g[i]
      BY <3>2, <3>3
    <3> QED BY <3>4 DEF i
  <2> HIDE DEF T
  <2>5. Nat \subseteq T
    BY <2>3, <2>4, Induction
  <2>6. n - 1 \in Nat /\ (n - 1) + 1 = n
    BY <1>1, <1>3
  <2>7. f[n] = g[n]
    BY <2>5, <2>6 DEF T
  <2>8. g[n + 1] = g[n] \o q[n + 1]
    <3>1. n + 1 \in 1..(n + 1) /\ n + 1 # 1 /\ (n + 1) - 1 = n
      BY <1>1, <1>3
    <3> QED BY <2>2, <3>1
  <2>9. FlattenSeq(q) = FlattenSeq(s) \o e
    BY <1>1, <2>1, <2>2, <2>7, <2>8
  <2> QED BY <2>9 DEF q
<1> QED BY <1>2, <1>3

\* A sequence of sequences of E becomes a sequence of E.
LEMMA FlatType ==
  ASSUME NEW E
  PROVE  \A s \in Seq(Seq(E)) : FlattenSeq(s) \in Seq(E)
<1> DEFINE T == {s \in Seq(Seq(E)) : FlattenSeq(s) \in Seq(E)}
<1>1. <<>> \in T
  BY FlatEmpty, EmptySeq
<1>2. ASSUME NEW s \in Seq(Seq(E)), NEW e \in Seq(E), s \in T PROVE Append(s, e) \in T
  <2>1. FlattenSeq(s) \o e \in Seq(E)
    BY <1>2, ConcatProperties
  <2> QED BY <2>1, FlatAppend, AppendProperties
<1> HIDE DEF T
<1>3. Seq(Seq(E)) \subseteq T
  BY <1>1, <1>2, SeqInduction
<1> QED BY <1>3 DEF T

-----------------------------------------------------------------------------
(* Paths *)

\* What is assumed of paths.
LEMMA PathFacts ==
  /\ \A p \in Path : p \in Seq(Piece) /\ Len(p) \in Nat /\ Len(p) > 0
  /\ \A p \in Path : \A n \in 1..(Len(p) - 1) : p[n + 1] \in Sub => SubSeq(p, 1, n) \in Path
<1>1. \A p \in Path : p \in Seq(Piece)
  <2>1. Paths \in Seq(Seq(Piece))
    BY PathsAssumption
  <2>2. DOMAIN Paths = 1..Len(Paths) /\ \A i \in 1..Len(Paths) : Paths[i] \in Seq(Piece)
    BY <2>1, LenProperties, ElementOfSeq
  <2> QED BY <2>2 DEF Path, ToSet
<1>2. \A p \in Path : Len(p) \in Nat /\ Len(p) > 0
  <2> TAKE p \in Path
  <2>1. p # <<>> /\ p \in Seq(Piece)
    BY <1>1, PathsAssumption
  <2> QED BY <2>1, EmptySeq
<1> QED BY <1>1, <1>2, PathsAssumption

\* isPrefix, by positions.
LEMMA PrefixIs ==
  ASSUME NEW E, NEW q \in Seq(E), NEW p \in Seq(E)
  PROVE  IsPrefix(q, p) <=> Len(q) <= Len(p) /\ \A i \in 1..Len(q) : q[i] = p[i]
<1>1. Len(q) \in Nat /\ Len(p) \in Nat
  BY LenProperties
<1> SUFFICES ASSUME Len(q) <= Len(p)
             PROVE  SubSeq(q, 1, Len(q)) = SubSeq(p, 1, Len(q)) <=> \A i \in 1..Len(q) : q[i] = p[i]
  BY DEF IsPrefix
<1> DEFINE s == SubSeq(p, 1, Len(q))
<1>2. SubSeq(q, 1, Len(q)) = q
  BY SubSeqFull
<1>3. \A i \in 1..Len(q) : p[i] \in E
  BY <1>1, ElementOfSeq
<1>4. s \in Seq(E) /\ Len(s) = Len(q) /\ \A i \in 1..Len(q) : s[i] = p[i]
  <2>1. /\ s \in Seq(E) /\ Len(s) = IF 1 <= Len(q) THEN Len(q) - 1 + 1 ELSE 0
        /\ \A i \in 1..(Len(q) - 1 + 1) : s[i] = p[1 + i - 1]
    BY <1>1, <1>3, SubSeqProperties
  <2>2. Len(q) - 1 + 1 = Len(q) /\ \A i \in 1..Len(q) : 1 + i - 1 = i
    BY <1>1
  <2> HIDE DEF s
  <2> QED BY <1>1, <2>1, <2>2
<1> HIDE DEF s
<1>5. s = q <=> \A i \in 1..Len(q) : q[i] = s[i]
  BY <1>4, SeqEqual
<1> QED BY <1>2, <1>4, <1>5 DEF s

\* What is under q begins with q and goes on, if at all, with a slash.
LEMMA UnderIs ==
  ASSUME NEW q \in Path, NEW p \in Path
  PROVE  /\ p \in Under[q] <=> /\ Len(q) <= Len(p) /\ \A i \in 1..Len(q) : q[i] = p[i]
                               /\ p # q => p[Len(q) + 1] \in Sub
         /\ p \in Under[q] /\ p # q => Len(q) < Len(p)
<1>1. /\ p \in Seq(Piece) /\ q \in Seq(Piece) /\ Len(p) \in Nat /\ Len(q) \in Nat
  BY PathFacts
<1>2. p \in Under[q] <=> IsPrefix(q, p) /\ (p # q => p[Len(q) + 1] \in Sub)
  BY DEF Under
<1>3. IsPrefix(q, p) <=> Len(q) <= Len(p) /\ \A i \in 1..Len(q) : q[i] = p[i]
  BY <1>1, PrefixIs
<1>4. Len(q) = Len(p) /\ (\A i \in 1..Len(q) : q[i] = p[i]) => q = p
  BY <1>1, SeqEqual
<1> QED BY <1>1, <1>2, <1>3, <1>4

\* What is above p has p under it.
LEMMA AboveIs ==
  ASSUME NEW p \in Path, NEW d
  PROVE  d \in Above[p] <=> d \in Path /\ d # p /\ p \in Under[d]
BY DEF Above

\* What is under what is an order, and what is above a path is a chain.
LEMMA UnderOrder ==
  /\ \A p \in Path : p \in Under[p] /\ Under[p] \subseteq Path
  /\ \A p, q, r \in Path : q \in Under[p] /\ r \in Under[q] => r \in Under[p]
  /\ \A p, q \in Path : q \in Under[p] /\ p \in Under[q] => p = q
  /\ \A p, q, r \in Path : r \in Under[p] /\ r \in Under[q] => q \in Under[p] \/ p \in Under[q]
<1>1. \A p \in Path : Len(p) \in Nat
  BY PathFacts
<1>2. \A p \in Path : p \in Under[p]
  BY <1>1, UnderIs
<1>3. \A p \in Path : Under[p] \subseteq Path
  BY DEF Under
<1>4. \A p, q, r \in Path : q \in Under[p] /\ r \in Under[q] => r \in Under[p]
  <2> SUFFICES ASSUME NEW p \in Path, NEW q \in Path, NEW r \in Path,
                      q \in Under[p], r \in Under[q], q # p, r # q
               PROVE  r \in Under[p]
    OBVIOUS
  <2>1. Len(p) < Len(q) /\ Len(q) < Len(r) /\ (\A i \in 1..Len(p) : p[i] = q[i])
        /\ (\A i \in 1..Len(q) : q[i] = r[i]) /\ q[Len(p) + 1] \in Sub
    BY UnderIs
  <2>2. \A i \in 1..Len(p) : i \in 1..Len(q)
    BY <1>1, <2>1
  <2>3. Len(p) + 1 \in 1..Len(q) /\ Len(p) <= Len(r)
    BY <1>1, <2>1
  <2>4. r[Len(p) + 1] \in Sub /\ \A i \in 1..Len(p) : p[i] = r[i]
    BY <2>1, <2>2, <2>3
  <2> QED BY <2>3, <2>4, UnderIs
<1>5. \A p, q \in Path : q \in Under[p] /\ p \in Under[q] => p = q
  <2> TAKE p, q \in Path
  <2>1. q \in Under[p] /\ p # q => Len(p) < Len(q)
    BY UnderIs
  <2>2. p \in Under[q] /\ p # q => Len(q) < Len(p)
    BY UnderIs
  <2> QED BY <1>1, <2>1, <2>2
<1>6. \A p, q, r \in Path : r \in Under[p] /\ r \in Under[q] => q \in Under[p] \/ p \in Under[q]
  <2>0. ASSUME NEW p \in Path, NEW q \in Path, NEW r \in Path,
               r \in Under[p], r \in Under[q], Len(p) <= Len(q), p # q
        PROVE  q \in Under[p]
    <3>1. Len(p) <= Len(r) /\ Len(q) <= Len(r) /\ (\A i \in 1..Len(p) : p[i] = r[i])
          /\ (\A i \in 1..Len(q) : q[i] = r[i]) /\ (r # p => r[Len(p) + 1] \in Sub)
      BY <2>0, UnderIs
    <3>2. \A i \in 1..Len(p) : i \in 1..Len(q)
      BY <1>1, <2>0
    <3>3. \A i \in 1..Len(p) : p[i] = q[i]
      BY <3>1, <3>2
    <3>4. Len(p) # Len(q)
      BY <2>0, <3>3, PathFacts, SeqEqual
    <3>5. Len(p) + 1 \in 1..Len(q) /\ Len(p) < Len(r)
      BY <1>1, <2>0, <3>1, <3>4
    <3>6. q[Len(p) + 1] \in Sub
      BY <1>1, <3>1, <3>5
    <3> QED BY <2>0, <3>3, <3>6, UnderIs
  <2>1. \A p, q \in Path : Len(p) <= Len(q) \/ Len(q) <= Len(p)
    BY <1>1
  <2> QED BY <1>2, <2>0, <2>1
<1> QED BY <1>2, <1>3, <1>4, <1>5, <1>6

\* Concatenation with the rest of a path
LEMMA MovedIs ==
  ASSUME NEW p \in Seq(Piece), NEW from \in Seq(Piece), NEW to \in Seq(Piece), Len(from) <= Len(p)
  PROVE  /\ MovedTo(p, from, to) \in Seq(Piece)
         /\ Len(MovedTo(p, from, to)) = Len(to) + Len(p) - Len(from)
         /\ \A i \in 1..Len(to) : MovedTo(p, from, to)[i] = to[i]
         /\ \A i \in (Len(from) + 1)..Len(p) : MovedTo(p, from, to)[Len(to) + i - Len(from)] = p[i]
<1> DEFINE a == Len(from)  b == Len(p)  c == Len(to)  u == SubSeq(p, a + 1, b)  m == to \o u
<1>1. a \in Nat /\ b \in Nat /\ c \in Nat /\ a <= b
  BY LenProperties
<1>2. \A i \in (a + 1)..b : p[i] \in Piece
  <2>1. \A i \in 1..b : p[i] \in Piece
    BY ElementOfSeq
  <2>2. \A i \in (a + 1)..b : i \in 1..b
    BY <1>1
  <2> QED BY <2>1, <2>2
<1>3. u \in Seq(Piece) /\ Len(u) = b - a /\ \A i \in 1..(b - a) : u[i] = p[a + i]
  <2> HIDE DEF a, b
  <2>1. /\ u \in Seq(Piece) /\ Len(u) = IF a + 1 <= b THEN b - (a + 1) + 1 ELSE 0
        /\ \A i \in 1..(b - (a + 1) + 1) : u[i] = p[(a + 1) + i - 1]
    BY <1>1, <1>2, SubSeqProperties
  <2> HIDE DEF u
  <2>2. b - (a + 1) + 1 = b - a /\ \A i \in 1..(b - a) : (a + 1) + i - 1 = a + i
    BY <1>1
  <2> QED BY <1>1, <2>1, <2>2
<1> HIDE DEF a, b, u
<1>4. /\ m \in Seq(Piece) /\ Len(m) = c + Len(u)
      /\ \A i \in 1..(c + Len(u)) : m[i] = IF i <= c THEN to[i] ELSE u[i - c]
  BY <1>3, ConcatProperties
<1> HIDE DEF c, m
<1>5. \A i \in 1..c : m[i] = to[i]
  BY <1>1, <1>3, <1>4
<1>6. \A i \in (a + 1)..b : m[c + i - a] = p[i]
  <2> TAKE i \in (a + 1)..b
  <2>1. c + i - a \in 1..(c + Len(u)) /\ ~(c + i - a <= c) /\ (c + i - a) - c = i - a
        /\ i - a \in 1..(b - a) /\ a + (i - a) = i
    BY <1>1, <1>3
  <2> QED BY <1>3, <1>4, <2>1
<1>7. MovedTo(p, from, to) = m /\ Len(m) = c + b - a
  BY <1>1, <1>3, <1>4 DEF MovedTo, m, u, a, b
<1> QED BY <1>4, <1>5, <1>6, <1>7 DEF a, b, c

\* What lies below a directory keeps its place below what the directory becomes.
LEMMA MovedUnder ==
  ASSUME NEW from \in Path, NEW to \in Path, NEW d \in Under[from], NEW p \in Under[d],
         MovedTo(p, from, to) \in Path
  PROVE  /\ MovedTo(d, from, to) \in Path
         /\ MovedTo(p, from, to) \in Under[MovedTo(d, from, to)]
         /\ p # d => MovedTo(p, from, to) # MovedTo(d, from, to)
<1> DEFINE x == MovedTo(p, from, to)  y == MovedTo(d, from, to)
           a == Len(from)  b == Len(to)  k == Len(d)  n == Len(p)
<1>1. /\ d \in Path /\ p \in Path /\ p \in Under[from]
      /\ p \in Seq(Piece) /\ d \in Seq(Piece) /\ from \in Seq(Piece) /\ to \in Seq(Piece)
      /\ a \in Nat /\ b \in Nat /\ k \in Nat /\ n \in Nat /\ a > 0 /\ b > 0
  BY UnderOrder, PathFacts
<1>2. /\ a <= k /\ k <= n /\ (\A i \in 1..k : d[i] = p[i])
      /\ (p # d => p[k + 1] \in Sub /\ k < n)
  BY <1>1, UnderIs
<1> HIDE DEF a, b, k, n, x, y
<1>3. a <= n
  BY <1>1, <1>2
<1>4. /\ x \in Seq(Piece) /\ Len(x) = b + n - a /\ (\A i \in 1..b : x[i] = to[i])
      /\ \A i \in (a + 1)..n : x[b + i - a] = p[i]
  <2>1. Len(from) <= Len(p)
    BY <1>3 DEF a, n
  <2>2. /\ x \in Seq(Piece) /\ Len(x) = Len(to) + Len(p) - Len(from)
        /\ (\A i \in 1..Len(to) : x[i] = to[i])
        /\ \A i \in (Len(from) + 1)..Len(p) : x[Len(to) + i - Len(from)] = p[i]
    <3>1. p \in Seq(Piece) /\ from \in Seq(Piece) /\ to \in Seq(Piece)
      BY <1>1
    <3> QED BY <2>1, <3>1, MovedIs, Zenon DEF x
  <2> QED BY <2>2 DEF a, b, n
<1>5. /\ y \in Seq(Piece) /\ Len(y) = b + k - a /\ (\A i \in 1..b : y[i] = to[i])
      /\ \A i \in (a + 1)..k : y[b + i - a] = d[i]
  <2>1. Len(from) <= Len(d)
    BY <1>2 DEF a, k
  <2>2. /\ y \in Seq(Piece) /\ Len(y) = Len(to) + Len(d) - Len(from)
        /\ (\A i \in 1..Len(to) : y[i] = to[i])
        /\ \A i \in (Len(from) + 1)..Len(d) : y[Len(to) + i - Len(from)] = d[i]
    <3>1. d \in Seq(Piece) /\ from \in Seq(Piece) /\ to \in Seq(Piece)
      BY <1>1
    <3> QED BY <2>1, <3>1, MovedIs, Zenon DEF y
  <2> QED BY <2>2 DEF a, b, k
<1>6. \A i \in 1..Len(y) : y[i] = x[i]
  <2> TAKE i \in 1..Len(y)
  <2>1. CASE i \in 1..b
    BY <1>4, <1>5, <2>1
  <2>2. CASE i \notin 1..b
    <3> DEFINE j == i - b + a
    <3>1. j \in (a + 1)..k /\ j \in (a + 1)..n /\ b + j - a = i /\ j \in 1..k
      BY <1>1, <1>2, <1>5, <2>2
    <3> HIDE DEF j
    <3> QED BY <1>2, <1>4, <1>5, <3>1
  <2> QED BY <2>1, <2>2
<1>7. CASE p = d
  <2>1. x = y
    BY <1>7 DEF x, y
  <2>2. x \in Path
    BY DEF x
  <2>3. y \in Path /\ x \in Under[y]
    BY <2>1, <2>2, UnderOrder
  <2> QED BY <1>7, <2>3 DEF x, y
<1>8. CASE p # d
  <2>1. Len(y) \in Nat /\ Len(x) \in Nat /\ Len(y) < Len(x) /\ Len(y) > 0
    BY <1>1, <1>2, <1>4, <1>5, <1>8
  <2>2. x[Len(y) + 1] \in Sub
    <3>1. k + 1 \in (a + 1)..n /\ b + (k + 1) - a = Len(y) + 1
      BY <1>1, <1>2, <1>5, <1>8
    <3>2. x[b + (k + 1) - a] = p[k + 1]
      BY <1>4, <3>1
    <3> QED BY <1>2, <1>8, <3>1, <3>2
  <2>3. x \in Path
    BY DEF x
  <2>4. y \in Path
    <3>1. Len(y) \in 1..(Len(x) - 1)
      BY <2>1
    <3>2. SubSeq(x, 1, Len(y)) \in Path
      BY <2>2, <2>3, <3>1, PathFacts
    <3>3. SubSeq(x, 1, Len(y)) = y
      <4>1. IsPrefix(y, x)
        BY <1>4, <1>5, <1>6, <2>1, PrefixIs
      <4> QED BY <1>5, <4>1, SubSeqFull DEF IsPrefix
    <3> QED BY <3>2, <3>3
  <2>5. x \in Under[y]
    BY <1>6, <2>1, <2>2, <2>3, <2>4, UnderIs
  <2>6. x # y
    BY <2>1
  <2> QED BY <2>4, <2>5, <2>6 DEF x, y
<1> QED BY <1>7, <1>8

-----------------------------------------------------------------------------
(* Calls on a tree *)

\* A tree: what lies under a path that is no directory is not there.
LEMMA TreeIs ==
  ASSUME NEW t
  PROVE  IsTree(t) <=> /\ t \in [Path -> Content \cup {Dir, None}]
                       /\ \A p, d \in Path : t[p] # None /\ d # p /\ p \in Under[d] => t[d] = Dir
BY DEF IsTree, ParentIsDir, Above

\* The kinds of node are apart.
LEMMA Nodes == None \notin Content /\ Dir \notin Content /\ Dir # None /\ Empty \in Content
BY SyncAssumption

\* A rename takes the directories above what it moves along.
LEMMA RenameKeepsTree ==
  ASSUME NEW t, IsTree(t), NEW o \in Op, o.type \in {"RENAME", "RENAME_DIR"}, Succeeds(t, o), NEW v
  PROVE  IsTree(Effect(t, o, v))
<1> DEFINE from == o.path  to == o.to  T == Effect(t, o, v)
<1>1. from \in Path /\ to \in Path
  BY DEF Op
<1>2. \A p, d \in Path : t[p] # None /\ d # p /\ p \in Under[d] => t[d] = Dir
  BY TreeIs
<1>3. t \in [Path -> Content \cup {Dir, None}]
  BY TreeIs
<1>4. T = [p \in Path |->
             LET q == MovedTo(p, to, from) IN
             IF p \in Under[to] THEN IF q \in Path THEN t[q] ELSE None
             ELSE IF p \in Under[from] THEN None ELSE t[p]]
  BY DEF Effect
<1> HIDE DEF T
<1>5. ParentIsDir(t, to)
  BY DEF Succeeds
<1>6. \A d \in Path : d # to /\ to \in Under[d] => t[d] = Dir /\ d \notin Under[from]
  <2> SUFFICES ASSUME NEW d \in Path, d # to, to \in Under[d]
               PROVE  t[d] = Dir /\ d \notin Under[from]
    OBVIOUS
  <2>1. t[d] = Dir
    BY <1>1, <1>5, AboveIs DEF ParentIsDir
  <2>2. ASSUME d \in Under[from] PROVE FALSE
    <3>1. CASE o.type = "RENAME_DIR"
      <4>1. to \notin Under[from]
        BY <3>1 DEF Succeeds
      <4> QED BY <1>1, <2>2, <4>1, UnderOrder
    <3>2. CASE o.type = "RENAME"
      <4>1. t[from] \in Content
        BY <3>2 DEF Succeeds, IsFile
      <4>2. t[from] # Dir
        BY <4>1, Nodes
      <4>3. d # from
        BY <2>1, <4>2
      <4>4. t[d] # None
        BY <2>1, Nodes
      <4> QED BY <1>1, <1>2, <2>2, <4>2, <4>3, <4>4
    <3> QED BY <3>1, <3>2
  <2> QED BY <2>1, <2>2
<1>7. T \in [Path -> Content \cup {Dir, None}]
  BY <1>3, <1>4
<1>8. ASSUME NEW p \in Path, NEW d \in Path, T[p] # None, d # p, p \in Under[d]
      PROVE  T[d] = Dir
  <2>1. CASE p \in Under[to] /\ d \in Under[to]
    <3> DEFINE q == MovedTo(p, to, from)  e == MovedTo(d, to, from)
    <3>1. T[p] = IF q \in Path THEN t[q] ELSE None
      BY <1>4, <2>1
    <3>2. q \in Path /\ t[q] # None
      BY <1>8, <3>1
    <3>3. e \in Path /\ q \in Under[e] /\ q # e
      BY <1>1, <1>8, <2>1, <3>2, MovedUnder
    <3>4. T[d] = IF e \in Path THEN t[e] ELSE None
      BY <1>4, <2>1
    <3> HIDE DEF q, e
    <3> QED BY <1>2, <3>2, <3>3, <3>4
  <2>2. CASE p \in Under[to] /\ d \notin Under[to]
    <3>1. to \in Under[d] /\ d # to
      BY <1>1, <1>8, <2>2, UnderOrder
    <3> QED BY <1>4, <1>6, <2>2, <3>1
  <2>3. CASE p \notin Under[to]
    <3>1. p \notin Under[from] /\ t[p] # None
      BY <1>4, <1>8, <2>3
    <3>2. d \notin Under[to] /\ d \notin Under[from]
      BY <1>1, <1>8, <2>3, <3>1, UnderOrder
    <3> QED BY <1>2, <1>4, <1>8, <3>1, <3>2
  <2> QED BY <2>1, <2>2, <2>3
<1>9. IsTree(T)
  BY <1>7, <1>8, TreeIs
<1> QED BY <1>9 DEF T

\* A call that succeeds leaves a tree.
LEMMA EffectKeepsTree ==
  ASSUME NEW t, IsTree(t), NEW o \in Op, Succeeds(t, o), NEW v \in Content
  PROVE  IsTree(Effect(t, o, v))
<1>1. CASE o.type \in {"RENAME", "RENAME_DIR"}
  BY <1>1, RenameKeepsTree
<1>2. CASE o.type \notin {"RENAME", "RENAME_DIR"}
  <2>1. o.path \in Path /\ o.type \in {"CREATE", "WRITE_DONE", "UNLINK", "MKDIR", "RMDIR"}
    BY <1>2 DEF Op
  <2>2. /\ t \in [Path -> Content \cup {Dir, None}]
        /\ \A p, d \in Path : t[p] # None /\ d # p /\ p \in Under[d] => t[d] = Dir
    BY TreeIs
  <2> DEFINE x == IF o.type \in {"CREATE", "WRITE_DONE"} THEN v
                  ELSE IF o.type = "MKDIR" THEN Dir ELSE None
             T == [t EXCEPT ![o.path] = x]
  <2>3. Effect(t, o, v) = T
    BY <2>1 DEF Effect
  <2>4. \A p \in Path : T[p] = IF p = o.path THEN x ELSE t[p]
    BY <2>1, <2>2
  <2>5. T \in [Path -> Content \cup {Dir, None}]
    BY <2>1, <2>2
  <2>6. \A p \in Path : o.path # p /\ p \in Under[o.path] => t[p] = None
    <3>1. CASE o.type \in {"CREATE", "MKDIR"}
      <4>1. t[o.path] = None
        BY <3>1 DEF Succeeds
      <4> QED BY <2>1, <2>2, <4>1, Nodes
    <3>2. CASE o.type \in {"WRITE_DONE", "UNLINK"}
      <4>1. t[o.path] \in Content
        BY <3>2 DEF Succeeds, IsFile
      <4> QED BY <2>1, <2>2, <4>1, Nodes
    <3>3. CASE o.type = "RMDIR"
      <4>1. Children(t, o.path) = {}
        BY <3>3 DEF Succeeds
      <4> QED BY <2>1, <4>1 DEF Children
    <3> QED BY <2>1, <3>1, <3>2, <3>3
  <2>7. x # None => \A d \in Path : d # o.path /\ o.path \in Under[d] => t[d] = Dir
    <3>1. CASE o.type \in {"CREATE", "MKDIR"}
      <4>1. ParentIsDir(t, o.path)
        BY <3>1 DEF Succeeds
      <4> QED BY <2>1, <4>1, AboveIs DEF ParentIsDir
    <3>2. CASE o.type = "WRITE_DONE"
      <4>1. t[o.path] \in Content
        BY <3>2 DEF Succeeds, IsFile
      <4> QED BY <2>1, <2>2, <4>1, Nodes
    <3> QED BY <2>1, <3>1, <3>2
  <2> HIDE DEF x, T
  <2>8. \A p, d \in Path : T[p] # None /\ d # p /\ p \in Under[d] => T[d] = Dir
    <3> SUFFICES ASSUME NEW p \in Path, NEW d \in Path, T[p] # None, d # p, p \in Under[d]
                 PROVE  T[d] = Dir
      OBVIOUS
    <3>1. d # o.path
      BY <2>4, <2>6
    <3> QED BY <2>2, <2>4, <2>7, <3>1
  <2> QED BY <2>3, <2>5, <2>8, TreeIs
<1> QED BY <1>1, <1>2

-----------------------------------------------------------------------------
(* Change sets and recorded calls *)

\* A set of names that is rebased is one.
LEMMA RebaseType ==
  ASSUME NEW S \in SUBSET Name, NEW from \in Path, NEW to \in Path
  PROVE  Rebase(S, from, to) \in SUBSET Name
<1>1. from \in Seq(Piece) /\ to \in Seq(Piece)
  BY PathFacts
<1>2. \A p \in S : IsPrefix(from, p) => MovedTo(p, from, to) \in Seq(Piece)
  <2> SUFFICES ASSUME NEW p \in S, IsPrefix(from, p) PROVE MovedTo(p, from, to) \in Seq(Piece)
    OBVIOUS
  <2>1. p \in Seq(Piece) /\ Len(from) <= Len(p)
    BY DEF Name, IsPrefix
  <2> QED BY <1>1, <2>1, MovedIs
<1> QED BY <1>2 DEF Rebase, Name

\* Every path may be the name of something that is created.
LEMMA PathIsName == Path \subseteq Name
BY PathFacts DEF Name

\* A record more leaves a change set.
LEMMA MergeOneType ==
  ASSUME NEW b \in ChangeSet, NEW o \in Op
  PROVE  MergeOne(b, o) \in ChangeSet
<1>1. o.path \in Path /\ o.path \in Name
  BY PathIsName DEF Op
<1>2. CASE o.type \in {"CREATE", "WRITE_DONE"}
  BY <1>1, <1>2 DEF MergeOne, FileNew, ChangeSet
<1>3. CASE o.type = "RENAME"
  <2>1. o.to \in Path /\ o.to \in Name
    BY <1>3, PathIsName DEF Op
  <2> QED BY <1>1, <1>3, <2>1 DEF MergeOne, FileNew, FileGone, ChangeSet
<1>4. CASE o.type = "UNLINK"
  BY <1>1, <1>4 DEF MergeOne, FileGone, ChangeSet
<1>5. CASE o.type = "MKDIR"
  BY <1>1, <1>5 DEF MergeOne, DirNew, ChangeSet
<1>6. CASE o.type = "RMDIR"
  BY <1>1, <1>6 DEF MergeOne, DirGone, ChangeSet
<1>7. CASE o.type = "RENAME_DIR"
  <2>1. o.to \in Path
    BY <1>7 DEF Op
  <2>2. Rebase(b.newFiles, o.path, o.to) \in SUBSET Name /\ Rebase(b.newDirs, o.path, o.to) \in SUBSET Name
    <3>1. b.newFiles \in SUBSET Name /\ b.newDirs \in SUBSET Name
      BY DEF ChangeSet
    <3> QED BY <1>1, <2>1, <3>1, RebaseType
  <2>3. MergeOne(b, o) = DirMoved(b, o.path, o.to)
    BY <1>7 DEF MergeOne
  <2> DEFINE F == Rebase(b.newFiles, o.path, o.to)  D == Rebase(b.newDirs, o.path, o.to)
             R == b.renameDirs \cup {<<o.path, o.to>>}
  <2>4. MergeOne(b, o) = [b EXCEPT !.renameDirs = R, !.newFiles = F, !.newDirs = D]
    BY <2>3 DEF DirMoved
  <2>5. R \in SUBSET (Path \X Path)
    <3>1. b.renameDirs \in SUBSET (Path \X Path) /\ <<o.path, o.to>> \in Path \X Path
      BY <1>1, <2>1 DEF ChangeSet
    <3> QED BY <3>1
  <2> HIDE DEF F, D, R
  <2> QED BY <2>2, <2>4, <2>5 DEF F, D, ChangeSet
<1> QED BY <1>2, <1>3, <1>4, <1>5, <1>6, <1>7 DEF Op

\* No changes are a change set.
LEMMA NoChangesType == NoChanges \in ChangeSet
BY DEF NoChanges, ChangeSet

\* What is merged is a change set.
LEMMA MergeType == \A s \in Seq(Op) : Merge(s) \in ChangeSet
<1> DEFINE T == {s \in Seq(Op) : Merge(s) \in ChangeSet}
<1>1. <<>> \in T
  BY MergeEmpty, NoChangesType, EmptySeq
<1>2. ASSUME NEW s \in Seq(Op), NEW o \in Op, s \in T PROVE Append(s, o) \in T
  <2>1. Merge(Append(s, o)) = MergeOne(Merge(s), o) /\ Append(s, o) \in Seq(Op)
    BY MergeAppend, AppendProperties
  <2> QED BY <1>2, <2>1, MergeOneType
<1> HIDE DEF T
<1>3. Seq(Op) \subseteq T
  BY <1>1, <1>2, SeqInduction
<1> QED BY <1>3 DEF T

\* Paths is a sequence of paths.
LEMMA PathsType == Paths \in Seq(Path)
<1>1. Paths \in Seq(Seq(Piece))
  BY PathsAssumption
<1>2. Len(Paths) \in Nat /\ DOMAIN Paths = 1..Len(Paths)
      /\ Paths = [i \in 1..Len(Paths) |-> Paths[i]]
  BY <1>1, LenProperties
<1>3. \A i \in 1..Len(Paths) : Paths[i] \in Path
  BY <1>2 DEF Path, ToSet
<1>4. Paths \in [1..Len(Paths) -> Path]
  BY <1>2, <1>3
<1> QED BY <1>2, <1>4, SeqDef

CallTypes == {"CREATE", "WRITE_DONE", "UNLINK", "MKDIR", "RMDIR"}

\* The calls that are recorded for the paths of a set
LEMMA CallsAre ==
  ASSUME NEW type \in CallTypes, NEW S
  PROVE  /\ Calls(type, S) \in Seq(Op)
         /\ ToSet(Calls(type, S)) = {[type |-> type, path |-> p, to |-> <<>>] : p \in Path \cap S}
<1> DEFINE s == Chosen(Paths, S)
           q == [i \in DOMAIN s |-> [type |-> type, path |-> s[i], to |-> <<>>]]
<1>1. s \in Seq(Path) /\ ToSet(s) = Path \cap S
  BY PathsType, ChosenIs DEF Path
<1>2. Calls(type, S) = q
  BY DEF Calls
<1> HIDE DEF s
<1>3. DOMAIN s = 1..Len(s) /\ Len(s) \in Nat /\ \A i \in 1..Len(s) : s[i] \in Path
  BY <1>1, LenProperties, ElementOfSeq
<1>4. q \in [1..Len(s) -> Op]
  BY <1>3 DEF Op, CallTypes
<1>5. q \in Seq(Op)
  BY <1>3, <1>4, SeqDef
<1>6. ToSet(q) = {[type |-> type, path |-> p, to |-> <<>>] : p \in ToSet(s)}
  <2>1. DOMAIN q = DOMAIN s /\ \A i \in DOMAIN s : q[i] = [type |-> type, path |-> s[i], to |-> <<>>]
    OBVIOUS
  <2> HIDE DEF q
  <2> QED BY <2>1 DEF ToSet
<1> HIDE DEF q
<1> QED BY <1>1, <1>2, <1>5, <1>6

\* Pairs is a sequence of pairs of paths.
LEMMA PairsType == Pairs \in Seq(Path \X Path)
<1> DEFINE n == Len(Paths)
           row(i) == [j \in DOMAIN Paths |-> <<Paths[i], Paths[j]>>]
           rows == [i \in DOMAIN Paths |-> row(i)]
<1>1. n \in Nat /\ DOMAIN Paths = 1..n /\ \A i \in 1..n : Paths[i] \in Path
  BY PathsType, LenProperties, ElementOfSeq
<1> HIDE DEF n
<1>2. \A i \in 1..n : row(i) \in [1..n -> Path \X Path]
  BY <1>1
<1>3. \A i \in 1..n : row(i) \in Seq(Path \X Path)
  BY <1>1, <1>2, SeqDef
<1> HIDE DEF row
<1>4. rows \in [1..n -> Seq(Path \X Path)]
  BY <1>1, <1>3
<1>5. rows \in Seq(Seq(Path \X Path))
  BY <1>1, <1>4, SeqDef
<1>6. Pairs = FlattenSeq(rows)
  BY DEF Pairs, row
<1> HIDE DEF rows
<1> QED BY <1>5, <1>6, FlatType

DirRenames == {o \in Op : o.type = "RENAME_DIR"}

\* The calls for a set of renames are operations.
LEMMA RenameCallsType ==
  ASSUME NEW R
  PROVE  RenameCalls(R) \in Seq(DirRenames)
<1> DEFINE s == Chosen(Pairs, R)
           q == [i \in DOMAIN s |-> [type |-> "RENAME_DIR", path |-> s[i][1], to |-> s[i][2]]]
<1>1. s \in Seq(Path \X Path)
  BY PairsType, ChosenIs
<1>2. RenameCalls(R) = q
  BY DEF RenameCalls
<1> HIDE DEF s
<1>3. DOMAIN s = 1..Len(s) /\ Len(s) \in Nat /\ \A i \in 1..Len(s) : s[i] \in Path \X Path
  BY <1>1, LenProperties, ElementOfSeq
<1>4. \A i \in 1..Len(s) : s[i][1] \in Path /\ s[i][2] \in Path
  BY <1>3
<1>5. q \in [1..Len(s) -> DirRenames]
  BY <1>3, <1>4 DEF Op, DirRenames
<1> QED BY <1>2, <1>3, <1>5, SeqDef

-----------------------------------------------------------------------------
(* What a change set makes of a tree *)

\* what sendable means to the receiver
FilesAt(t, b) == \A p \in b.newFiles \cap Path : t[p] \in Content

\* What is applied before the renames leaves a tree.
LEMMA UpdatedTree ==
  ASSUME NEW sender, NEW t, IsTree(t), NEW b, NEW f, FilesAt(sender, b)
  PROVE  IsTree(Updated(sender, t, b, f).tree)
<1> DEFINE T == Updated(sender, t, b, f).tree
           L(p) == Left(t, b, p)
<1>1. T = [p \in Path |-> IF Gets(t, b, p) THEN sender[p] ELSE IF Makes(t, b, p) THEN Dir ELSE L(p)]
  BY DEF Updated
<1>2. /\ t \in [Path -> Content \cup {Dir, None}]
      /\ \A p, d \in Path : t[p] # None /\ d # p /\ p \in Under[d] => t[d] = Dir
  BY TreeIs
<1>3. \A p \in Path : L(p) \in {None, t[p]}
  BY DEF Left
<1>4. \A p, d \in Path : L(p) # None /\ d # p /\ p \in Under[d] => L(d) = Dir
  <2> SUFFICES ASSUME NEW p \in Path, NEW d \in Path, L(p) # None, d # p, p \in Under[d]
               PROVE  L(d) = Dir
    OBVIOUS
  <2>1. t[p] # None
    BY <1>3
  <2>2. t[d] = Dir
    BY <1>2, <2>1
  <2>3. ~Unlinks(t, b, d)
    BY <2>2, Nodes DEF Unlinks, IsFile
  <2>4. ~Removes(t, b, d)
    BY <2>1 DEF Removes, Children
  <2> QED BY <2>2, <2>3, <2>4 DEF Left
<1>5. \A p \in Path : Makes(t, b, p) => p \in b.newDirs /\ L(p) = None
                        /\ \A d \in Above[p] : L(d) = Dir \/ (d \in b.newDirs /\ L(d) = None)
  BY DEF Makes
<1>6. \A p \in Path : p \in b.newDirs /\ L(p) = None
                        /\ (\A d \in Above[p] : L(d) = Dir \/ (d \in b.newDirs /\ L(d) = None))
                      => Makes(t, b, p)
  BY DEF Makes
<1>7. \A p \in Path : Gets(t, b, p) => p \in b.newFiles /\ L(p) # Dir /\ ~Makes(t, b, p)
                        /\ \A d \in Above[p] : L(d) = Dir \/ Makes(t, b, d)
  BY DEF Gets
<1> HIDE DEF L, T
<1>8. \A p \in Path : T[p] = IF Gets(t, b, p) THEN sender[p] ELSE IF Makes(t, b, p) THEN Dir ELSE L(p)
  BY <1>1
<1>9. \A p \in Path : Gets(t, b, p) => sender[p] \in Content
  BY <1>7 DEF FilesAt
<1>10. T \in [Path -> Content \cup {Dir, None}]
  <2>1. \A p \in Path : T[p] \in Content \cup {Dir, None}
    BY <1>2, <1>3, <1>8, <1>9
  <2>2. T = [p \in Path |-> T[p]]
    BY <1>1
  <2> QED BY <2>1, <2>2
<1>11. \A d \in Path : L(d) = Dir => T[d] = Dir
  BY <1>5, <1>7, <1>8
<1>12. \A d \in Path : Makes(t, b, d) => T[d] = Dir
  BY <1>7, <1>8
<1>13. ASSUME NEW p \in Path, NEW d \in Path, T[p] # None, d # p, p \in Under[d] PROVE T[d] = Dir
  <2>1. d \in Above[p]
    BY <1>13, AboveIs
  <2>2. CASE Gets(t, b, p)
    BY <1>7, <1>11, <1>12, <2>1, <2>2
  <2>3. CASE Makes(t, b, p)
    <3>1. CASE L(d) = Dir
      BY <1>11, <3>1
    <3>2. CASE d \in b.newDirs /\ L(d) = None
      <4>1. \A e \in Above[d] : e \in Above[p]
        <5> TAKE e \in Above[d]
        <5>1. e \in Path /\ d \in Under[e] /\ d # e
          BY AboveIs
        <5>2. p \in Under[e] /\ p # e
          BY <1>13, <5>1, UnderOrder
        <5> QED BY <5>1, <5>2, AboveIs
      <4>2. Makes(t, b, d)
        BY <1>5, <1>6, <2>3, <3>2, <4>1
      <4> QED BY <1>12, <4>2
    <3> QED BY <1>5, <2>1, <2>3, <3>1, <3>2
  <2>4. CASE ~Gets(t, b, p) /\ ~Makes(t, b, p)
    BY <1>4, <1>8, <1>11, <1>13, <2>4
  <2> QED BY <2>2, <2>3, <2>4
<1>14. IsTree(T)
  BY <1>10, <1>13, TreeIs
<1> QED BY <1>14 DEF T

\* What is recorded before the renames are operations.
LEMMA UpdatedDone ==
  ASSUME NEW sender, NEW t, NEW b, NEW f
  PROVE  Updated(sender, t, b, f).done \in Seq(Op)
<1> DEFINE A == Calls("RMDIR", {p \in Path : Removes(t, b, p)})
           B == Calls("UNLINK", {p \in Path : Unlinks(t, b, p)})
           C == Calls("MKDIR", {p \in Path : Makes(t, b, p)})
           D == Calls("WRITE_DONE", f)
<1>1. A \in Seq(Op) /\ B \in Seq(Op) /\ C \in Seq(Op) /\ D \in Seq(Op)
  BY CallsAre DEF CallTypes
<1>2. Updated(sender, t, b, f).done = A \o B \o C \o D
  BY DEF Updated
<1> HIDE DEF A, B, C, D
<1> QED BY <1>1, <1>2, ConcatProperties

\* an update on its way through the renames
Going == {a \in [tree : [Path -> Content \cup {Dir, None}], done : Seq(Op)] : IsTree(a.tree)}

\* A rename leaves a tree and records an operation, if any.
LEMMA RenameNextGoing ==
  ASSUME NEW a \in Going, NEW o \in DirRenames
  PROVE  RenameNext(a, o) \in Going
<1> DEFINE call == IF IsFile(a.tree, o.path) THEN [o EXCEPT !.type = "RENAME"] ELSE o
<1>1. call \in Op
  BY DEF DirRenames, Op
<1>2. RenameNext(a, o) = IF Succeeds(a.tree, call)
                         THEN [tree |-> Effect(a.tree, call, Empty), done |-> Append(a.done, call)] ELSE a
  BY DEF RenameNext
<1> HIDE DEF call
<1>3. ASSUME Succeeds(a.tree, call) PROVE RenameNext(a, o) \in Going
  <2>1. IsTree(Effect(a.tree, call, Empty))
    BY <1>1, <1>3, EffectKeepsTree, Nodes DEF Going
  <2>2. Effect(a.tree, call, Empty) \in [Path -> Content \cup {Dir, None}]
    BY <2>1, TreeIs
  <2>3. Append(a.done, call) \in Seq(Op)
    BY <1>1, AppendProperties DEF Going
  <2> QED BY <1>2, <1>3, <2>1, <2>2, <2>3 DEF Going
<1> QED BY <1>2, <1>3

\* handleUpdate leaves a tree and records operations.
LEMMA ReceivedIs ==
  ASSUME NEW sender, NEW t, IsTree(t), NEW b, NEW f, FilesAt(sender, b)
  PROVE  /\ IsTree(Received(sender, t, b, f).tree)
         /\ Received(sender, t, b, f).done \in Seq(Op)
<1> DEFINE u == Updated(sender, t, b, f)  q == RenameCalls(b.renameDirs)
           r == FoldLeft(RenameNext, u, q)
<1>1. IsTree(u.tree) /\ u.done \in Seq(Op)
  BY UpdatedTree, UpdatedDone
<1>2. u.tree \in [Path -> Content \cup {Dir, None}]
  BY <1>1, TreeIs
<1>3. u = [tree |-> u.tree, done |-> u.done]
  BY DEF Updated
<1> HIDE DEF u
<1>4. u \in Going
  <2> DEFINE x == u.tree  y == u.done
  <2>1. u = [tree |-> x, done |-> y] /\ IsTree(x) /\ y \in Seq(Op) /\ x \in [Path -> Content \cup {Dir, None}]
    BY <1>1, <1>2, <1>3
  <2> HIDE DEF x, y
  <2> QED BY <2>1 DEF Going
<1>5. q \in Seq(DirRenames)
  BY RenameCallsType
<1> HIDE DEF q
<1>6. r \in Going
  BY <1>4, <1>5, RenameNextGoing, RenamesKeep
<1>7. Received(sender, t, b, f) = r
  BY DEF Received, u, q
<1> HIDE DEF r
<1> QED BY <1>6, <1>7 DEF Going

-----------------------------------------------------------------------------
(* Types: the copy of each machine is a tree *)

Ats == {"idle", "all", "patch", "stamp", "drain", "push", "stage", "reply", "stuck", "offline"}

\* What is staged is the records of the server, and their stamps are numbers.
LEMMA JournalTypes ==
  ASSUME NEW j \in Seq(Seq(Op)), NEW n \in 1..(Len(j) + 1), NEW q \in Seq(Op)
  PROVE  /\ FlattenSeq(SubSeq(j, n, Len(j))) \in Seq(Op)
         /\ Append(j, q) \in Seq(Seq(Op)) /\ Len(Append(j, q)) = Len(j) + 1 /\ Len(j) \in Nat
<1>1. Len(j) \in Nat /\ \A i \in 1..Len(j) : j[i] \in Seq(Op)
  BY LenProperties, ElementOfSeq
<1>2. SubSeq(j, n, Len(j)) \in Seq(Seq(Op))
  BY <1>1, SubSeqProperties
<1> QED BY <1>1, <1>2, FlatType, AppendProperties

\* All variables have their types at first.
LEMMA InitType == Init => TypeOK
<1> SUFFICES ASSUME Init PROVE TypeOK
  OBVIOUS
<1>1. IsTree([p \in Path |-> None])
  BY TreeIs
<1>2. DOMAIN tree = Machine /\ \A m \in Machine : IsTree(tree[m])
  <2>1. \A m \in Machine : tree[m] = IF m = Server THEN ServerTree ELSE [p \in Path |-> None]
    BY DEF Init
  <2>2. DOMAIN tree = Machine
    BY DEF Init
  <2> QED BY <1>1, <2>1, <2>2, TreeAssumption
<1>3. IsTree(want)
  BY TreeAssumption DEF Init
<1>4. queue \in [Machine -> Seq(Op)] /\ journal \in Seq(Seq(Op))
  <2>1. <<>> \in Seq(Op) /\ <<>> \in Seq(Seq(Op))
    BY EmptySeq
  <2> QED BY <2>1 DEF Init
<1>5. last_sync \in [Client -> 0..server_stamp]
  <2>1. server_stamp = 1
    BY DEF Init, server_stamp
  <2> QED BY <2>1 DEF Init
<1>6. bag \in [Client -> ChangeSet]
  BY NoChangesType DEF Init
<1>7. ops \in 0..MaxOps /\ faults \in 0..MaxFaults
  BY SyncAssumption DEF Init
<1>8. at \in [Client -> Ats]
  BY DEF Init, Ats
<1> QED BY <1>2, <1>3, <1>4, <1>5, <1>6, <1>7, <1>8 DEF TypeOK, Ats

\* Steps that leave the journal alone.
LEMMA SameJournal ==
  ASSUME TypeOK, journal' = journal, DOMAIN tree' = Machine, \A m \in Machine : IsTree(tree'[m]),
         IsTree(want)', queue' \in [Machine -> Seq(Op)], last_sync' \in [Client -> 0..server_stamp],
         at' \in [Client -> Ats], bag' \in [Client -> ChangeSet], ops' \in 0..MaxOps, faults' \in 0..MaxFaults
  PROVE  TypeOK'
BY DEF TypeOK, Ats, server_stamp

\* An operation of a user keeps the types.
LEMMA UserType ==
  ASSUME TypeOK, NEW m \in Machine, NEW o \in Op, NEW v \in Content, UserOp(m, o, v)
  PROVE  TypeOK'
<1>0. /\ DOMAIN tree = Machine /\ (\A n \in Machine : IsTree(tree[n])) /\ IsTree(want)
      /\ queue \in [Machine -> Seq(Op)] /\ ops \in 0..MaxOps
  BY DEF TypeOK
<1>1. /\ Succeeds(tree[m], o)
      /\ tree' = [tree EXCEPT ![m] = Effect(tree[m], o, v)]
      /\ queue' = [queue EXCEPT ![m] = Append(queue[m], o)]
      /\ want' = IF Succeeds(want, o) THEN Effect(want, o, v) ELSE want
      /\ ops' = ops + 1 /\ ops < MaxOps
      /\ UNCHANGED <<journal, last_sync, at, bag, faults>>
  BY DEF UserOp
<1>2. IsTree(Effect(tree[m], o, v))
  BY <1>0, <1>1, EffectKeepsTree
<1>3. DOMAIN tree' = Machine /\ \A n \in Machine : IsTree(tree'[n])
  <2>1. DOMAIN tree' = Machine /\ \A n \in Machine : tree'[n] = IF n = m THEN Effect(tree[m], o, v) ELSE tree[n]
    BY <1>0, <1>1
  <2> QED BY <1>0, <1>2, <2>1
<1>4. IsTree(want')
  <2>1. Succeeds(want, o) => IsTree(Effect(want, o, v))
    BY <1>0, EffectKeepsTree
  <2> QED BY <1>0, <1>1, <2>1
<1>5. queue' \in [Machine -> Seq(Op)]
  <2>1. Append(queue[m], o) \in Seq(Op)
    BY <1>0, AppendProperties
  <2> QED BY <1>0, <1>1, <2>1
<1>6. ops' \in 0..MaxOps
  BY <1>0, <1>1, SyncAssumption
<1>7. IsTree(want)'
  BY <1>4 DEF IsTree, ParentIsDir
<1>8. /\ journal' = journal /\ last_sync' \in [Client -> 0..server_stamp] /\ at' \in [Client -> Ats]
      /\ bag' \in [Client -> ChangeSet] /\ faults' \in 0..MaxFaults
  BY <1>1 DEF TypeOK, Ats
<1> QED BY <1>3, <1>5, <1>6, <1>7, <1>8, SameJournal

\* The server stages what it has recorded.
LEMMA JournaledType ==
  ASSUME TypeOK, journal' = Append(journal, queue[Server]), queue' = [queue EXCEPT ![Server] = <<>>],
         at' \in [Client -> Ats], UNCHANGED <<tree, last_sync, bag, want, ops, faults>>
  PROVE  TypeOK'
<1>1. queue \in [Machine -> Seq(Op)] /\ journal \in Seq(Seq(Op)) /\ last_sync \in [Client -> 0..server_stamp]
      /\ Server \in Machine
  BY DEF TypeOK, Machine
<1>2. journal' \in Seq(Seq(Op)) /\ Len(journal') = Len(journal) + 1 /\ Len(journal) \in Nat
  <2>1. queue[Server] \in Seq(Op)
    BY <1>1
  <2>2. 1 \in 1..(Len(journal) + 1)
    BY <1>1, LenProperties
  <2> QED BY <1>1, <2>1, <2>2, JournalTypes
<1>3. last_sync' \in [Client -> 0..server_stamp']
  <2>1. \A i \in 0..(Len(journal) + 1) : i \in 0..(Len(journal) + 1 + 1)
    BY <1>2
  <2> QED BY <1>1, <1>2, <2>1 DEF server_stamp
<1>4. queue' \in [Machine -> Seq(Op)]
  BY <1>1, EmptySeq
<1>5. DOMAIN tree' = Machine /\ \A m \in Machine : IsTree(tree'[m])
  BY DEF TypeOK
<1>6. IsTree(want)'
  BY DEF TypeOK, IsTree, ParentIsDir
<1>7. bag' \in [Client -> ChangeSet] /\ ops' \in 0..MaxOps /\ faults' \in 0..MaxFaults
  BY DEF TypeOK
<1>8. (\A m \in Machine : IsTree(tree[m]))'
  <2>1. tree' = tree /\ \A m \in Machine : IsTree(tree[m])
    BY DEF TypeOK
  <2> QED BY <2>1 DEF IsTree, ParentIsDir
<1> QED BY <1>2, <1>3, <1>4, <1>5, <1>6, <1>7, <1>8 DEF TypeOK, Ats

\* server_stamp is a number.
LEMMA StampInNat == ASSUME TypeOK PROVE server_stamp \in Nat /\ server_stamp > 0
<1>1. Len(journal) \in Nat
  BY LenProperties DEF TypeOK
<1> QED BY <1>1 DEF server_stamp

\* Steps that change neither trees nor the journal.
LEMMA SameTree ==
  ASSUME TypeOK, UNCHANGED <<tree, journal, want, ops>>, faults' \in 0..MaxFaults,
         queue' \in [Machine -> Seq(Op)], last_sync' \in [Client -> 0..server_stamp],
         at' \in [Client -> Ats], bag' \in [Client -> ChangeSet]
  PROVE  TypeOK'
<1>1. DOMAIN tree' = Machine /\ \A m \in Machine : IsTree(tree'[m])
  BY DEF TypeOK
<1>2. IsTree(want)'
  BY DEF TypeOK, IsTree, ParentIsDir
<1>3. ops' \in 0..MaxOps
  BY DEF TypeOK
<1> QED BY <1>1, <1>2, <1>3, SameJournal

\* An update of the tree of m by what a sender has, which m records in its queue.
LEMMA ReceivedType ==
  ASSUME TypeOK, NEW m \in Machine, NEW s, NEW b, NEW f, FilesAt(s, b),
         tree' = [tree EXCEPT ![m] = Received(s, tree[m], b, f).tree],
         queue' = queue \/ queue' = [queue EXCEPT ![m] = queue[m] \o Received(s, tree[m], b, f).done],
         bag' \in [Client -> ChangeSet], at' \in [Client -> Ats],
         UNCHANGED <<journal, last_sync, want, ops, faults>>
  PROVE  TypeOK'
<1> DEFINE r == Received(s, tree[m], b, f)
<1>0. DOMAIN tree = Machine /\ (\A k \in Machine : IsTree(tree[k])) /\ queue \in [Machine -> Seq(Op)]
  BY DEF TypeOK
<1>1. IsTree(r.tree) /\ r.done \in Seq(Op)
  BY <1>0, ReceivedIs
<1>2. tree' = [tree EXCEPT ![m] = r.tree] /\ (queue' = queue \/ queue' = [queue EXCEPT ![m] = queue[m] \o r.done])
  OBVIOUS
<1> HIDE DEF r
<1>3. DOMAIN tree' = Machine /\ \A k \in Machine : IsTree(tree'[k])
  <2>1. DOMAIN tree' = Machine /\ \A k \in Machine : tree'[k] = IF k = m THEN r.tree ELSE tree[k]
    BY <1>0, <1>2
  <2> QED BY <1>0, <1>1, <2>1
<1>4. queue' \in [Machine -> Seq(Op)]
  <2>1. queue[m] \o r.done \in Seq(Op)
    BY <1>0, <1>1, ConcatProperties
  <2> QED BY <1>0, <1>2, <2>1
<1>5. IsTree(want)'
  BY DEF TypeOK, IsTree, ParentIsDir
<1>6. last_sync' \in [Client -> 0..server_stamp] /\ ops' \in 0..MaxOps /\ faults' \in 0..MaxFaults /\ journal' = journal
  BY DEF TypeOK
<1> QED BY <1>3, <1>4, <1>5, <1>6, SameJournal

\* Whatever file a name gets that has none, it is a file.
LEMMA MisnamedFiles ==
  ASSUME NEW s, NEW b, NEW names, NEW c
  PROVE  FilesAt(Misnamed(s, b, names), c)
<1> DEFINE sent == Sent(s, b)  M == Misnamed(s, b, names)
<1>1. \A i \in DOMAIN sent : s[sent[i]] \in Content
  <2>1. sent \in Seq(Path) /\ ToSet(sent) = ToSet(Paths) \cap {p \in b.newFiles : IsFile(s, p)}
    <3>1. Paths \in Seq(Path)
      BY PathsType
    <3> QED BY <3>1, ChosenIs DEF Sent
  <2>2. \A i \in DOMAIN sent : sent[i] \in ToSet(sent)
    <3> HIDE DEF sent
    <3> QED BY <2>1 DEF ToSet
  <2> HIDE DEF sent
  <2> QED BY <2>1, <2>2 DEF IsFile
<1>2. \A p \in Path : M[p] = IF \E i \in DOMAIN sent : names[i] = p
                            THEN s[sent[CHOOSE i \in DOMAIN sent : names[i] = p]] ELSE Empty
  BY DEF Misnamed
<1> HIDE DEF sent, M
<1>3. ASSUME NEW p \in Path PROVE M[p] \in Content
  <2>1. CASE \E i \in DOMAIN sent : names[i] = p
    <3> DEFINE j == CHOOSE i \in DOMAIN sent : names[i] = p
    <3>1. j \in DOMAIN sent
      BY <2>1
    <3>2. M[p] = s[sent[j]]
      BY <1>2, <2>1
    <3> HIDE DEF j
    <3> QED BY <1>1, <3>1, <3>2
  <2>2. CASE ~\E i \in DOMAIN sent : names[i] = p
    BY <1>2, <2>2, SyncAssumption
  <2> QED BY <2>1, <2>2
<1> QED BY <1>3 DEF FilesAt, M

\* The steps of an update keep the types.
LEMMA UpdateType ==
  ASSUME TypeOK, NEW c \in Client, Update(c)
  PROVE  TypeOK'
<1>0. /\ queue \in [Machine -> Seq(Op)] /\ journal \in Seq(Seq(Op))
      /\ last_sync \in [Client -> 0..server_stamp] /\ at \in [Client -> Ats] /\ bag \in [Client -> ChangeSet]
      /\ faults \in 0..MaxFaults /\ DOMAIN tree = Machine /\ (\A m \in Machine : IsTree(tree[m]))
      /\ c \in Machine /\ Server \in Machine
  BY DEF TypeOK, Ats, Machine
<1>a. \A l \in Ats : at' = [at EXCEPT ![c] = l] => at' \in [Client -> Ats]
  BY <1>0
<1>1. CASE Pull(c)
  <2>1. UNCHANGED <<tree, queue, journal, last_sync, want, ops, faults>>
    BY <1>1 DEF Pull
  <2>2. at' \in [Client -> Ats]
    BY <1>1, <1>a DEF Pull, Goto, Ats
  <2>3. bag' \in [Client -> ChangeSet]
    <3>1. CASE bag' = bag
      BY <1>0, <3>1
    <3>2. CASE last_sync[c] # 0 /\ bag' = [bag EXCEPT ![c] = Merge(FlattenSeq(Diff(c)))]
      <4> DEFINE n == last_sync[c]
      <4>1. n \in 1..(Len(journal) + 1)
        BY <1>0, <3>2, StampInNat DEF server_stamp
      <4>2. FlattenSeq(SubSeq(journal, n, Len(journal))) \in Seq(Op)
        <5>1. <<>> \in Seq(Op)
          BY EmptySeq
        <5> HIDE DEF n
        <5> QED BY <1>0, <4>1, <5>1, JournalTypes
      <4>3. Merge(FlattenSeq(Diff(c))) \in ChangeSet
        BY <4>2, MergeType DEF Diff
      <4> QED BY <1>0, <3>2, <4>3
    <3> QED BY <1>1, <3>1, <3>2 DEF Pull
  <2> QED BY <1>0, <2>1, <2>2, <2>3, SameTree
<1>2. CASE DownloadAll(c)
  <2> DEFINE all(kind) == {p \in Path : tree[Server][p] \in kind}
             b == [NoChanges EXCEPT !.newDirs = all({Dir}), !.newFiles = all(Content)]
  <2>1. /\ tree' = [tree EXCEPT ![c] = Received(tree[Server], tree[c], b, {}).tree]
        /\ UNCHANGED <<queue, journal, last_sync, bag, want, ops, faults>>
        /\ at' = [at EXCEPT ![c] = "stamp"]
    BY <1>2 DEF DownloadAll, Goto
  <2>2. FilesAt(tree[Server], b)
    <3>1. b.newFiles = all(Content)
      BY DEF NoChanges
    <3> QED BY <3>1 DEF FilesAt
  <2> HIDE DEF b
  <2>3. at' \in [Client -> Ats]
    BY <1>a, <2>1 DEF Ats
  <2> QED BY <1>0, <2>1, <2>2, <2>3, ReceivedType
<1>3. CASE Patch(c)
  <2> DEFINE s == tree[Server]  b == bag[c]
  <2>1. CASE Sendable(s, b)
    <3>1. /\ tree' = [tree EXCEPT ![c] = Received(s, tree[c], b, {}).tree]
          /\ queue' = [queue EXCEPT ![c] = queue[c] \o Received(s, tree[c], b, {}).done]
          /\ bag' = [bag EXCEPT ![c] = NoChanges] /\ at' = [at EXCEPT ![c] = "stamp"]
          /\ UNCHANGED <<journal, last_sync, want, ops, faults>>
      BY <1>3, <2>1 DEF Patch, Goto
    <3>2. FilesAt(s, b)
      BY <2>1 DEF Sendable, FilesAt, IsFile
    <3>3. bag' \in [Client -> ChangeSet] /\ at' \in [Client -> Ats]
      BY <1>0, <1>a, <3>1, NoChangesType DEF Ats
    <3> HIDE DEF b, s
    <3> QED BY <1>0, <3>1, <3>2, <3>3, ReceivedType
  <2>2. CASE ~Sendable(s, b)
    <3>1. PICK names \in Names(b), more \in {0, 1} :
            LET x == Misnamed(s, b, names)
                d == UpTo(b, names, Len(Sent(s, b)) + more)
            IN  /\ tree' = [tree EXCEPT ![c] = Received(x, tree[c], d, {}).tree]
                /\ queue' = [queue EXCEPT ![c] = queue[c] \o Received(x, tree[c], d, {}).done]
      BY <1>3, <2>2 DEF Patch
    <3>2. /\ bag' = bag /\ at' = [at EXCEPT ![c] = "stuck"]
          /\ UNCHANGED <<journal, last_sync, want, ops, faults>>
      BY <1>3, <2>2 DEF Patch, Goto
    <3> DEFINE x == Misnamed(s, b, names)  d == UpTo(b, names, Len(Sent(s, b)) + more)
    <3>3. FilesAt(x, d)
      BY MisnamedFiles
    <3>4. bag' \in [Client -> ChangeSet] /\ at' \in [Client -> Ats]
      BY <1>0, <1>a, <3>2 DEF Ats
    <3> HIDE DEF x, d
    <3>5. /\ tree' = [tree EXCEPT ![c] = Received(x, tree[c], d, {}).tree]
          /\ queue' = [queue EXCEPT ![c] = queue[c] \o Received(x, tree[c], d, {}).done]
      BY <3>1 DEF x, d
    <3> QED BY <1>0, <3>2, <3>3, <3>4, <3>5, ReceivedType
  <2> QED BY <2>1, <2>2
<1>4. CASE Stamp(c)
  <2>1. UNCHANGED <<tree, queue, journal, bag, want, ops, faults>>
        /\ last_sync' = [last_sync EXCEPT ![c] = server_stamp] /\ at' = [at EXCEPT ![c] = "drain"]
    BY <1>4 DEF Stamp, Goto
  <2>2. last_sync' \in [Client -> 0..server_stamp]
    BY <1>0, <2>1, StampInNat
  <2>3. at' \in [Client -> Ats]
    BY <1>a, <2>1 DEF Ats
  <2> QED BY <1>0, <2>1, <2>2, <2>3, SameTree
<1>5. CASE Drain(c)
  <2> DEFINE x == IF at[c] = "offline" THEN NoChanges ELSE Merge(queue[c])
             l == IF at[c] = "offline" THEN "offline" ELSE IF bag'[c] = NoChanges THEN "idle" ELSE "push"
  <2>1. UNCHANGED <<tree, journal, last_sync, want, ops, faults>>
        /\ bag' = [bag EXCEPT ![c] = x] /\ queue' = [queue EXCEPT ![c] = <<>>] /\ at' = [at EXCEPT ![c] = l]
    BY <1>5 DEF Drain, Goto
  <2>2. x \in ChangeSet /\ l \in Ats
    BY <1>0, MergeType, NoChangesType DEF Ats
  <2> HIDE DEF x, l
  <2>3. bag' \in [Client -> ChangeSet] /\ at' \in [Client -> Ats]
    BY <1>0, <1>a, <2>1, <2>2
  <2>4. queue' \in [Machine -> Seq(Op)]
    BY <1>0, <2>1, EmptySeq
  <2> QED BY <1>0, <2>1, <2>3, <2>4, SameTree
<1>6. CASE Push(c)
  <2> DEFINE s == tree[c]  b == bag[c]
  <2>1. CASE Sendable(s, b)
    <3> DEFINE f == b.newFiles
    <3>1. /\ tree' = [tree EXCEPT ![Server] = Received(s, tree[Server], b, f).tree]
          /\ queue' = [queue EXCEPT ![Server] = queue[Server] \o Received(s, tree[Server], b, f).done]
          /\ bag' = [bag EXCEPT ![c] = NoChanges] /\ at' = [at EXCEPT ![c] = "stage"]
          /\ UNCHANGED <<journal, last_sync, want, ops, faults>>
      BY <1>6, <2>1 DEF Push, Goto
    <3>2. FilesAt(s, b)
      BY <2>1 DEF Sendable, FilesAt, IsFile
    <3>3. bag' \in [Client -> ChangeSet] /\ at' \in [Client -> Ats]
      BY <1>0, <1>a, <3>1, NoChangesType DEF Ats
    <3> HIDE DEF b, f, s
    <3> QED BY <1>0, <3>1, <3>2, <3>3, ReceivedType
  <2>2. CASE ~Sendable(s, b)
    <3>1. PICK names \in Names(b) :
            LET x == Misnamed(s, b, names)
                d == UpTo(b, names, Len(Sent(s, b)))
            IN  /\ tree' = [tree EXCEPT ![Server] = Received(x, tree[Server], d, d.newFiles).tree]
                /\ queue' = [queue EXCEPT ![Server] =
                               queue[Server] \o Received(x, tree[Server], d, d.newFiles).done]
      BY <1>6, <2>2 DEF Push
    <3>2. /\ bag' = bag /\ at' = [at EXCEPT ![c] = "stuck"]
          /\ UNCHANGED <<journal, last_sync, want, ops, faults>>
      BY <1>6, <2>2 DEF Push, Goto
    <3> DEFINE x == Misnamed(s, b, names)  d == UpTo(b, names, Len(Sent(s, b)))  f == d.newFiles
    <3>3. FilesAt(x, d)
      BY MisnamedFiles
    <3>4. bag' \in [Client -> ChangeSet] /\ at' \in [Client -> Ats]
      BY <1>0, <1>a, <3>2 DEF Ats
    <3>5. /\ tree' = [tree EXCEPT ![Server] = Received(x, tree[Server], d, f).tree]
          /\ queue' = [queue EXCEPT ![Server] = queue[Server] \o Received(x, tree[Server], d, f).done]
      BY <3>1
    <3> HIDE DEF x, d, f
    <3> QED BY <1>0, <3>2, <3>3, <3>4, <3>5, ReceivedType
  <2> QED BY <2>1, <2>2
<1>7. CASE PushStages(c)
  <2>1. /\ journal' = IF queue[Server] = <<>> THEN journal ELSE Append(journal, queue[Server])
        /\ queue' = [queue EXCEPT ![Server] = <<>>] /\ at' = [at EXCEPT ![c] = "reply"]
        /\ UNCHANGED <<tree, last_sync, bag, want, ops, faults>>
    BY <1>7 DEF PushStages, Goto
  <2>2. at' \in [Client -> Ats]
    BY <1>a, <2>1 DEF Ats
  <2>3. CASE queue[Server] = <<>>
    <3>1. queue' \in [Machine -> Seq(Op)] /\ journal' = journal
      BY <1>0, <2>1, <2>3, EmptySeq
    <3> QED BY <1>0, <2>1, <2>2, <3>1, SameTree
  <2>4. CASE queue[Server] # <<>>
    BY <2>1, <2>2, <2>4, JournaledType
  <2> QED BY <2>3, <2>4
<1>8. CASE PushDone(c)
  <2>1. UNCHANGED <<tree, queue, journal, bag, want, ops, faults>>
        /\ last_sync' = [last_sync EXCEPT ![c] = server_stamp] /\ at' = [at EXCEPT ![c] = "idle"]
    BY <1>8 DEF PushDone, Goto
  <2>2. last_sync' \in [Client -> 0..server_stamp]
    BY <1>0, <2>1, StampInNat
  <2>3. at' \in [Client -> Ats]
    BY <1>a, <2>1 DEF Ats
  <2> QED BY <1>0, <2>1, <2>2, <2>3, SameTree
<1> QED BY <1>1, <1>2, <1>3, <1>4, <1>5, <1>6, <1>7, <1>8 DEF Update

\* So does a client that starts again,
LEMMA RestartType ==
  ASSUME TypeOK, NEW c \in Client, Restart(c)
  PROVE  TypeOK'
<1>0. /\ queue \in [Machine -> Seq(Op)] /\ last_sync \in [Client -> 0..server_stamp]
      /\ at \in [Client -> Ats] /\ bag \in [Client -> ChangeSet] /\ faults \in 0..MaxFaults
      /\ <<>> \in Seq(Op) /\ 0 \in 0..server_stamp
  BY EmptySeq, StampInNat DEF TypeOK, Ats
<1>1. /\ last_sync' = [last_sync EXCEPT ![c] = 0] /\ queue' = [queue EXCEPT ![c] = <<>>]
      /\ bag' = [bag EXCEPT ![c] = NoChanges] /\ at' = [at EXCEPT ![c] = "idle"]
      /\ UNCHANGED <<tree, journal, want, ops>>
      /\ at[c] # "offline" => faults < MaxFaults
      /\ faults' = IF at[c] = "offline" THEN faults ELSE faults + 1
  BY DEF Restart, Goto
<1>2. queue' \in [Machine -> Seq(Op)] /\ bag' \in [Client -> ChangeSet]
  BY <1>0, <1>1, NoChangesType
<1>3. last_sync' \in [Client -> 0..server_stamp] /\ at' \in [Client -> Ats]
  BY <1>0, <1>1 DEF Ats
<1>4. faults' \in 0..MaxFaults
  BY <1>0, <1>1, SyncAssumption
<1> QED BY <1>1, <1>2, <1>3, <1>4, SameTree

\* a server that starts again,
LEMMA ServerRestartType ==
  ASSUME TypeOK, ServerRestart
  PROVE  TypeOK'
<1>0. queue \in [Machine -> Seq(Op)] /\ faults \in 0..MaxFaults /\ <<>> \in Seq(Op) /\ 0 \in 0..server_stamp
  BY EmptySeq, StampInNat DEF TypeOK
<1>1. /\ last_sync' = [c \in Client |-> 0] /\ queue' = [queue EXCEPT ![Server] = <<>>]
      /\ bag' = [c \in Client |-> NoChanges] /\ at' = [c \in Client |-> "offline"]
      /\ UNCHANGED <<tree, journal, want, ops>> /\ faults < MaxFaults /\ faults' = faults + 1
  BY DEF ServerRestart
<1>2. queue' \in [Machine -> Seq(Op)] /\ bag' \in [Client -> ChangeSet]
  BY <1>0, <1>1, NoChangesType
<1>3. last_sync' \in [Client -> 0..server_stamp] /\ at' \in [Client -> Ats]
  BY <1>0, <1>1 DEF Ats
<1>4. faults' \in 0..MaxFaults
  BY <1>0, <1>1, SyncAssumption
<1> QED BY <1>1, <1>2, <1>3, <1>4, SameTree

\* and the thread that stages.
LEMMA StageType ==
  ASSUME TypeOK, StageChanges
  PROVE  TypeOK'
<1>1. /\ journal' = Append(journal, queue[Server]) /\ queue' = [queue EXCEPT ![Server] = <<>>]
      /\ UNCHANGED <<tree, last_sync, at, bag, want, ops, faults>>
  BY DEF StageChanges
<1>2. at' \in [Client -> Ats]
  BY <1>1 DEF TypeOK, Ats
<1> QED BY <1>1, <1>2, JournaledType

\* All steps keep the types.
LEMMA NextType == TypeOK /\ [Next]_vars => TypeOK'
<1> SUFFICES ASSUME TypeOK, [Next]_vars PROVE TypeOK'
  OBVIOUS
<1>1. CASE UNCHANGED vars
  <2>1. UNCHANGED <<tree, queue, journal, last_sync, at, bag, want, ops, faults>>
    BY <1>1 DEF vars
  <2> QED BY <2>1 DEF TypeOK, Ats, server_stamp, IsTree, ParentIsDir
<1>2. CASE Next
  BY <1>2, UserType, StageType, ServerRestartType, UpdateType, RestartType DEF Next
<1> QED BY <1>1, <1>2

\* Every variable has its type in every state, and above all the copy of each machine is a tree:
\* whatever meets - overlapping updates, conflicts, changes that cannot be made, programs that end
\* at any time - handleUpdate and the calls of the users leave nothing without the directories
\* that lead to it (FileOperation.cpp:128-234, DriveServerAgent.cpp:355-422, DriveClientAgent
\* .cpp:178-215).
THEOREM TypeCorrect == Spec => []TypeOK
<1> QED BY InitType, NextType, PTL DEF Spec

-----------------------------------------------------------------------------
(* The stamps *)

\* Updates do not overlap, with one another, with users of the server or with staging, and none
\* begins while the server has something that is not staged. Conflicts, removals in any order and
\* restarts at any time are allowed. Without this the theorem does not hold (run unstaged).
OneUpdate == "race" \notin Meeting /\ "unstaged" \notin Meeting

-----------------------------------------------------------------------------
(* The inductive invariant *)

Before == {"all", "patch", "stamp", "drain", "push"}
After == {"stage", "reply"}

\* what is needed of the types
SyncTypes ==
  /\ DOMAIN queue = Machine /\ DOMAIN bag = Client
  /\ \E S : journal \in Seq(S)
  /\ last_sync \in [Client -> Nat]
  /\ at \in [Client -> Before \cup After \cup {"idle", "stuck", "offline"}]

\* One client updates; nothing is recorded at the server before it pushes.
TurnInv ==
  /\ \A c, d \in Client : Busy(c) /\ Busy(d) => c = d
  /\ \A c \in Client : at[c] \in Before => queue[Server] = <<>>

SyncInv == SyncTypes /\ TurnInv /\ StampsCover

LEMMA InitSync == Init => SyncInv
<1>1. <<>> \in Seq({})
  OBVIOUS
<1> QED BY <1>1 DEF Init, SyncInv, SyncTypes, TurnInv, StampsCover, Busy, Before, After

-----------------------------------------------------------------------------
(* The steps keep the invariant *)

\* A journal more.
LEMMA Journaled ==
  ASSUME NEW S, NEW j \in Seq(S), NEW e
  PROVE  /\ \E T : Append(j, e) \in Seq(T)
         /\ Len(j) \in Nat /\ Len(Append(j, e)) = Len(j) + 1
<1>1. j \in Seq(S \cup {e})
  BY SeqMonotonic
<1> QED BY <1>1, AppendProperties

\* Steps that are no part of an update and add no journal.
LEMMA QuietSync ==
  ASSUME SyncInv, UNCHANGED <<journal, last_sync, at, bag>>,
         DOMAIN queue' = Machine,
         queue'[Server] = queue[Server] \/ \A c \in Client : ~Busy(c)
  PROVE  SyncInv'
<1>1. SyncTypes'
  BY DEF SyncInv, SyncTypes
<1>2. \A c \in Client : at[c] \in Before \cup After => queue'[Server] = queue[Server]
  BY DEF Busy, Before, After
<1>3. TurnInv'
  BY <1>2 DEF SyncInv, TurnInv, Busy
<1>4. StampsCover'
  BY <1>2 DEF SyncInv, StampsCover, server_stamp, Before, After
<1> QED BY <1>1, <1>3, <1>4 DEF SyncInv

\* what StampsCover says of one client
CoversOf(c) ==
  /\ at[c] = "patch" => bag[c] = Merge(FlattenSeq(SubSeq(journal, last_sync[c], Len(journal))))
  /\ at[c] \in {"drain", "push"} => last_sync[c] = server_stamp /\ queue[Server] = <<>>
  /\ at[c] \in {"stage", "reply"} =>
       \/ last_sync[c] = server_stamp
       \/ last_sync[c] + 1 = server_stamp /\ queue[Server] = <<>>

\* A step of the client whose turn it is: the others are at rest.
LEMMA TurnSync ==
  ASSUME SyncInv, NEW c \in Client, \A d \in Client : d # c => ~Busy(d) /\ at'[d] = at[d],
         SyncTypes', at'[c] \in Before => queue'[Server] = <<>>, CoversOf(c)'
  PROVE  SyncInv'
<1>1. \A d \in Client : d # c => at'[d] \in {"idle", "offline"}
  BY DEF Busy
<1>2. TurnInv'
  BY <1>1 DEF TurnInv, Busy, Before
<1>3. StampsCover'
  BY <1>1 DEF StampsCover, CoversOf
<1> QED BY <1>2, <1>3 DEF SyncInv

LEMMA StageSync ==
  ASSUME OneUpdate, SyncInv, StageChanges
  PROVE  SyncInv'
<1>1. /\ queue[Server] # <<>> /\ journal' = Append(journal, queue[Server])
      /\ queue' = [queue EXCEPT ![Server] = <<>>] /\ UNCHANGED <<last_sync, at, bag>>
  BY DEF StageChanges
<1>2. Server \in DOMAIN queue /\ DOMAIN queue' = Machine /\ queue'[Server] = <<>>
  BY <1>1 DEF SyncInv, SyncTypes, Machine
<1>3. PICK S : journal \in Seq(S)
  BY DEF SyncInv, SyncTypes
<1>4. /\ \E T : journal' \in Seq(T)
      /\ Len(journal) \in Nat /\ Len(journal') = Len(journal) + 1
  BY <1>1, <1>3, Journaled
<1>5. SyncTypes'
  BY <1>1, <1>2, <1>4 DEF SyncInv, SyncTypes
<1>6. \A c \in Client : at[c] \notin Before
  BY <1>1 DEF SyncInv, TurnInv
<1>7. TurnInv'
  BY <1>1, <1>6 DEF SyncInv, TurnInv, Busy
<1>8. ASSUME NEW c \in Client PROVE CoversOf(c)'
  <2>1. at'[c] \notin Before
    BY <1>1, <1>6
  <2>2. ASSUME at'[c] \in {"stage", "reply"}
        PROVE  last_sync'[c] + 1 = server_stamp' /\ queue'[Server] = <<>>
    BY <1>1, <1>2, <1>4, <2>2 DEF SyncInv, StampsCover, server_stamp
  <2> QED BY <2>1, <2>2 DEF CoversOf, Before
<1>9. StampsCover'
  BY <1>8 DEF StampsCover, CoversOf
<1> QED BY <1>5, <1>7, <1>9 DEF SyncInv

\* A client pulls when all others are at rest and all is staged.
LEMMA PullSync ==
  ASSUME OneUpdate, SyncInv, NEW c \in Client, Pull(c)
  PROVE  SyncInv'
<1>1. /\ at[c] = "idle" /\ queue[Server] = <<>> /\ \A d \in Client : ~Busy(d)
      /\ UNCHANGED <<queue, journal, last_sync>>
  BY DEF Pull, MayPull, OneUpdate
<1>2. \/ last_sync[c] = server_stamp /\ at' = [at EXCEPT ![c] = "drain"] /\ bag' = bag
      \/ at' = [at EXCEPT ![c] = "all"] /\ bag' = bag
      \/ /\ at' = [at EXCEPT ![c] = "patch"]
         /\ bag' = [bag EXCEPT ![c] = Merge(FlattenSeq(SubSeq(journal, last_sync[c], Len(journal))))]
  BY DEF Pull, Goto, Diff
<1>3. SyncTypes'
  BY <1>1, <1>2 DEF SyncInv, SyncTypes, Before
<1>4. \A d \in Client : d # c => at'[d] = at[d]
  BY <1>2 DEF SyncInv, SyncTypes
<1>5. CoversOf(c)'
  BY <1>1, <1>2 DEF CoversOf, SyncInv, SyncTypes, server_stamp
<1> QED BY <1>1, <1>3, <1>4, <1>5, TurnSync

\* The answer is applied and its stamp is kept; what the client has recorded is drained.
LEMMA AnswerSync ==
  ASSUME SyncInv, NEW c \in Client, DownloadAll(c) \/ Patch(c) \/ Stamp(c) \/ Drain(c)
  PROVE  SyncInv'
<1>1. /\ journal' = journal /\ DOMAIN queue' = Machine /\ queue'[Server] = queue[Server]
      /\ DOMAIN bag' = Client
  BY SyncAssumption
     DEF DownloadAll, Patch, Stamp, Drain, SyncInv, SyncTypes, Machine
<1>2. CASE at[c] = "offline"
  <2>1. /\ at' = [at EXCEPT ![c] = "offline"] /\ last_sync' = last_sync
        /\ bag' = [bag EXCEPT ![c] = NoChanges]
    BY <1>2 DEF DownloadAll, Patch, Stamp, Drain, Goto
  <2>2. at' = at
    BY <1>2, <2>1 DEF SyncInv, SyncTypes
  <2>3. SyncTypes' /\ TurnInv'
    BY <1>1, <2>1, <2>2 DEF SyncInv, SyncTypes, TurnInv, Busy
  <2>4. \A d \in Client : d # c => bag'[d] = bag[d]
    BY <2>1 DEF SyncInv, SyncTypes
  <2>5. ASSUME NEW d \in Client PROVE CoversOf(d)'
    <3>1. CASE d = c
      BY <1>2, <2>2, <3>1 DEF CoversOf
    <3>2. CASE d # c
      BY <1>1, <2>1, <2>2, <2>4, <3>2 DEF CoversOf, SyncInv, StampsCover, server_stamp
    <3> QED BY <3>1, <3>2
  <2>6. StampsCover'
    BY <2>5 DEF StampsCover, CoversOf
  <2> QED BY <2>3, <2>6 DEF SyncInv
<1>3. CASE at[c] # "offline"
  <2>1. at[c] \in Before
    BY <1>3 DEF DownloadAll, Patch, Stamp, Drain, Before
  <2>2. \A d \in Client : d # c => ~Busy(d)
    BY <2>1 DEF SyncInv, TurnInv, Busy, Before
  <2>3. queue'[Server] = <<>>
    BY <1>1, <2>1 DEF SyncInv, TurnInv
  <2>4. \/ /\ Stamp(c) /\ at' = [at EXCEPT ![c] = "drain"]
           /\ last_sync' = [last_sync EXCEPT ![c] = server_stamp]
        \/ /\ \E l \in {"stamp", "stuck"} : at' = [at EXCEPT ![c] = l]
           /\ last_sync' = last_sync
        \/ /\ Drain(c) /\ at[c] = "drain" /\ last_sync' = last_sync
           /\ \E l \in {"idle", "push"} : at' = [at EXCEPT ![c] = l]
    BY <1>3 DEF DownloadAll, Patch, Stamp, Drain, Goto
  <2>5. server_stamp' = server_stamp /\ server_stamp \in Nat
    BY <1>1, Journaled DEF server_stamp, SyncInv, SyncTypes
  <2>6. SyncTypes'
    BY <1>1, <2>4, <2>5 DEF SyncInv, SyncTypes, Before
  <2>7. \A d \in Client : d # c => at'[d] = at[d]
    BY <2>4 DEF SyncInv, SyncTypes
  <2>8. CoversOf(c)'
    BY <2>3, <2>4, <2>5 DEF CoversOf, SyncInv, SyncTypes, StampsCover
  <2> QED BY <2>2, <2>3, <2>6, <2>7, <2>8, TurnSync
<1> QED BY <1>2, <1>3

\* The server applies a push, stages what it has recorded, and answers with the stamp.
LEMMA PushSync ==
  ASSUME SyncInv, NEW c \in Client, Push(c) \/ PushStages(c) \/ PushDone(c)
  PROVE  SyncInv'
<1>1. DOMAIN queue' = Machine /\ DOMAIN bag' = Client /\ Server \in Machine
  BY DEF Push, PushStages, PushDone, SyncInv, SyncTypes, Machine
<1>2. \A d \in Client : d # c => ~Busy(d)
  BY DEF SyncInv, TurnInv, Busy, Push, PushStages, PushDone
<1>3. PICK S : journal \in Seq(S)
  BY DEF SyncInv, SyncTypes
<1>4. Len(journal) \in Nat
  BY <1>3
<1>5. CASE Push(c)
  <2>1. /\ at[c] = "push" /\ UNCHANGED <<journal, last_sync>>
        /\ \E l \in {"stage", "stuck"} : at' = [at EXCEPT ![c] = l]
    BY <1>5 DEF Push, Goto
  <2>2. SyncTypes' /\ \A d \in Client : d # c => at'[d] = at[d]
    BY <1>1, <2>1 DEF SyncInv, SyncTypes, After
  <2>3. at'[c] \in {"stage", "stuck"}
    BY <2>1 DEF SyncInv, SyncTypes
  <2>4. CoversOf(c)'
    BY <2>1, <2>3 DEF CoversOf, SyncInv, StampsCover, server_stamp
  <2> QED BY <1>2, <2>2, <2>3, <2>4, TurnSync DEF Before
<1>6. CASE PushStages(c)
  <2>1. /\ at[c] = "stage" /\ at' = [at EXCEPT ![c] = "reply"] /\ UNCHANGED <<last_sync, bag>>
        /\ journal' = IF queue[Server] = <<>> THEN journal ELSE Append(journal, queue[Server])
        /\ queue' = [queue EXCEPT ![Server] = <<>>]
    BY <1>6 DEF PushStages, Goto
  <2>2. queue'[Server] = <<>> /\ at'[c] = "reply" /\ \A d \in Client : d # c => at'[d] = at[d]
    BY <1>1, <2>1 DEF SyncInv, SyncTypes
  <2>3. \E T : journal' \in Seq(T)
    BY <1>3, <2>1, Journaled
  <2>4. SyncTypes'
    BY <1>1, <2>1, <2>3 DEF SyncInv, SyncTypes, After
  <2>5. last_sync[c] = server_stamp \/ (last_sync[c] + 1 = server_stamp /\ queue[Server] = <<>>)
    BY <2>1 DEF SyncInv, StampsCover
  <2>6. server_stamp' = IF queue[Server] = <<>> THEN server_stamp ELSE server_stamp + 1
    BY <1>3, <1>4, <2>1, Journaled DEF server_stamp
  <2>7. CoversOf(c)'
    BY <2>1, <2>2, <2>5, <2>6 DEF CoversOf
  <2> QED BY <1>2, <2>2, <2>4, <2>7, TurnSync DEF Before
<1>7. CASE PushDone(c)
  <2>1. /\ UNCHANGED <<journal, queue, bag>> /\ at' = [at EXCEPT ![c] = "idle"]
        /\ last_sync' = [last_sync EXCEPT ![c] = server_stamp]
    BY <1>7 DEF PushDone, Goto
  <2>2. server_stamp \in Nat
    BY <1>4 DEF server_stamp
  <2>3. SyncTypes'
    BY <2>1, <2>2 DEF SyncInv, SyncTypes
  <2>4. at'[c] = "idle" /\ \A d \in Client : d # c => at'[d] = at[d]
    BY <2>1 DEF SyncInv, SyncTypes
  <2>5. CoversOf(c)'
    BY <2>4 DEF CoversOf
  <2> QED BY <1>2, <2>3, <2>4, <2>5, TurnSync DEF Before
<1> QED BY <1>5, <1>6, <1>7

\* Programs end and start: what they were at is given up.
LEMMA RestartSync ==
  ASSUME SyncInv, ServerRestart \/ \E c \in Client : Restart(c)
  PROVE  SyncInv'
<1>1. CASE ServerRestart
  <2>1. /\ journal' = journal /\ queue' = [queue EXCEPT ![Server] = <<>>]
        /\ at' = [c \in Client |-> "offline"] /\ bag' = [c \in Client |-> NoChanges]
        /\ last_sync' = [c \in Client |-> 0]
    BY <1>1 DEF ServerRestart
  <2>2. SyncTypes'
    BY <2>1 DEF SyncInv, SyncTypes
  <2> QED BY <2>1, <2>2 DEF SyncInv, TurnInv, StampsCover, Busy, Before
<1>2. ASSUME NEW c \in Client, Restart(c) PROVE SyncInv'
  <2>1. /\ journal' = journal /\ queue' = [queue EXCEPT ![c] = <<>>]
        /\ at' = [at EXCEPT ![c] = "idle"] /\ bag' = [bag EXCEPT ![c] = NoChanges]
        /\ last_sync' = [last_sync EXCEPT ![c] = 0]
    BY <1>2 DEF Restart, Goto
  <2>2. SyncTypes'
    BY <2>1 DEF SyncInv, SyncTypes
  <2>3. queue'[Server] = queue[Server] /\ at'[c] = "idle"
    BY <2>1, SyncAssumption DEF SyncInv, SyncTypes, Machine
  <2>4. \A d \in Client : d # c => at'[d] = at[d] /\ bag'[d] = bag[d] /\ last_sync'[d] = last_sync[d]
    BY <2>1 DEF SyncInv, SyncTypes
  <2>5. TurnInv'
    BY <2>3, <2>4 DEF SyncInv, TurnInv, Busy, Before
  <2>6. ASSUME NEW d \in Client PROVE CoversOf(d)'
    <3>1. CASE d = c
      BY <2>3, <3>1 DEF CoversOf
    <3>2. CASE d # c
      BY <2>1, <2>3, <2>4, <3>2 DEF CoversOf, SyncInv, StampsCover, server_stamp
    <3> QED BY <3>1, <3>2
  <2>7. StampsCover'
    BY <2>6 DEF StampsCover, CoversOf
  <2> QED BY <2>2, <2>5, <2>7 DEF SyncInv
<1> QED BY <1>1, <1>2

LEMMA SyncStep ==
  ASSUME OneUpdate, SyncInv, [Next]_vars
  PROVE  SyncInv'
<1>1. ASSUME NEW m \in Machine, NEW o \in Op, NEW v \in Content, UserOp(m, o, v) PROVE SyncInv'
  <2>1. /\ UNCHANGED <<journal, last_sync, at, bag>>
        /\ queue' = [queue EXCEPT ![m] = Append(queue[m], o)]
        /\ m = Server => \A c \in Client : ~Busy(c)
    BY <1>1 DEF UserOp, MayDo, OneUpdate
  <2>2. DOMAIN queue' = Machine /\ (m # Server => queue'[Server] = queue[Server])
    BY <2>1 DEF SyncInv, SyncTypes, Machine
  <2> QED BY <2>1, <2>2, QuietSync
<1>2. CASE UNCHANGED vars
  BY <1>2, QuietSync DEF vars, SyncInv, SyncTypes
<1>3. ASSUME NEW c \in Client, Update(c) PROVE SyncInv'
  BY <1>3, PullSync, AnswerSync, PushSync DEF Update
<1> QED BY <1>1, <1>2, <1>3, StageSync, RestartSync DEF Next

=============================================================================
