-------------------------- MODULE BlockBuildProofs --------------------------
(***************************************************************************)
(* Proofs about the merkle tree of coinbase.rs and block.rs for            *)
(* transaction lists of every length, and from them the properties of a    *)
(* job's way through the engine.                                           *)
(*                                                                         *)
(* The provers cannot instantiate an induction theorem that takes an       *)
(* operator.  The least-number principle for sets of naturals needs none,  *)
(* so induction is proved here in the form "a set that contains 0 and is   *)
(* closed under successor contains Nat", and so is the fact that the       *)
(* recursive functions of BlockBuild satisfy their own equations.          *)
(***************************************************************************)
EXTENDS BlockBuild, SequenceTheorems, WellFoundedInduction, TLAPS

\* Every non-empty set of naturals has a least element.
LEMMA LeastNumber ==
    ASSUME NEW T \in SUBSET Nat, T # {}
    PROVE  \E x \in T : \A y \in T : x <= y
  <1> DEFINE R == {ss \in Nat \X Nat : ss[1] < ss[2]}
  <1>1. IsWellFoundedOn(R, Nat)
    BY NatLessThanWellFounded DEF OpToRel
  <1> HIDE DEF R
  <1>2. PICK x \in T : \A y \in T : ~ (<<y, x>> \in R)
    BY <1>1, WFMin
  <1>3. ASSUME NEW y \in T PROVE x <= y
    <2>1. x \in Nat /\ y \in Nat /\ <<y, x>> \in Nat \X Nat
      OBVIOUS
    <2>2. ~ (y < x)
      BY <1>2, <2>1 DEF R
    <2> QED
      BY <2>1, <2>2
  <1> QED
    BY <1>3

\* Induction over the naturals, for a set instead of a predicate.
LEMMA Induction ==
    ASSUME NEW S, 0 \in S, \A n \in Nat : n \in S => n + 1 \in S
    PROVE  \A n \in Nat : n \in S
  <1> DEFINE T == {n \in Nat : n \notin S}
  <1>1. CASE T = {}
    BY <1>1
  <1>2. CASE T # {}
    <2> HIDE DEF T
    <2>0. T \in SUBSET Nat
      BY DEF T
    <2>1. PICK x \in T : \A y \in T : x <= y
      BY <1>2, <2>0, LeastNumber
    <2>2. x \in Nat /\ x # 0 /\ x - 1 \in Nat /\ x - 1 \notin T
      BY <2>1 DEF T
    <2>3. x - 1 \in S
      BY <2>2 DEF T
    <2>4. x \in S
      BY <2>2, <2>3
    <2> QED
      BY <2>1, <2>4 DEF T
  <1> QED
    BY <1>1, <1>2

\* The levels of a tree satisfy the recursion they are defined by.
LEMMA LevelsDef ==
    ASSUME NEW leaves
    PROVE  /\ Levels(leaves)[0] = leaves
           /\ \A n \in Nat : Levels(leaves)[n + 1] = LevelAbove(Levels(leaves)[n])
  <1> DEFINE Start(g, n) == \A i \in 0..n : g[i] = IF i = 0 THEN leaves ELSE LevelAbove(g[i - 1])
             Def(g) == [n \in Nat |-> IF n = 0 THEN leaves ELSE LevelAbove(g[n - 1])]
             F == CHOOSE g : g = Def(g)
  <1> HIDE DEF Start
  <1>1. \A n \in Nat : \E g : Start(g, n)
    <2> DEFINE S == {n \in Nat : \E g : Start(g, n)}
    <2>1. 0 \in S
      <3>1. Start([i \in 0..0 |-> leaves], 0)
        BY DEF Start
      <3> QED
        BY <3>1
    <2>2. ASSUME NEW n \in Nat, n \in S PROVE n + 1 \in S
      <3>1. PICK g : Start(g, n)
        BY <2>2
      <3> DEFINE h == [i \in 0..(n + 1) |-> IF i = n + 1 THEN LevelAbove(g[n]) ELSE g[i]]
      <3>2. \A i \in 0..n : h[i] = g[i]
        OBVIOUS
      <3>3. h[n + 1] = LevelAbove(g[n])
        OBVIOUS
      <3> HIDE DEF h
      <3>4. Start(h, n + 1)
        <4> SUFFICES ASSUME NEW i \in 0..(n + 1)
                     PROVE  h[i] = IF i = 0 THEN leaves ELSE LevelAbove(h[i - 1])
          BY DEF Start
        <4>1. CASE i = n + 1
          <5>1. h[i - 1] = g[n]
            BY <4>1, <3>2
          <5> QED
            BY <4>1, <3>3, <5>1
        <4>2. CASE i # n + 1
          <5>1. i \in 0..n /\ (i # 0 => i - 1 \in 0..n)
            BY <4>2
          <5> QED
            BY <5>1, <3>1, <3>2 DEF Start
        <4> QED
          BY <4>1, <4>2
      <3> QED
        BY <3>4
    <2> HIDE DEF S
    <2>3. \A n \in Nat : n \in S
      BY <2>1, <2>2, Induction
    <2> QED
      BY <2>3 DEF S
  <1>2. ASSUME NEW g, NEW h, NEW n \in Nat, NEW m \in Nat, Start(g, n), Start(h, m), n <= m
        PROVE  g[n] = h[n]
    <2> DEFINE S == {k \in Nat : k <= n => g[k] = h[k]}
    <2>1. 0 \in S
      BY <1>2 DEF Start
    <2>2. ASSUME NEW k \in Nat, k \in S PROVE k + 1 \in S
      <3> SUFFICES ASSUME k + 1 <= n PROVE g[k + 1] = h[k + 1]
        OBVIOUS
      <3>1. k + 1 \in 0..n /\ k + 1 \in 0..m /\ k + 1 # 0 /\ (k + 1) - 1 = k /\ g[k] = h[k]
        BY <1>2, <2>2
      <3>2. g[k + 1] = LevelAbove(g[k])
        BY <1>2, <3>1 DEF Start
      <3>3. h[k + 1] = LevelAbove(h[k])
        BY <1>2, <3>1 DEF Start
      <3> QED
        BY <3>1, <3>2, <3>3
    <2> HIDE DEF S
    <2>3. n \in S
      BY <2>1, <2>2, Induction
    <2> QED
      BY <2>3 DEF S
  <1> DEFINE A(n) == CHOOSE g : Start(g, n)
             f == [n \in Nat |-> A(n)[n]]
  <1>3. \A n \in Nat : Start(A(n), n)
    BY <1>1
  <1> HIDE DEF A
  <1>4. f = Def(f)
    <2>1. f[0] = leaves
      BY <1>3 DEF Start
    <2>2. ASSUME NEW n \in Nat, n # 0 PROVE f[n] = LevelAbove(f[n - 1])
      <3>1. n - 1 \in Nat /\ n \in 0..n /\ n - 1 \in 0..n /\ n - 1 <= n
        BY <2>2
      <3>2. A(n)[n] = LevelAbove(A(n)[n - 1])
        BY <1>3, <2>2, <3>1 DEF Start
      <3>3. A(n - 1)[n - 1] = A(n)[n - 1]
        BY <1>2, <1>3, <3>1
      <3> QED
        BY <3>1, <3>2, <3>3
    <2> HIDE DEF f
    <2>3. \A n \in Nat : f[n] = IF n = 0 THEN leaves ELSE LevelAbove(f[n - 1])
      BY <2>1, <2>2
    <2>4. f = [n \in Nat |-> f[n]]
      BY DEF f
    <2> QED
      BY <2>3, <2>4
  <1> HIDE DEF f
  <1>5. F = Def(F)
    BY <1>4
  <1>6. Levels(leaves) = F
    BY DEF Levels
  <1> HIDE DEF F
  <1>7. F[0] = leaves
    BY <1>5
  <1>8. ASSUME NEW n \in Nat PROVE F[n + 1] = LevelAbove(F[n])
    <2>1. n + 1 \in Nat /\ n + 1 # 0 /\ (n + 1) - 1 = n
      OBVIOUS
    <2>2. F[n + 1] = LevelAbove(F[(n + 1) - 1])
      BY <1>5, <2>1
    <2> QED
      BY <2>1, <2>2
  <1> QED
    BY <1>6, <1>7, <1>8

\* One turn of the miner's fold.
Join(path, hash, n) == <<hash, path[n]>>

\* The hashes a miner computes on its way up the path; Fold is the last of them.
Hashes(leaf, path) ==
    LET hash[n \in Nat] == IF n = 0 THEN leaf ELSE <<hash[n - 1], path[n]>>
    IN  hash

\* They, too, satisfy the recursion they are defined by.
LEMMA HashesDef ==
    ASSUME NEW leaf, NEW path
    PROVE  /\ Hashes(leaf, path)[0] = leaf
           /\ \A n \in Nat : Hashes(leaf, path)[n + 1] = <<Hashes(leaf, path)[n], path[n + 1]>>
  <1> DEFINE Start(g, n) == \A i \in 0..n : g[i] = IF i = 0 THEN leaf ELSE Join(path, g[i - 1], i)
             Def(g) == [n \in Nat |-> IF n = 0 THEN leaf ELSE Join(path, g[n - 1], n)]
             F == CHOOSE g : g = Def(g)
  <1> HIDE DEF Start
  <1>1. \A n \in Nat : \E g : Start(g, n)
    <2> DEFINE S == {n \in Nat : \E g : Start(g, n)}
    <2>1. 0 \in S
      <3>1. Start([i \in 0..0 |-> leaf], 0)
        BY DEF Start
      <3> QED
        BY <3>1
    <2>2. ASSUME NEW n \in Nat, n \in S PROVE n + 1 \in S
      <3>1. PICK g : Start(g, n)
        BY <2>2
      <3> DEFINE h == [i \in 0..(n + 1) |-> IF i = n + 1 THEN Join(path, g[n], n + 1) ELSE g[i]]
      <3>2. \A i \in 0..n : h[i] = g[i]
        OBVIOUS
      <3>3. h[n + 1] = Join(path, g[n], n + 1)
        OBVIOUS
      <3> HIDE DEF h
      <3>4. Start(h, n + 1)
        <4> SUFFICES ASSUME NEW i \in 0..(n + 1)
                     PROVE  h[i] = IF i = 0 THEN leaf ELSE Join(path, h[i - 1], i)
          BY DEF Start
        <4>1. CASE i = n + 1
          <5>1. h[i - 1] = g[n]
            BY <4>1, <3>2
          <5> QED
            BY <4>1, <3>3, <5>1
        <4>2. CASE i # n + 1
          <5>1. i \in 0..n /\ (i # 0 => i - 1 \in 0..n)
            BY <4>2
          <5> QED
            BY <5>1, <3>1, <3>2 DEF Start
        <4> QED
          BY <4>1, <4>2
      <3> QED
        BY <3>4
    <2> HIDE DEF S
    <2>3. \A n \in Nat : n \in S
      BY <2>1, <2>2, Induction
    <2> QED
      BY <2>3 DEF S
  <1>2. ASSUME NEW g, NEW h, NEW n \in Nat, NEW m \in Nat, Start(g, n), Start(h, m), n <= m
        PROVE  g[n] = h[n]
    <2> DEFINE S == {k \in Nat : k <= n => g[k] = h[k]}
    <2>1. 0 \in S
      BY <1>2 DEF Start
    <2>2. ASSUME NEW k \in Nat, k \in S PROVE k + 1 \in S
      <3> SUFFICES ASSUME k + 1 <= n PROVE g[k + 1] = h[k + 1]
        OBVIOUS
      <3>1. k + 1 \in 0..n /\ k + 1 \in 0..m /\ k + 1 # 0 /\ (k + 1) - 1 = k /\ g[k] = h[k]
        BY <1>2, <2>2
      <3>2. g[k + 1] = Join(path, g[k], k + 1)
        BY <1>2, <3>1 DEF Start
      <3>3. h[k + 1] = Join(path, h[k], k + 1)
        BY <1>2, <3>1 DEF Start
      <3> QED
        BY <3>1, <3>2, <3>3
    <2> HIDE DEF S
    <2>3. n \in S
      BY <2>1, <2>2, Induction
    <2> QED
      BY <2>3 DEF S
  <1> DEFINE A(n) == CHOOSE g : Start(g, n)
             f == [n \in Nat |-> A(n)[n]]
  <1>3. \A n \in Nat : Start(A(n), n)
    BY <1>1
  <1> HIDE DEF A
  <1>4. f = Def(f)
    <2>1. f[0] = leaf
      BY <1>3 DEF Start
    <2>2. ASSUME NEW n \in Nat, n # 0 PROVE f[n] = Join(path, f[n - 1], n)
      <3>1. n - 1 \in Nat /\ n \in 0..n /\ n - 1 \in 0..n /\ n - 1 <= n
        BY <2>2
      <3>2. A(n)[n] = Join(path, A(n)[n - 1], n)
        BY <1>3, <2>2, <3>1 DEF Start
      <3>3. A(n - 1)[n - 1] = A(n)[n - 1]
        BY <1>2, <1>3, <3>1
      <3> QED
        BY <3>1, <3>2, <3>3
    <2> HIDE DEF f
    <2>3. \A n \in Nat : f[n] = IF n = 0 THEN leaf ELSE Join(path, f[n - 1], n)
      BY <2>1, <2>2
    <2>4. f = [n \in Nat |-> f[n]]
      BY DEF f
    <2> QED
      BY <2>3, <2>4
  <1> HIDE DEF f
  <1>5. F = Def(F)
    BY <1>4
  <1>6. Hashes(leaf, path) = F
    BY DEF Hashes, Join
  <1> HIDE DEF F
  <1>7. F[0] = leaf
    BY <1>5
  <1>8. ASSUME NEW n \in Nat PROVE F[n + 1] = Join(path, F[n], n + 1)
    <2>1. n + 1 \in Nat /\ n + 1 # 0 /\ (n + 1) - 1 = n
      OBVIOUS
    <2>2. F[n + 1] = Join(path, F[(n + 1) - 1], n + 1)
      BY <1>5, <2>1
    <2> QED
      BY <2>1, <2>2
  <1> QED
    BY <1>6, <1>7, <1>8 DEF Join

-----------------------------------------------------------------------------
(***************************************************************************)
(* The shape of the tree.                                                  *)
(***************************************************************************)

IsLevel(s) == Len(s) \in Nat /\ Len(s) >= 1 /\ s = [i \in 1..Len(s) |-> s[i]]

\* A turn of the loop halves the level, rounding up.
LEMMA AboveShape ==
    ASSUME NEW s, IsLevel(s)
    PROVE  /\ IsLevel(LevelAbove(s))
           /\ Len(LevelAbove(s)) = (Len(s) + 1) \div 2
           /\ \A i \in 1..Len(LevelAbove(s)) : LevelAbove(s)[i] =
                 <<s[2 * i - 1], s[IF 2 * i > Len(s) THEN Len(s) ELSE 2 * i]>>
  <1>1. Len(s) \in Nat /\ Len(s) >= 1
    BY DEF IsLevel
  <1>2. (Len(s) + 1) \div 2 \in Nat /\ (Len(s) + 1) \div 2 >= 1
    BY <1>1
  <1>3. DOMAIN LevelAbove(s) = 1..(Len(s) + 1) \div 2
    BY DEF LevelAbove
  <1>4. Len(LevelAbove(s)) = (Len(s) + 1) \div 2
    BY <1>2 DEF LevelAbove
  <1> QED
    BY <1>2, <1>3, <1>4 DEF IsLevel, LevelAbove

LEMMA LevelsShape ==
    ASSUME NEW a, IsLevel(a)
    PROVE  \A n \in Nat : IsLevel(Levels(a)[n])
  <1> DEFINE S == {n \in Nat : IsLevel(Levels(a)[n])}
  <1>1. 0 \in S
    BY LevelsDef
  <1>2. ASSUME NEW n \in Nat, n \in S PROVE n + 1 \in S
    BY <1>2, LevelsDef, AboveShape
  <1> HIDE DEF S
  <1>3. \A n \in Nat : n \in S
    BY <1>1, <1>2, Induction
  <1> QED
    BY <1>3 DEF S

\* The loop comes to an end, and every level it meets before has two hashes or
\* more.
LEMMA HeightShape ==
    ASSUME NEW a, IsLevel(a)
    PROVE  /\ Height(a) \in Nat
           /\ Len(Levels(a)[Height(a)]) = 1
           /\ \A n \in Nat : n < Height(a) => Len(Levels(a)[n]) >= 2
  <1> DEFINE L(n) == Len(Levels(a)[n])
             S == {n \in Nat : L(n) = 1 \/ L(n) + n <= Len(a)}
             T == {n \in 0..Len(a) : L(n) = 1}
  <1>0. Len(a) \in Nat
    BY DEF IsLevel
  <1>t. \A n \in Nat : L(n) \in Nat /\ L(n) >= 1
    BY LevelsShape DEF IsLevel
  <1>a. \A n \in Nat : L(n + 1) = (L(n) + 1) \div 2
    BY LevelsDef, LevelsShape, AboveShape
  <1>b. L(0) = Len(a)
    BY LevelsDef
  <1> HIDE DEF L
  <1>1. 0 \in S
    BY <1>0, <1>b
  <1>2. ASSUME NEW n \in Nat, n \in S PROVE n + 1 \in S
    <2>1. L(n) \in Nat /\ L(n) >= 1 /\ L(n + 1) = (L(n) + 1) \div 2 /\ n + 1 \in Nat
      BY <1>t, <1>a
    <2>2. CASE L(n) = 1
      BY <2>1, <2>2
    <2>3. CASE L(n) # 1 /\ L(n) + n <= Len(a)
      <3>1. L(n + 1) + 1 <= L(n) /\ L(n + 1) \in Nat
        BY <2>1, <2>3
      <3>2. L(n + 1) + (n + 1) <= Len(a)
        BY <1>0, <2>1, <2>3, <3>1
      <3> QED
        BY <2>1, <3>2
    <2> QED
      BY <1>2, <2>2, <2>3
  <1> HIDE DEF S
  <1>3. Len(a) \in S
    BY <1>0, <1>1, <1>2, Induction
  <1>4. Len(a) \in T
    BY <1>0, <1>3, <1>t DEF S
  <1> HIDE DEF T
  <1>5. T \in SUBSET Nat
    BY <1>0 DEF T
  <1>6. Height(a) = Min(T)
    BY DEF Height, T, L
  <1>7. Min(T) \in T /\ \A y \in T : Min(T) <= y
    BY <1>4, <1>5, LeastNumber DEF Min
  <1>8. Height(a) \in Nat /\ L(Height(a)) = 1 /\ Height(a) <= Len(a)
    BY <1>0, <1>6, <1>7 DEF T
  <1>9. ASSUME NEW n \in Nat, n < Height(a) PROVE L(n) >= 2
    <2>1. n \in 0..Len(a) /\ n \notin T
      BY <1>0, <1>6, <1>7, <1>8, <1>9
    <2>2. L(n) # 1
      BY <2>1 DEF T
    <2> QED
      BY <2>2, <1>t
  <1> QED
    BY <1>8, <1>9 DEF L

-----------------------------------------------------------------------------
(***************************************************************************)
(* Folding the path yields the root.                                       *)
(***************************************************************************)

\* Two levels that differ in the first hash at most.
SameButFirst(s, t) == Len(s) = Len(t) /\ \A i \in 2..Len(s) : s[i] = t[i]

LEMMA SameAbove ==
    ASSUME NEW s, NEW t, IsLevel(s), IsLevel(t), SameButFirst(s, t)
    PROVE  SameButFirst(LevelAbove(s), LevelAbove(t))
  <1>1. Len(s) \in Nat /\ Len(t) = Len(s)
    BY DEF IsLevel, SameButFirst
  <1>2. Len(LevelAbove(s)) = (Len(s) + 1) \div 2 /\ Len(LevelAbove(t)) = (Len(s) + 1) \div 2
    BY <1>1, AboveShape
  <1>3. ASSUME NEW i \in 2..Len(LevelAbove(s)) PROVE LevelAbove(s)[i] = LevelAbove(t)[i]
    <2> DEFINE j == IF 2 * i > Len(s) THEN Len(s) ELSE 2 * i
    <2>1. i \in 1..Len(LevelAbove(s)) /\ i \in 1..Len(LevelAbove(t)) /\ i \in Nat
      BY <1>1, <1>2
    <2>2. 2 * i - 1 \in 2..Len(s) /\ j \in 2..Len(s)
      BY <1>1, <1>2
    <2>3. s[2 * i - 1] = t[2 * i - 1] /\ s[j] = t[j]
      BY <2>2 DEF SameButFirst
    <2>4. LevelAbove(s)[i] = <<s[2 * i - 1], s[j]>> /\ LevelAbove(t)[i] = <<t[2 * i - 1], t[j]>>
      BY <1>1, <2>1, AboveShape
    <2> QED
      BY <2>3, <2>4
  <1> QED
    BY <1>2, <1>3 DEF SameButFirst

LEMMA SameLevels ==
    ASSUME NEW a, NEW b, IsLevel(a), IsLevel(b), SameButFirst(a, b)
    PROVE  \A n \in Nat : SameButFirst(Levels(a)[n], Levels(b)[n])
  <1> DEFINE S == {n \in Nat : SameButFirst(Levels(a)[n], Levels(b)[n])}
  <1>1. 0 \in S
    BY LevelsDef
  <1>2. ASSUME NEW n \in Nat, n \in S PROVE n + 1 \in S
    BY <1>2, LevelsDef, LevelsShape, SameAbove
  <1> HIDE DEF S
  <1>3. \A n \in Nat : n \in S
    BY <1>1, <1>2, Induction
  <1> QED
    BY <1>3 DEF S

\* The path does not depend on the coinbase: the miner may use the one that was
\* computed for another extranonce.
LEMMA SameBranch ==
    ASSUME NEW a, NEW b, IsLevel(a), IsLevel(b), SameButFirst(a, b)
    PROVE  Branch(a) = Branch(b)
  <1>1. \A n \in Nat : SameButFirst(Levels(a)[n], Levels(b)[n])
    BY SameLevels
  <1>2. {n \in 0..Len(a) : Len(Levels(a)[n]) = 1} = {n \in 0..Len(b) : Len(Levels(b)[n]) = 1}
    BY <1>1 DEF SameButFirst, IsLevel
  <1>3. Height(a) = Height(b) /\ Height(a) \in Nat
    BY <1>2, HeightShape DEF Height
  <1>4. ASSUME NEW n \in 1..Height(a) PROVE Levels(a)[n - 1][2] = Levels(b)[n - 1][2]
    <2>1. n - 1 \in Nat /\ n - 1 < Height(a)
      BY <1>3
    <2>2. Len(Levels(a)[n - 1]) >= 2 /\ Len(Levels(a)[n - 1]) \in Nat
      BY <2>1, HeightShape, LevelsShape DEF IsLevel
    <2>3. 2 \in 2..Len(Levels(a)[n - 1])
      BY <2>2
    <2> QED
      BY <1>1, <2>1, <2>3 DEF SameButFirst
  <1> QED
    BY <1>3, <1>4 DEF Branch

\* The leftmost hash of each level is the coinbase's leaf folded with the path so
\* far; the last one is the root.
LEMMA FoldsToRoot ==
    ASSUME NEW a, IsLevel(a)
    PROVE  Fold(a[1], Branch(a)) = Root(a)
  <1> DEFINE H == Hashes(a[1], Branch(a))
             S == {n \in Nat : n <= Height(a) => H[n] = Levels(a)[n][1]}
  <1>0. Height(a) \in Nat
    BY HeightShape
  <1>1. 0 \in S
    BY LevelsDef, HashesDef
  <1>2. ASSUME NEW n \in Nat, n \in S PROVE n + 1 \in S
    <2> SUFFICES ASSUME n + 1 <= Height(a) PROVE H[n + 1] = Levels(a)[n + 1][1]
      OBVIOUS
    <2>1. n < Height(a) /\ n + 1 \in 1..Height(a) /\ H[n] = Levels(a)[n][1]
      BY <1>0, <1>2
    <2>2. Branch(a)[n + 1] = Levels(a)[n][2]
      BY <2>1 DEF Branch
    <2>3. H[n + 1] = <<Levels(a)[n][1], Levels(a)[n][2]>>
      BY <2>1, <2>2, HashesDef
    <2>4. Len(Levels(a)[n]) >= 2 /\ IsLevel(Levels(a)[n]) /\ Len(Levels(a)[n]) \in Nat
      BY <2>1, HeightShape, LevelsShape DEF IsLevel
    <2>5. 1 \in 1..Len(LevelAbove(Levels(a)[n]))
      BY <2>4, AboveShape
    <2>6. LevelAbove(Levels(a)[n])[1] = <<Levels(a)[n][1], Levels(a)[n][2]>>
      BY <2>4, <2>5, AboveShape
    <2> QED
      BY <2>3, <2>6, LevelsDef
  <1> HIDE DEF S
  <1>3. Height(a) \in S
    BY <1>0, <1>1, <1>2, Induction
  <1>4. H[Height(a)] = Levels(a)[Height(a)][1]
    BY <1>0, <1>3 DEF S
  <1>5. Len(Branch(a)) = Height(a)
    BY <1>0 DEF Branch
  <1>6. Fold(a[1], Branch(a)) = H[Len(Branch(a))]
    BY DEF Fold, Hashes
  <1> QED
    BY <1>4, <1>5, <1>6 DEF Root

-----------------------------------------------------------------------------
(***************************************************************************)
(* The root identifies the leaves, but for those repeated at the end.      *)
(***************************************************************************)

LEMMA FirstAbove ==
    ASSUME NEW s, IsLevel(s), Len(s) >= 2
    PROVE  LevelAbove(s)[1] = <<s[1], s[2]>>
  <1>1. Len(s) \in Nat
    BY DEF IsLevel
  <1>2. 1 \in 1..Len(LevelAbove(s))
    BY <1>1, AboveShape
  <1> QED
    BY <1>1, <1>2, AboveShape

\* From the root down, the leftmost hashes of two trees with the same root agree,
\* and a leaf is not a node: the trees are equally high.
LEMMA SameHeight ==
    ASSUME NEW a, NEW b, IsLevel(a), IsLevel(b), Root(a) = Root(b), Height(a) <= Height(b),
           NEW c, a[1] = <<c>>
    PROVE  Height(a) = Height(b)
  <1> DEFINE Ha == Height(a)
             Hb == Height(b)
             A(n) == Levels(a)[n]
             B(n) == Levels(b)[n]
             S == {k \in Nat : k <= Ha => A(Ha - k)[1] = B(Hb - k)[1]}
  <1>0. Ha \in Nat /\ Hb \in Nat /\ Ha <= Hb
    BY HeightShape
  <1>1. \A n \in Nat : n < Ha => A(n + 1)[1] = <<A(n)[1], A(n)[2]>>
    BY LevelsDef, LevelsShape, HeightShape, FirstAbove
  <1>2. \A n \in Nat : n < Hb => B(n + 1)[1] = <<B(n)[1], B(n)[2]>>
    BY LevelsDef, LevelsShape, HeightShape, FirstAbove
  <1>3. A(Ha)[1] = B(Hb)[1] /\ A(0) = a
    BY LevelsDef DEF Root
  <1> HIDE DEF A, B, Ha, Hb
  <1>4. 0 \in S
    BY <1>0, <1>3
  <1>5. ASSUME NEW k \in Nat, k \in S PROVE k + 1 \in S
    <2> SUFFICES ASSUME k + 1 <= Ha PROVE A(Ha - (k + 1))[1] = B(Hb - (k + 1))[1]
      OBVIOUS
    <2> DEFINE m == Ha - (k + 1)
               n == Hb - (k + 1)
    <2>1. m \in Nat /\ m < Ha /\ m + 1 = Ha - k /\ n \in Nat /\ n < Hb /\ n + 1 = Hb - k
      BY <1>0
    <2>2. A(m + 1)[1] = B(n + 1)[1]
      BY <1>0, <1>5, <2>1
    <2> HIDE DEF m, n
    <2>3. <<A(m)[1], A(m)[2]>> = <<B(n)[1], B(n)[2]>>
      BY <1>1, <1>2, <2>1, <2>2
    <2> QED
      BY <2>3 DEF m, n
  <1> HIDE DEF S
  <1>6. Ha \in S
    BY <1>0, <1>4, <1>5, Induction
  <1>7. A(0)[1] = B(Hb - Ha)[1]
    BY <1>0, <1>6 DEF S
  <1>8. Ha # Hb => FALSE
    <2> SUFFICES ASSUME Ha # Hb PROVE FALSE
      OBVIOUS
    <2> DEFINE n == (Hb - Ha) - 1
    <2>1. n \in Nat /\ n < Hb /\ n + 1 = Hb - Ha
      BY <1>0
    <2> HIDE DEF n
    <2>2. <<c>> = <<B(n)[1], B(n)[2]>>
      BY <1>2, <1>3, <1>7, <2>1
    <2>3. Len(<<c>>) = 1 /\ Len(<<B(n)[1], B(n)[2]>>) = 2
      OBVIOUS
    <2> QED
      BY <2>2, <2>3
  <1> QED
    BY <1>8 DEF Ha, Hb

\* Two levels that agree as far as the shorter one goes, and one whose hashes, all but
\* the first, are among those of the other.
Agree(s, t) == \A i \in 1..Len(s) : i <= Len(t) => s[i] = t[i]
Covers(s, t) == \A i \in 2..Len(s) : \E j \in 2..Len(t) : s[i] = t[j]

\* The two children of a hash.
LEMMA Children ==
    ASSUME NEW s, IsLevel(s), NEW h \in 1..Len(LevelAbove(s))
    PROVE  /\ 2 * h - 1 \in 1..Len(s)
           /\ LevelAbove(s)[h] = <<s[2 * h - 1], s[IF 2 * h > Len(s) THEN Len(s) ELSE 2 * h]>>
  <1>1. Len(s) \in Nat /\ Len(LevelAbove(s)) = (Len(s) + 1) \div 2
    BY AboveShape DEF IsLevel
  <1>2. 2 * h - 1 \in 1..Len(s)
    BY <1>1
  <1> QED
    BY <1>2, AboveShape

\* The hash a hash is paired into, and which of the two it is.
LEMMA Parent ==
    ASSUME NEW s, IsLevel(s), NEW i \in 1..Len(s)
    PROVE  \E h \in 1..Len(LevelAbove(s)) : i = 2 * h - 1 \/ i = 2 * h
  <1>1. Len(s) \in Nat /\ Len(LevelAbove(s)) = (Len(s) + 1) \div 2 /\ i \in Nat
    BY AboveShape DEF IsLevel
  <1> DEFINE h == (i + 1) \div 2
  <1>2. h \in 1..Len(LevelAbove(s)) /\ (i = 2 * h - 1 \/ i = 2 * h)
    BY <1>1
  <1> QED
    BY <1>2

LEMMA PairEqual ==
    ASSUME NEW u, NEW v, NEW x, NEW y, <<u, v>> = <<x, y>>
    PROVE  u = x /\ v = y
  OBVIOUS

LEMMA AgreeBelow ==
    ASSUME NEW s, NEW t, IsLevel(s), IsLevel(t), Agree(LevelAbove(s), LevelAbove(t))
    PROVE  Agree(s, t)
  <1> SUFFICES ASSUME NEW i \in 1..Len(s), i <= Len(t) PROVE s[i] = t[i]
    BY DEF Agree
  <1>1. /\ Len(s) \in Nat /\ Len(LevelAbove(s)) = (Len(s) + 1) \div 2
        /\ Len(t) \in Nat /\ Len(LevelAbove(t)) = (Len(t) + 1) \div 2
    BY AboveShape DEF IsLevel
  <1>2. PICK h \in 1..Len(LevelAbove(s)) : i = 2 * h - 1 \/ i = 2 * h
    BY Parent
  <1>3. h \in 1..Len(LevelAbove(t)) /\ h \in Nat
    BY <1>1, <1>2
  <1>4. LevelAbove(s)[h] = LevelAbove(t)[h]
    BY <1>3 DEF Agree
  <1>5. /\ s[2 * h - 1] = t[2 * h - 1]
        /\ s[IF 2 * h > Len(s) THEN Len(s) ELSE 2 * h]
              = t[IF 2 * h > Len(t) THEN Len(t) ELSE 2 * h]
    <2>1. LevelAbove(s)[h] = <<s[2 * h - 1], s[IF 2 * h > Len(s) THEN Len(s) ELSE 2 * h]>>
      BY Children
    <2>2. LevelAbove(t)[h] = <<t[2 * h - 1], t[IF 2 * h > Len(t) THEN Len(t) ELSE 2 * h]>>
      BY <1>3, Children
    <2> DEFINE u == s[2 * h - 1]
               v == s[IF 2 * h > Len(s) THEN Len(s) ELSE 2 * h]
               x == t[2 * h - 1]
               y == t[IF 2 * h > Len(t) THEN Len(t) ELSE 2 * h]
    <2>3. <<u, v>> = <<x, y>>
      BY <1>4, <2>1, <2>2
    <2> HIDE DEF u, v, x, y
    <2>4. u = x /\ v = y
      BY <2>3, PairEqual
    <2> QED
      BY <2>4 DEF u, v, x, y
  <1>6. CASE i = 2 * h - 1
    BY <1>5, <1>6
  <1>7. CASE i = 2 * h
    <2>1. (IF 2 * h > Len(s) THEN Len(s) ELSE 2 * h) = i
      BY <1>1, <1>3, <1>7
    <2>2. (IF 2 * h > Len(t) THEN Len(t) ELSE 2 * h) = i
      BY <1>1, <1>3, <1>7
    <2> QED
      BY <1>5, <2>1, <2>2
  <1> QED
    BY <1>2, <1>6, <1>7

\* The second hash is the same on both sides; every other has a parent past the first,
\* which is one of the other side's, and so are its children.
LEMMA CoversBelow ==
    ASSUME NEW s, NEW t, IsLevel(s), IsLevel(t), Len(t) >= 2, Agree(s, t),
           Covers(LevelAbove(s), LevelAbove(t))
    PROVE  Covers(s, t)
  <1> SUFFICES ASSUME NEW i \in 2..Len(s) PROVE \E j \in 2..Len(t) : s[i] = t[j]
    BY DEF Covers
  <1>1. /\ Len(s) \in Nat /\ Len(LevelAbove(s)) = (Len(s) + 1) \div 2
        /\ Len(t) \in Nat /\ Len(LevelAbove(t)) = (Len(t) + 1) \div 2
    BY AboveShape DEF IsLevel
  <1>2. CASE i = 2
    <2>1. 2 \in 1..Len(s) /\ 2 \in 2..Len(t)
      BY <1>1, <1>2
    <2> QED
      BY <1>2, <2>1 DEF Agree
  <1>3. CASE i # 2
    <2>0. i \in 1..Len(s)
      BY <1>1
    <2>1. PICK h \in 1..Len(LevelAbove(s)) : i = 2 * h - 1 \/ i = 2 * h
      BY <2>0, Parent
    <2>2. h \in 2..Len(LevelAbove(s)) /\ h \in Nat
      BY <1>1, <1>3, <2>1
    <2>3. PICK k \in 2..Len(LevelAbove(t)) : LevelAbove(s)[h] = LevelAbove(t)[k]
      BY <2>2 DEF Covers
    <2>4. k \in 1..Len(LevelAbove(t)) /\ k \in Nat /\ k >= 2
      BY <1>1, <2>3
    <2> DEFINE l == IF 2 * h > Len(s) THEN Len(s) ELSE 2 * h
               m == IF 2 * k > Len(t) THEN Len(t) ELSE 2 * k
    <2>5. LevelAbove(s)[h] = <<s[2 * h - 1], s[l]>>
      BY Children
    <2>6. LevelAbove(t)[k] = <<t[2 * k - 1], t[m]>> /\ 2 * k - 1 \in 1..Len(t)
      BY <2>4, Children
    <2>7. 2 * k - 1 \in 2..Len(t) /\ m \in 2..Len(t)
      BY <1>1, <2>4, <2>6
    <2>8. i = 2 * h => l = i
      BY <1>1, <2>2
    <2> HIDE DEF l, m
    <2>9. s[2 * h - 1] = t[2 * k - 1] /\ s[l] = t[m]
      <3> DEFINE u == s[2 * h - 1]
                 v == s[l]
                 x == t[2 * k - 1]
                 y == t[m]
      <3>1. <<u, v>> = <<x, y>>
        BY <2>3, <2>5, <2>6
      <3> HIDE DEF u, v, x, y
      <3>2. u = x /\ v = y
        BY <3>1, PairEqual
      <3> QED
        BY <3>2 DEF u, v, x, y
    <2> QED
      BY <2>1, <2>7, <2>8, <2>9
  <1> QED
    BY <1>2, <1>3

\* Two trees with the same root: from the root down, each pair of levels agrees, and
\* neither has a hash that is not in the other.
LEMMA RootIdentifiesLeaves ==
    ASSUME NEW a, NEW b, IsLevel(a), IsLevel(b), Root(a) = Root(b),
           NEW c, a[1] = <<c>>, NEW d, b[1] = <<d>>
    PROVE  Agree(a, b) /\ Covers(a, b) /\ Covers(b, a)
  <1> DEFINE H == Height(a)
             A(n) == Levels(a)[n]
             B(n) == Levels(b)[n]
             Alike(n) == Agree(A(n), B(n)) /\ Agree(B(n), A(n))
                         /\ Covers(A(n), B(n)) /\ Covers(B(n), A(n))
             S == {k \in Nat : k <= H => Alike(H - k)}
  <1>0. H \in Nat /\ Height(b) = H
    <2>1. Height(a) \in Nat /\ Height(b) \in Nat
      BY HeightShape
    <2>2. Height(a) <= Height(b) => Height(a) = Height(b)
      BY SameHeight
    <2>3. Height(b) <= Height(a) => Height(b) = Height(a)
      BY SameHeight
    <2> QED
      BY <2>1, <2>2, <2>3
  <1>1. /\ \A n \in Nat : A(n + 1) = LevelAbove(A(n)) /\ B(n + 1) = LevelAbove(B(n))
        /\ A(0) = a /\ B(0) = b
    BY LevelsDef
  <1>2. \A n \in Nat : IsLevel(A(n)) /\ IsLevel(B(n))
    BY LevelsShape
  <1>3. \A n \in Nat : n < H => Len(A(n)) >= 2 /\ Len(B(n)) >= 2
    BY <1>0, HeightShape
  <1>4. Len(A(H)) = 1 /\ Len(B(H)) = 1 /\ A(H)[1] = B(H)[1]
    BY <1>0, HeightShape DEF Root
  <1> HIDE DEF A, B, H
  <1>5. Alike(H)
    BY <1>4 DEF Agree, Covers
  <1>6. 0 \in S
    BY <1>0, <1>5
  <1>7. ASSUME NEW k \in Nat, k \in S PROVE k + 1 \in S
    <2> SUFFICES ASSUME k + 1 <= H PROVE Alike(H - (k + 1))
      OBVIOUS
    <2> DEFINE n == H - (k + 1)
    <2>1. n \in Nat /\ n < H /\ n + 1 = H - k
      BY <1>0
    <2>2. Alike(n + 1)
      BY <1>0, <1>7, <2>1
    <2> HIDE DEF n
    <2>3. IsLevel(A(n)) /\ IsLevel(B(n)) /\ Len(A(n)) >= 2 /\ Len(B(n)) >= 2
      BY <1>2, <1>3, <2>1
    <2>4. A(n + 1) = LevelAbove(A(n)) /\ B(n + 1) = LevelAbove(B(n))
      BY <1>1, <2>1
    <2>5. Agree(A(n), B(n)) /\ Agree(B(n), A(n))
      BY <2>2, <2>3, <2>4, AgreeBelow
    <2>6. Covers(A(n), B(n)) /\ Covers(B(n), A(n))
      BY <2>2, <2>3, <2>4, <2>5, CoversBelow
    <2> QED
      BY <2>5, <2>6 DEF n
  <1> HIDE DEF S
  <1>8. H \in S
    BY <1>0, <1>6, <1>7, Induction
  <1>9. Alike(0)
    BY <1>0, <1>8 DEF S
  <1> QED
    BY <1>1, <1>9

-----------------------------------------------------------------------------
(***************************************************************************)
(* The operators of coinbase.rs and block.rs.                              *)
(***************************************************************************)

LEMMA LeavesShape ==
    ASSUME NEW coinbase, NEW txs \in Seq(Txids)
    PROVE  /\ IsLevel(Leaves(coinbase, txs))
           /\ Len(Leaves(coinbase, txs)) = Len(txs) + 1
           /\ Leaves(coinbase, txs)[1] = <<coinbase>>
           /\ \A i \in 1..Len(txs) : Leaves(coinbase, txs)[i + 1] = <<txs[i]>>
  <1>1. Len(txs) \in Nat
    OBVIOUS
  <1>2. /\ Len(Leaves(coinbase, txs)) = Len(txs) + 1
        /\ DOMAIN Leaves(coinbase, txs) = 1..(Len(txs) + 1)
        /\ Leaves(coinbase, txs)[1] = <<coinbase>>
        /\ \A i \in 1..Len(txs) : Leaves(coinbase, txs)[i + 1] = <<txs[i]>>
    BY <1>1 DEF Leaves
  <1>3. Leaves(coinbase, txs) = [i \in 1..Len(Leaves(coinbase, txs)) |-> Leaves(coinbase, txs)[i]]
    BY <1>1, <1>2 DEF Leaves
  <1> QED
    BY <1>1, <1>2, <1>3 DEF IsLevel

\* The promise of merkle_path, for every list of transactions: whatever coinbase
\* the path was computed with, folding another coinbase with it gives the root of
\* the tree over that coinbase.
THEOREM PathFoldsToRoot ==
    ASSUME NEW coinbase, NEW declared, NEW txs \in Seq(Txids)
    PROVE  Fold(<<coinbase>>, MerklePath(declared, txs)) = ComputeMerkleRoot(coinbase, txs)
  <1> DEFINE a == Leaves(coinbase, txs)
             b == Leaves(declared, txs)
  <1>1. IsLevel(a) /\ IsLevel(b) /\ a[1] = <<coinbase>>
    BY LeavesShape
  <1>2. SameButFirst(a, b)
    <2>1. Len(txs) \in Nat /\ Len(a) = Len(txs) + 1 /\ Len(b) = Len(txs) + 1
      BY LeavesShape
    <2>2. ASSUME NEW i \in 2..Len(a) PROVE a[i] = b[i]
      <3>1. i - 1 \in 1..Len(txs) /\ (i - 1) + 1 = i
        BY <2>1, <2>2
      <3>2. a[(i - 1) + 1] = <<txs[i - 1]>>
        BY <3>1, LeavesShape
      <3>3. b[(i - 1) + 1] = <<txs[i - 1]>>
        BY <3>1, LeavesShape
      <3> QED
        BY <3>1, <3>2, <3>3
    <2> QED
      BY <2>1, <2>2 DEF SameButFirst
  <1> HIDE DEF a, b
  <1>3. Branch(a) = Branch(b) /\ Fold(a[1], Branch(a)) = Root(a)
    BY <1>1, <1>2, SameBranch, FoldsToRoot
  <1> QED
    BY <1>1, <1>3 DEF a, b, MerklePath, ComputeMerkleRoot

\* Lists of the same transactions that name none twice are equal.
LEMMA SameEqual ==
    ASSUME NEW s \in Seq(Txids), NEW t \in Seq(Txids), SameTransactions(s, t),
           IsInjective(s), IsInjective(t)
    PROVE  s = t
  <1>1. Len(s) \in Nat /\ Len(t) \in Nat /\ DOMAIN s = 1..Len(s) /\ DOMAIN t = 1..Len(t)
    OBVIOUS
  <1>2. ASSUME NEW x \in Seq(Txids), NEW y \in Seq(Txids), SameTransactions(x, y), IsInjective(y)
        PROVE  Len(y) <= Len(x)
    <2> SUFFICES ASSUME Len(x) < Len(y) PROVE FALSE
      OBVIOUS
    <2>0. Len(x) \in Nat /\ Len(y) \in Nat /\ DOMAIN x = 1..Len(x) /\ DOMAIN y = 1..Len(y)
      OBVIOUS
    <2> DEFINE i == Len(x) + 1
    <2>1. i \in DOMAIN y /\ i \notin DOMAIN x
      BY <2>0
    <2> HIDE DEF i
    <2>2. y[i] \in Range(x)
      <3>1. y[i] \in Range(y)
        BY <2>1 DEF Range
      <3> QED
        BY <1>2, <3>1 DEF SameTransactions
    <2>3. PICK j \in DOMAIN x : y[i] = x[j]
      BY <2>2 DEF Range
    <2>4. j \in DOMAIN y
      BY <2>0
    <2>5. y[j] = x[j]
      BY <1>2, <2>4 DEF SameTransactions
    <2>6. i = j
      BY <1>2, <2>1, <2>3, <2>4, <2>5 DEF IsInjective
    <2> QED
      BY <2>1, <2>6
  <1>3. Len(t) <= Len(s)
    BY <1>2
  <1>4. SameTransactions(t, s)
    BY DEF SameTransactions
  <1>5. Len(s) <= Len(t)
    BY <1>2, <1>4
  <1>6. Len(s) = Len(t)
    <2> DEFINE m == Len(s)
               n == Len(t)
    <2>1. m \in Nat /\ n \in Nat /\ n <= m /\ m <= n
      BY <1>1, <1>3, <1>5
    <2> HIDE DEF m, n
    <2>2. m = n
      BY <2>1
    <2> QED
      BY <2>2 DEF m, n
  <1>7. ASSUME NEW i \in 1..Len(s) PROVE s[i] = t[i]
    <2>1. i \in DOMAIN s \cap DOMAIN t
      BY <1>1, <1>6
    <2> QED
      BY <2>1 DEF SameTransactions
  <1> QED
    BY <1>6, <1>7, SeqEqual

\* A merkle root identifies the coinbase's txid and the transactions, their order
\* included, but for transactions that one of the lists repeats at its end; it
\* identifies the list if none is repeated.
THEOREM RootIdentifiesBlock ==
    ASSUME NEW c, NEW d, NEW s \in Seq(Txids), NEW t \in Seq(Txids),
           ComputeMerkleRoot(c, s) = ComputeMerkleRoot(d, t)
    PROVE  c = d /\ SameTransactions(s, t) /\ (IsInjective(s) /\ IsInjective(t) => s = t)
  <1> DEFINE a == Leaves(c, s)
             b == Leaves(d, t)
  <1>1. /\ IsLevel(a) /\ Len(a) = Len(s) + 1 /\ a[1] = <<c>>
        /\ \A i \in 1..Len(s) : a[i + 1] = <<s[i]>>
    BY LeavesShape
  <1>2. /\ IsLevel(b) /\ Len(b) = Len(t) + 1 /\ b[1] = <<d>>
        /\ \A i \in 1..Len(t) : b[i + 1] = <<t[i]>>
    BY LeavesShape
  <1>3. Root(a) = Root(b)
    BY DEF ComputeMerkleRoot
  <1> HIDE DEF a, b
  <1>4. Agree(a, b) /\ Covers(a, b) /\ Covers(b, a)
    BY <1>1, <1>2, <1>3, RootIdentifiesLeaves
  <1>5. Len(s) \in Nat /\ Len(t) \in Nat /\ DOMAIN s = 1..Len(s) /\ DOMAIN t = 1..Len(t)
    OBVIOUS
  <1>6. c = d
    <2>1. 1 \in 1..Len(a) /\ 1 <= Len(b)
      BY <1>1, <1>2, <1>5
    <2>2. <<c>> = <<d>>
      BY <1>1, <1>2, <1>4, <2>1 DEF Agree
    <2> QED
      BY <2>2
  <1>7. ASSUME NEW i \in DOMAIN s \cap DOMAIN t PROVE s[i] = t[i]
    <2>1. i \in 1..Len(s) /\ i \in 1..Len(t) /\ i + 1 \in 1..Len(a) /\ i + 1 <= Len(b)
      BY <1>1, <1>2, <1>5
    <2>2. <<s[i]>> = <<t[i]>>
      BY <1>1, <1>2, <1>4, <2>1 DEF Agree
    <2> QED
      BY <2>2
  <1>8. ASSUME NEW i \in 1..Len(s) PROVE \E j \in 1..Len(t) : s[i] = t[j]
    <2>1. i + 1 \in 2..Len(a)
      BY <1>1, <1>5
    <2>2. PICK k \in 2..Len(b) : a[i + 1] = b[k]
      BY <1>4, <2>1 DEF Covers
    <2>3. k - 1 \in 1..Len(t) /\ (k - 1) + 1 = k
      BY <1>2, <1>5
    <2>4. <<s[i]>> = <<t[k - 1]>>
      BY <1>1, <1>2, <2>2, <2>3
    <2> QED
      BY <2>3, <2>4
  <1>9. ASSUME NEW j \in 1..Len(t) PROVE \E i \in 1..Len(s) : t[j] = s[i]
    <2>1. j + 1 \in 2..Len(b)
      BY <1>2, <1>5
    <2>2. PICK k \in 2..Len(a) : b[j + 1] = a[k]
      BY <1>4, <2>1 DEF Covers
    <2>3. k - 1 \in 1..Len(s) /\ (k - 1) + 1 = k
      BY <1>1, <1>5
    <2>4. <<t[j]>> = <<s[k - 1]>>
      BY <1>1, <1>2, <2>2, <2>3
    <2> QED
      BY <2>3, <2>4
  <1>10. Range(s) = Range(t)
    <2>1. ASSUME NEW x \in Range(s) PROVE x \in Range(t)
      <3>1. PICK i \in 1..Len(s) : x = s[i]
        BY <1>5, <2>1 DEF Range
      <3>2. PICK j \in 1..Len(t) : s[i] = t[j]
        BY <1>8
      <3> QED
        BY <1>5, <3>1, <3>2 DEF Range
    <2>2. ASSUME NEW x \in Range(t) PROVE x \in Range(s)
      <3>1. PICK j \in 1..Len(t) : x = t[j]
        BY <1>5, <2>2 DEF Range
      <3>2. PICK i \in 1..Len(s) : t[j] = s[i]
        BY <1>9
      <3> QED
        BY <1>5, <3>1, <3>2 DEF Range
    <2> QED
      BY <2>1, <2>2
  <1>11. SameTransactions(s, t)
    BY <1>7, <1>10 DEF SameTransactions
  <1> QED
    BY <1>6, <1>11, SameEqual

-----------------------------------------------------------------------------
(***************************************************************************)
(* A job's way through them: declared, proposed, mined, pushed.            *)
(***************************************************************************)

\* What the cache holds: a job whose coinbase could be rebuilt.
Valid(job) == job \in Jobs /\ ReconstructCoinbase(job.prefix, job.suffix).ok

\* Its coinbase with an extranonce in the hole, and the size of the hole.
CoinbaseOf(job, e) == [prefix |-> job.prefix, extranonce |-> e, suffix |-> job.suffix]
Hole(job) == ExtranonceSize(job.prefix).value
Zero(job) == [len |-> Hole(job), value |-> 0]
TxidOf(job, e) == ComputeTxid(CoinbaseOf(job, e))

\* The extranonce upsets the decoder, which it can in a layout of its own only.
Upsets(job, e) == ~job.prefix.documented /\ Misread(CoinbaseOf(job, e)) = None

\* What reconstruct_coinbase and reconstruct_coinbase_with_extranonce make of it.
LEMMA CoinbaseCases ==
    ASSUME NEW job, Valid(job)
    PROVE  /\ ReconstructCoinbase(job.prefix, job.suffix) = Ok(CoinbaseOf(job, Zero(job)))
           /\ \A e : ReconstructWithExtranonce(job.prefix, e, job.suffix) =
                        IF e.len # Hole(job) THEN Err("ExtranonceSizeMismatch")
                        ELSE IF Upsets(job, e) THEN Err("Decode") ELSE Ok(CoinbaseOf(job, e))
  <1> DEFINE size == ExtranonceSize(job.prefix)
  <1>1. size.ok \in BOOLEAN /\ (~size.ok => ReconstructCoinbase(job.prefix, job.suffix) = size)
    BY DEF ExtranonceSize, ReconstructCoinbase, Ok, Err
  <1> HIDE DEF size
  <1>2. size.ok
    BY <1>1 DEF Valid
  <1>3. ReconstructCoinbase(job.prefix, job.suffix) = Decode(job.prefix, Zero(job), job.suffix)
    BY <1>2 DEF ReconstructCoinbase, Zero, Hole, size
  <1>4. job.prefix.documented \in BOOLEAN
    BY JobAssumption DEF Valid, CoinbasePrefixes
  <1>5. \A e : Decode(job.prefix, e, job.suffix) =
                 IF (job.prefix.documented /\ job.suffix.outputs = "garbled") \/ Upsets(job, e)
                 THEN Err("Decode") ELSE Ok(CoinbaseOf(job, e))
    BY <1>4 DEF Decode, Upsets, CoinbaseOf
  <1>6. /\ ~(job.prefix.documented /\ job.suffix.outputs = "garbled")
        /\ Decode(job.prefix, Zero(job), job.suffix) = Ok(CoinbaseOf(job, Zero(job)))
    BY <1>3, <1>5 DEF Valid, Err
  <1>7. ASSUME NEW e
        PROVE  ReconstructWithExtranonce(job.prefix, e, job.suffix) =
                  IF e.len # Hole(job) THEN Err("ExtranonceSizeMismatch")
                  ELSE Decode(job.prefix, e, job.suffix)
    BY <1>2 DEF ReconstructWithExtranonce, Hole, size
  <1> QED
    BY <1>3, <1>5, <1>6, <1>7

\* The same as the fields of the results.
LEMMA CoinbaseValue ==
    ASSUME NEW job, Valid(job)
    PROVE  /\ ReconstructCoinbase(job.prefix, job.suffix).ok
           /\ ReconstructCoinbase(job.prefix, job.suffix).value = CoinbaseOf(job, Zero(job))
  <1>1. ReconstructCoinbase(job.prefix, job.suffix) = Ok(CoinbaseOf(job, Zero(job)))
    BY CoinbaseCases
  <1> QED
    BY <1>1 DEF Ok

LEMMA SolvedCoinbaseValue ==
    ASSUME NEW job, Valid(job), NEW e, e.len = Hole(job), ~Upsets(job, e)
    PROVE  /\ ReconstructWithExtranonce(job.prefix, e, job.suffix).ok
           /\ ReconstructWithExtranonce(job.prefix, e, job.suffix).value = CoinbaseOf(job, e)
  <1>1. ReconstructWithExtranonce(job.prefix, e, job.suffix) = Ok(CoinbaseOf(job, e))
    BY CoinbaseCases
  <1> QED
    BY <1>1 DEF Ok

\* BodiesError is None only for the declared transactions.
LEMMA BodiesCases ==
    ASSUME NEW job, NEW bodies
    PROVE  \/ BodiesError(job, bodies) = None /\ bodies = job.txs
           \/ BodiesError(job, bodies) # None
              /\ BodiesError(job, bodies) \in {"TxBodyCountMismatch", "TxBodyTxidMismatch"}
  BY NoneAssumption DEF BodiesError, Errors

\* What reconstruct_block makes of a job in the cache.
LEMMA BlockCases ==
    ASSUME NEW job, Valid(job), NEW sol, NEW bodies
    PROVE  LET result == ReconstructBlock(job, sol, bodies)
               coinbase == CoinbaseOf(job, sol.extranonce)
           IN  \/ /\ ~result.ok
                  /\ result.error \in {"TxBodyCountMismatch", "TxBodyTxidMismatch"}
               \/ /\ ~result.ok /\ result.error = "ExtranonceSizeMismatch"
                  /\ sol.extranonce.len # Hole(job)
               \/ /\ ~result.ok /\ result.error = "Decode" /\ ~job.prefix.documented
               \/ /\ result.ok /\ sol.extranonce.len = Hole(job) /\ ~Upsets(job, sol.extranonce)
                  /\ result.value.header = HeaderOf(sol.version, coinbase, job, sol.time, sol.nonce)
                  /\ result.value.txdata = <<coinbase>> \o job.txs
  <1> DEFINE result == ReconstructBlock(job, sol, bodies)
             cb == ReconstructWithExtranonce(job.prefix, sol.extranonce, job.suffix)
             e == sol.extranonce
  <1>1. CASE BodiesError(job, bodies) # None
    <2>1. result = Err(BodiesError(job, bodies))
      BY <1>1 DEF ReconstructBlock
    <2> QED
      BY <1>1, <2>1, BodiesCases DEF Err
  <1>2. CASE BodiesError(job, bodies) = None /\ e.len # Hole(job)
    <2>1. cb = Err("ExtranonceSizeMismatch")
      BY <1>2, CoinbaseCases
    <2>2. result = Err("ExtranonceSizeMismatch")
      BY <1>2, <2>1 DEF ReconstructBlock, Err
    <2> QED
      BY <1>2, <2>2 DEF Err
  <1>3. CASE BodiesError(job, bodies) = None /\ e.len = Hole(job) /\ Upsets(job, e)
    <2>1. cb = Err("Decode")
      BY <1>3, CoinbaseCases
    <2>2. result = Err("Decode")
      BY <1>3, <2>1 DEF ReconstructBlock, Err
    <2> QED
      BY <1>3, <2>2 DEF Err, Upsets
  <1>4. CASE BodiesError(job, bodies) = None /\ e.len = Hole(job) /\ ~Upsets(job, e)
    <2>1. cb.ok /\ cb.value = CoinbaseOf(job, e) /\ bodies = job.txs
      BY <1>4, SolvedCoinbaseValue, BodiesCases
    <2>2. result = Ok([header |-> HeaderOf(sol.version, cb.value, job, sol.time, sol.nonce),
                       txdata |-> <<cb.value>> \o bodies])
      BY <1>4, <2>1 DEF ReconstructBlock
    <2> QED
      BY <1>4, <2>1, <2>2 DEF Ok
  <1> QED
    BY <1>1, <1>2, <1>3, <1>4

\* What build_candidate_block makes of it.
LEMMA CandidateCases ==
    ASSUME NEW job, Valid(job), NEW bodies
    PROVE  LET result == BuildCandidateBlock(job, bodies)
           IN  \/ ~result.ok
               \/ /\ result.ok /\ bodies = job.txs
                  /\ result.value.header =
                        HeaderOf(job.version, CoinbaseOf(job, Zero(job)), job, "min_ntime", 0)
                  /\ result.value.txdata = <<CoinbaseOf(job, Zero(job))>> \o job.txs
  <1> DEFINE result == BuildCandidateBlock(job, bodies)
             cb == ReconstructCoinbase(job.prefix, job.suffix)
  <1>1. cb = Ok(CoinbaseOf(job, Zero(job)))
    BY CoinbaseCases
  <1>2. cb.ok /\ cb.value = CoinbaseOf(job, Zero(job))
    BY <1>1 DEF Ok
  <1>3. CASE BodiesError(job, bodies) # None
    <2>1. result = Err(BodiesError(job, bodies))
      BY <1>3 DEF BuildCandidateBlock
    <2> QED
      BY <2>1 DEF Err
  <1>4. CASE BodiesError(job, bodies) = None
    <2>1. result = Ok([header |-> HeaderOf(job.version, cb.value, job, "min_ntime", 0),
                       txdata |-> <<cb.value>> \o bodies])
      BY <1>2, <1>4 DEF BuildCandidateBlock
    <2> QED
      BY <1>2, <1>4, <2>1, BodiesCases DEF Ok
  <1> QED
    BY <1>3, <1>4

\* The history of what the variables hold.  CacheInv: every cached job is valid.
CacheInv ==
    /\ declared_jobs \in [RequestIds -> Jobs \cup {None}]
    /\ \A r \in RequestIds : declared_jobs[r] # None => Valid(declared_jobs[r])

\* A solution is for a valid job, with the root the miner got from its path.
MinedInv ==
    solution # None =>
        /\ Valid(mined.job) /\ solution.version = mined.job.version
        /\ mined.fits = (solution.extranonce.len = Hole(mined.job))
        /\ mined.txid = TxidOf(mined.job, solution.extranonce)
        /\ mined.root = Fold(<<mined.txid>>,
                             MerklePath(TxidOf(mined.job, Zero(mined.job)), mined.job.txs))

\* A solved block was rebuilt from the solution and a valid job of its version.
SolvedInv ==
    solved # None =>
        /\ solution # None /\ Valid(found) /\ found.version = solution.version
        /\ \E bodies \in TxLists : solved = ReconstructBlock(found, solution, bodies)

\* A proposal has passed the checks of its custom job, or is an error.
ProposedInv ==
    proposed # None =>
        /\ Valid(proposed.job)
        /\ \/ ~proposed.result.ok
           \/ /\ \E bodies \in TxLists : proposed.result = BuildCandidateBlock(proposed.job, bodies)
              /\ proposed.merkle_path =
                    MerklePath(TxidOf(proposed.job, Zero(proposed.job)), proposed.job.txs)

WayInv == CacheInv /\ MinedInv /\ SolvedInv /\ ProposedInv

LEMMA WayInit == Init => WayInv
  BY DEF Init, WayInv, CacheInv, MinedInv, SolvedInv, ProposedInv

LEMMA WayStep == WayInv /\ [Next]_vars => WayInv'
  <1> SUFFICES ASSUME WayInv, [Next]_vars PROVE WayInv'
    OBVIOUS
  <1>1. ASSUME NEW r \in RequestIds, NEW job \in Jobs, NEW pmts \in Pmts, Declare(r, job, pmts)
        PROVE  WayInv'
    <2>1. declared_jobs' = [declared_jobs EXCEPT ![r] = job] /\ Valid(job)
      BY <1>1 DEF Declare, Valid
    <2>2. /\ declared_jobs' \in [RequestIds -> Jobs \cup {None}]
          /\ \A q \in RequestIds : declared_jobs'[q] = IF q = r THEN job ELSE declared_jobs[q]
      BY <2>1 DEF WayInv, CacheInv
    <2>3. CacheInv'
      BY <2>1, <2>2 DEF WayInv, CacheInv
    <2>4. UNCHANGED <<proposed, solution, mined, found, solved>>
      BY <1>1 DEF Declare
    <2> QED
      BY <2>3, <2>4 DEF WayInv, MinedInv, SolvedInv, ProposedInv
  <1>2. ASSUME NEW r \in RequestIds, NEW custom \in CustomJobs, NEW bodies \in TxLists,
               Propose(r, custom, bodies)
        PROVE  WayInv'
    <2> DEFINE job == declared_jobs[r]
               error == CustomJobError(job, custom)
               result == IF error # None THEN Err(error) ELSE BuildCandidateBlock(job, bodies)
    <2>1. /\ job # None /\ declared_jobs' = [declared_jobs EXCEPT ![r] = None]
          /\ UNCHANGED <<solution, mined, found, solved>>
          /\ proposed' = [job |-> job, result |-> result,
                          merkle_path |-> IF result.ok THEN custom.merkle_path ELSE None]
      BY <1>2 DEF Propose
    <2>2. Valid(job)
      BY <2>1 DEF WayInv, CacheInv
    <2>3. CacheInv'
      <3>1. /\ declared_jobs' \in [RequestIds -> Jobs \cup {None}]
            /\ \A q \in RequestIds : declared_jobs'[q] = IF q = r THEN None ELSE declared_jobs[q]
        BY <2>1 DEF WayInv, CacheInv
      <3> QED
        BY <3>1 DEF WayInv, CacheInv
    <2>4. CASE error # None
      <3>1. result = Err(error)
        BY <2>4
      <3>2. ~proposed'.result.ok /\ proposed'.job = job
        BY <2>1, <3>1 DEF Err
      <3> QED
        BY <2>1, <2>2, <2>3, <3>2 DEF WayInv, MinedInv, SolvedInv, ProposedInv
    <2>5. CASE error = None
      <3>1. result = BuildCandidateBlock(job, bodies)
        BY <2>5
      <3>2. custom.merkle_path = MerklePath(TxidOf(job, Zero(job)), job.txs)
        <4> DEFINE cb == ReconstructCoinbase(job.prefix, job.suffix)
        <4>1. cb.ok /\ cb.value = CoinbaseOf(job, Zero(job))
          BY <2>2, CoinbaseValue
        <4>2. custom.merkle_path = MerklePath(ComputeTxid(cb.value), job.txs)
          BY <2>5, NoneAssumption DEF CustomJobError, Errors
        <4> QED
          BY <4>1, <4>2 DEF TxidOf
      <3> HIDE DEF result, job
      <3>3. proposed'.job = job /\ proposed'.result = result
        BY <2>1
      <3>4. result.ok => proposed'.merkle_path = custom.merkle_path
        BY <2>1
      <3>5. ProposedInv'
        BY <2>2, <3>1, <3>2, <3>3, <3>4 DEF ProposedInv
      <3> QED
        BY <2>1, <2>3, <3>5 DEF WayInv, MinedInv, SolvedInv
    <2> QED
      BY <2>4, <2>5
  <1>3. ASSUME NEW r \in RequestIds, NEW e \in Extranonces, Mine(r, e)
        PROVE  WayInv'
    <2> DEFINE job == declared_jobs[r]
               declared == ReconstructCoinbase(job.prefix, job.suffix).value
               coinbase == [declared EXCEPT !.extranonce = e]
    <2>1. /\ solution = None /\ job # None
          /\ solution' = [version |-> job.version, extranonce |-> e, time |-> "ntime", nonce |-> 1]
          /\ mined' = [job |-> job, fits |-> e.len = declared.extranonce.len,
                       txid |-> ComputeTxid(coinbase),
                       root |-> Fold(<<ComputeTxid(coinbase)>>,
                                     MerklePath(ComputeTxid(declared), job.txs))]
          /\ UNCHANGED <<declared_jobs, proposed, found, solved>>
      BY <1>3 DEF Mine
    <2>2. Valid(job)
      BY <2>1 DEF WayInv, CacheInv
    <2>3. declared = CoinbaseOf(job, Zero(job))
      BY <2>2, CoinbaseValue
    <2>4. coinbase = CoinbaseOf(job, e) /\ declared.extranonce.len = Hole(job)
      BY <2>3 DEF CoinbaseOf, Zero
    <2> HIDE DEF job, declared, coinbase
    <2>5. /\ solution'.version = job.version /\ solution'.extranonce = e /\ mined'.job = job
          /\ mined'.fits = (e.len = Hole(job))
          /\ mined'.txid = TxidOf(job, e)
          /\ mined'.root = Fold(<<TxidOf(job, e)>>, MerklePath(TxidOf(job, Zero(job)), job.txs))
      BY <2>1, <2>3, <2>4 DEF TxidOf
    <2>6. MinedInv'
      BY <2>2, <2>5 DEF MinedInv
    <2>7. solved = None
      BY <2>1 DEF WayInv, SolvedInv
    <2> QED
      BY <2>1, <2>6, <2>7 DEF WayInv, CacheInv, SolvedInv, ProposedInv
  <1>4. ASSUME NEW r \in RequestIds, NEW bodies \in TxLists, Push(r, bodies) PROVE WayInv'
    <2>1. /\ solution # None /\ declared_jobs[r] # None
          /\ declared_jobs[r].version = solution.version /\ found' = declared_jobs[r]
          /\ solved' = ReconstructBlock(declared_jobs[r], solution, bodies)
          /\ UNCHANGED <<declared_jobs, proposed, solution, mined>>
      BY <1>4 DEF Push
    <2>2. Valid(found')
      BY <2>1 DEF WayInv, CacheInv
    <2>3. SolvedInv'
      BY <2>1, <2>2 DEF SolvedInv
    <2> QED
      BY <2>1, <2>3 DEF WayInv, CacheInv, MinedInv, ProposedInv
  <1>5. CASE UNCHANGED vars
    BY <1>5 DEF vars, WayInv, CacheInv, MinedInv, SolvedInv, ProposedInv
  <1> QED
    BY <1>1, <1>2, <1>3, <1>4, <1>5 DEF Next

LEMMA WayAlways == Spec => []WayInv
  BY WayInit, WayStep, PTL DEF Spec

\* A valid job has a list of transactions the merkle lemmas are about.
LEMMA ValidTxs ==
    ASSUME NEW job, Valid(job)
    PROVE  job.txs \in Seq(Txids)
  BY JobAssumption DEF Valid

\* Head and tail of a block's transactions.
LEMMA BlockParts ==
    ASSUME NEW coinbase, NEW txs \in Seq(Txids)
    PROVE  Head(<<coinbase>> \o txs) = coinbase /\ Tail(<<coinbase>> \o txs) = txs
  <1> DEFINE S == Txids \cup {coinbase}
  <1>1. <<coinbase>> \in Seq(S) /\ txs \in Seq(S) /\ Len(<<coinbase>>) = 1
    OBVIOUS
  <1>2. <<coinbase>> \o txs \in Seq(S) /\ Len(<<coinbase>> \o txs) = 1 + Len(txs)
    BY <1>1
  <1>3. Head(<<coinbase>> \o txs) = coinbase
    BY <1>1
  <1>4. Tail(<<coinbase>> \o txs) \in Seq(S) /\ Len(Tail(<<coinbase>> \o txs)) = Len(txs)
    BY <1>1, <1>2
  <1>5. \A i \in 1..Len(txs) : Tail(<<coinbase>> \o txs)[i] = txs[i]
    BY <1>1, <1>2, <1>4
  <1> QED
    BY <1>1, <1>3, <1>4, <1>5, SeqEqual

\* What the invariant says of a block that was rebuilt.
LEMMA SolvedMeans ==
    ASSUME WayInv, solved # None
    PROVE  LET coinbase == CoinbaseOf(found, solution.extranonce)
           IN  /\ Valid(found) /\ Valid(mined.job) /\ found.version = solution.version
               /\ mined.fits = (solution.extranonce.len = Hole(mined.job))
               /\ mined.txid = TxidOf(mined.job, solution.extranonce)
               /\ mined.root = ComputeMerkleRoot(mined.txid, mined.job.txs)
               /\ \/ /\ ~solved.ok
                     /\ solved.error \in {"TxBodyCountMismatch", "TxBodyTxidMismatch"}
                  \/ /\ ~solved.ok /\ solved.error = "ExtranonceSizeMismatch"
                     /\ solution.extranonce.len # Hole(found)
                  \/ /\ ~solved.ok /\ solved.error = "Decode" /\ ~found.prefix.documented
                  \/ /\ solved.ok /\ solution.extranonce.len = Hole(found)
                     /\ ~Upsets(found, solution.extranonce)
                     /\ solved.value.header = HeaderOf(solution.version, coinbase, found,
                                                       solution.time, solution.nonce)
                     /\ solved.value.txdata = <<coinbase>> \o found.txs
  <1>1. /\ solution # None /\ Valid(found) /\ found.version = solution.version
        /\ \E bodies \in TxLists : solved = ReconstructBlock(found, solution, bodies)
    BY DEF WayInv, SolvedInv
  <1>2. /\ Valid(mined.job)
        /\ mined.fits = (solution.extranonce.len = Hole(mined.job))
        /\ mined.txid = TxidOf(mined.job, solution.extranonce)
        /\ mined.root = Fold(<<mined.txid>>,
                             MerklePath(TxidOf(mined.job, Zero(mined.job)), mined.job.txs))
    BY <1>1 DEF WayInv, MinedInv
  <1>3. mined.root = ComputeMerkleRoot(mined.txid, mined.job.txs)
    BY <1>2, ValidTxs, PathFoldsToRoot
  <1>4. PICK bodies \in TxLists : solved = ReconstructBlock(found, solution, bodies)
    BY <1>1
  <1>5. LET result == ReconstructBlock(found, solution, bodies)
            coinbase == CoinbaseOf(found, solution.extranonce)
        IN  \/ /\ ~result.ok
               /\ result.error \in {"TxBodyCountMismatch", "TxBodyTxidMismatch"}
            \/ /\ ~result.ok /\ result.error = "ExtranonceSizeMismatch"
               /\ solution.extranonce.len # Hole(found)
            \/ /\ ~result.ok /\ result.error = "Decode" /\ ~found.prefix.documented
            \/ /\ result.ok /\ solution.extranonce.len = Hole(found)
               /\ ~Upsets(found, solution.extranonce)
               /\ result.value.header = HeaderOf(solution.version, coinbase, found,
                                                 solution.time, solution.nonce)
               /\ result.value.txdata = <<coinbase>> \o found.txs
    BY <1>1, BlockCases
  <1> QED
    BY <1>1, <1>2, <1>3, <1>4, <1>5

\* A rebuilt block, part by part.
LEMMA SolvedParts ==
    ASSUME WayInv, solved # None, solved.ok
    PROVE  /\ Head(solved.value.txdata) = CoinbaseOf(found, solution.extranonce)
           /\ Tail(solved.value.txdata) = found.txs
           /\ solved.value.header.version = solution.version
           /\ solved.value.header.root = ComputeMerkleRoot(TxidOf(found, solution.extranonce), found.txs)
  <1> DEFINE cb == CoinbaseOf(found, solution.extranonce)
  <1>1. /\ Valid(found) /\ solved.value.txdata = <<cb>> \o found.txs
        /\ solved.value.header = HeaderOf(solution.version, cb, found, solution.time, solution.nonce)
    BY SolvedMeans
  <1> HIDE DEF cb
  <1>2. Head(solved.value.txdata) = cb /\ Tail(solved.value.txdata) = found.txs
    BY <1>1, ValidTxs, BlockParts
  <1> QED
    BY <1>1, <1>2 DEF HeaderOf, TxidOf, cb

\* For transaction lists of any length: the block that is submitted has the root the
\* miner hashed if it was rebuilt for the job that was mined, and otherwise only if it
\* is the same block but for the coinbase's witness and for transactions repeated at
\* the end.
THEOREM MinedBlockIsSolved == Spec => []SolvedBlockIsTheMinedOne
  <1>1. WayInv => SolvedBlockIsTheMinedOne
    <2> SUFFICES ASSUME WayInv, solved # None, solved.ok
                 PROVE  /\ found = mined.job => solved.value.header.root = mined.root
                        /\ solved.value.header.root = mined.root =>
                              /\ ComputeTxid(Head(solved.value.txdata)) = mined.txid
                              /\ SameTransactions(Tail(solved.value.txdata), mined.job.txs)
      BY DEF SolvedBlockIsTheMinedOne
    <2> DEFINE c == TxidOf(found, solution.extranonce)
               d == mined.txid
               s == found.txs
               t == mined.job.txs
    <2>1. /\ d = TxidOf(mined.job, solution.extranonce)
          /\ mined.root = ComputeMerkleRoot(d, t) /\ Valid(found) /\ Valid(mined.job)
      BY SolvedMeans
    <2>2. /\ solved.value.header.root = ComputeMerkleRoot(c, s)
          /\ ComputeTxid(Head(solved.value.txdata)) = c /\ Tail(solved.value.txdata) = s
      BY SolvedParts DEF TxidOf
    <2>3. s \in Seq(Txids) /\ t \in Seq(Txids)
      BY <2>1, ValidTxs
    <2>4. ASSUME found = mined.job PROVE solved.value.header.root = mined.root
      BY <2>1, <2>2, <2>4
    <2> HIDE DEF c, d, s, t
    <2>5. ASSUME solved.value.header.root = mined.root PROVE c = d /\ SameTransactions(s, t)
      <3>1. ComputeMerkleRoot(c, s) = ComputeMerkleRoot(d, t)
        BY <2>1, <2>2, <2>5
      <3> QED
        BY <2>3, <3>1, RootIdentifiesBlock
    <2> QED
      BY <2>2, <2>4, <2>5 DEF d, t
  <1> QED
    BY <1>1, WayAlways, PTL

\* reconstruct_block fails for a cached job only on what the other side sent.
THEOREM JobsRebuild == Spec => []DeclaredJobRebuilds
  <1>1. WayInv => DeclaredJobRebuilds
    <2> SUFFICES ASSUME WayInv, solved # None, ~solved.ok
                 PROVE  \/ solved.error \in {"TxBodyCountMismatch", "TxBodyTxidMismatch"}
                        \/ /\ solved.error = "ExtranonceSizeMismatch"
                           /\ found = mined.job => ~mined.fits
                        \/ solved.error = "Decode" /\ ~found.prefix.documented
      BY DEF DeclaredJobRebuilds
    <2> QED
      BY SolvedMeans
  <1> QED
    BY <1>1, WayAlways, PTL

\* What the invariant says of a block that was proposed.
LEMMA ProposedMeans ==
    ASSUME WayInv, proposed # None, proposed.result.ok
    PROVE  LET job == proposed.job
               block == proposed.result.value
           IN  /\ Valid(job)
               /\ proposed.merkle_path = MerklePath(TxidOf(job, Zero(job)), job.txs)
               /\ block.header.version = job.version
               /\ block.header.root = ComputeMerkleRoot(TxidOf(job, Zero(job)), job.txs)
               /\ Head(block.txdata) = CoinbaseOf(job, Zero(job))
               /\ Tail(block.txdata) = job.txs
  <1> DEFINE job == proposed.job
             block == proposed.result.value
             cb == CoinbaseOf(job, Zero(job))
  <1>1. /\ Valid(proposed.job)
        /\ \E bodies \in TxLists : proposed.result = BuildCandidateBlock(proposed.job, bodies)
        /\ proposed.merkle_path =
              MerklePath(TxidOf(proposed.job, Zero(proposed.job)), proposed.job.txs)
    BY DEF WayInv, ProposedInv
  <1>2. /\ block.header = HeaderOf(job.version, cb, job, "min_ntime", 0)
        /\ block.txdata = <<cb>> \o job.txs
    <2>1. PICK bodies \in TxLists : proposed.result = BuildCandidateBlock(job, bodies)
      BY <1>1
    <2> DEFINE result == BuildCandidateBlock(job, bodies)
    <2>2. \/ ~result.ok
          \/ /\ result.value.header = HeaderOf(job.version, cb, job, "min_ntime", 0)
             /\ result.value.txdata = <<cb>> \o job.txs
      BY <1>1, CandidateCases
    <2> QED
      BY <2>1, <2>2
  <1>3. Head(block.txdata) = cb /\ Tail(block.txdata) = job.txs
    <2> HIDE DEF cb, block, job
    <2> QED
      BY <1>1, <1>2, ValidTxs, BlockParts DEF job
  <1> QED
    BY <1>1, <1>2, <1>3 DEF HeaderOf, TxidOf

\* Every header the engine proposes or submits commits to its transactions.
THEOREM HeadersCommit == Spec => []HeaderCommitsToBodies
  <1>1. ASSUME WayInv, proposed # None, proposed.result.ok
        PROVE  LET block == proposed.result.value
               IN  block.header.root =
                      ComputeMerkleRoot(ComputeTxid(Head(block.txdata)), Tail(block.txdata))
    BY <1>1, ProposedMeans DEF TxidOf
  <1>2. ASSUME WayInv, solved # None, solved.ok
        PROVE  LET block == solved.value
               IN  block.header.root =
                      ComputeMerkleRoot(ComputeTxid(Head(block.txdata)), Tail(block.txdata))
    BY <1>2, SolvedParts DEF TxidOf
  <1>3. WayInv => HeaderCommitsToBodies
    BY <1>1, <1>2 DEF HeaderCommitsToBodies
  <1> QED
    BY <1>3, WayAlways, PTL

\* The proposal differs from the block that is solved only in extranonce, time and
\* nonce, and reconstruct_header agrees with reconstruct_block.
THEOREM ProposalSolved == Spec => []ProposalIsWhatIsSolved
  <1>1. ASSUME WayInv, solved # None, solved.ok
        PROVE  ReconstructHeader(found, solution) = Ok(solved.value.header)
    <2> DEFINE cb == ReconstructWithExtranonce(found.prefix, solution.extranonce, found.suffix)
    <2>1. Valid(found) /\ solution.extranonce.len = Hole(found) /\ ~Upsets(found, solution.extranonce)
      BY <1>1, SolvedMeans
    <2>2. cb.ok /\ cb.value = CoinbaseOf(found, solution.extranonce)
      BY <2>1, SolvedCoinbaseValue
    <2>3. ReconstructHeader(found, solution) =
              Ok(HeaderOf(solution.version, cb.value, found, solution.time, solution.nonce))
      BY <2>2 DEF ReconstructHeader
    <2> QED
      BY <1>1, <2>2, <2>3, SolvedMeans
  <1>2. ASSUME WayInv, solved # None, solved.ok, proposed # None, proposed.result.ok,
               proposed.job = found
        PROVE  LET candidate == proposed.result.value
               IN  /\ candidate.header.version = solved.value.header.version
                   /\ Tail(candidate.txdata) = Tail(solved.value.txdata)
                   /\ [Head(candidate.txdata) EXCEPT !.extranonce = solution.extranonce]
                         = Head(solved.value.txdata)
    <2> DEFINE candidate == proposed.result.value
    <2>1. /\ Head(solved.value.txdata) = CoinbaseOf(found, solution.extranonce)
          /\ Tail(solved.value.txdata) = found.txs
          /\ solved.value.header.version = found.version
      BY <1>2, SolvedMeans, SolvedParts
    <2>2. /\ Head(candidate.txdata) = CoinbaseOf(found, Zero(found))
          /\ Tail(candidate.txdata) = found.txs
          /\ candidate.header.version = found.version
      BY <1>2, ProposedMeans
    <2>3. [CoinbaseOf(found, Zero(found)) EXCEPT !.extranonce = solution.extranonce]
              = CoinbaseOf(found, solution.extranonce)
      BY DEF CoinbaseOf
    <2> QED
      BY <2>1, <2>2, <2>3
  <1>3. WayInv => ProposalIsWhatIsSolved
    BY <1>1, <1>2 DEF ProposalIsWhatIsSolved
  <1> QED
    BY <1>3, WayAlways, PTL

\* The merkle path of a custom job that reaches bitcoind folds the proposed coinbase
\* into the root that was proposed, for transaction lists of any length.
THEOREM ProposalMinable == Spec => []ProposedRootIsMinable
  <1>1. WayInv => ProposedRootIsMinable
    <2> SUFFICES ASSUME WayInv, proposed # None, proposed.result.ok
                 PROVE  Fold(<<ComputeTxid(Head(proposed.result.value.txdata))>>, proposed.merkle_path)
                            = proposed.result.value.header.root
      BY DEF ProposedRootIsMinable
    <2> DEFINE c == TxidOf(proposed.job, Zero(proposed.job))
               t == proposed.job.txs
    <2>1. /\ Valid(proposed.job) /\ proposed.merkle_path = MerklePath(c, t)
          /\ proposed.result.value.header.root = ComputeMerkleRoot(c, t)
          /\ ComputeTxid(Head(proposed.result.value.txdata)) = c
      BY ProposedMeans DEF TxidOf
    <2>2. t \in Seq(Txids)
      BY <2>1, ValidTxs
    <2> HIDE DEF c, t
    <2> QED
      BY <2>1, <2>2, PathFoldsToRoot
  <1> QED
    BY <1>1, WayAlways, PTL

\* Two cached jobs with the same merkle path declare the same transactions in the
\* same order, however many they are, but for those repeated at the end.
THEOREM PathIdentifies == Spec => []PathIdentifiesTransactions
  <1>1. WayInv => PathIdentifiesTransactions
    <2> SUFFICES ASSUME WayInv, NEW r \in RequestIds, NEW q \in RequestIds,
                        declared_jobs[r] # None, declared_jobs[q] # None,
                        MerklePath("coinbase", declared_jobs[r].txs)
                            = MerklePath("coinbase", declared_jobs[q].txs)
                 PROVE  SameTransactions(declared_jobs[r].txs, declared_jobs[q].txs)
      BY DEF PathIdentifiesTransactions
    <2> DEFINE s == declared_jobs[r].txs
               t == declared_jobs[q].txs
    <2>1. s \in Seq(Txids) /\ t \in Seq(Txids)
      BY ValidTxs DEF WayInv, CacheInv
    <2> HIDE DEF s, t
    <2>2. MerklePath("coinbase", s) = MerklePath("coinbase", t)
      BY DEF s, t
    <2>3. /\ Fold(<<"coinbase">>, MerklePath("coinbase", s)) = ComputeMerkleRoot("coinbase", s)
          /\ Fold(<<"coinbase">>, MerklePath("coinbase", t)) = ComputeMerkleRoot("coinbase", t)
      BY <2>1, PathFoldsToRoot
    <2>4. SameTransactions(s, t)
      BY <2>1, <2>2, <2>3, RootIdentifiesBlock
    <2> QED
      BY <2>4 DEF s, t
  <1> QED
    BY <1>1, WayAlways, PTL
=============================================================================
