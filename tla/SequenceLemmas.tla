---------------------------- MODULE SequenceLemmas ----------------------------
(***************************************************************************)
(* Lemmas about numbers and sequences that the proofs of several           *)
(* components use: where a set of numbers begins and ends, and what a      *)
(* window of a sequence holds.                                             *)
(***************************************************************************)
EXTENDS Integers, Sequences, FiniteSets, FiniteSetTheorems, SequenceTheorems,
        FunctionTheorems, WellFoundedInduction, TLAPS

-----------------------------------------------------------------------------
(* Numbers.                                                                *)

\* A set of naturals that has a member has a least one.
LEMMA LeastNatural ==
  ASSUME NEW T, T \subseteq Nat, T # {}
  PROVE  \E x \in T : \A y \in T : x <= y
<1> DEFINE R == {p \in Nat \X Nat : p[1] < p[2]}
<1>1. IsWellFoundedOn(R, Nat)  BY NatLessThanWellFounded DEF OpToRel
<1>2. \A x, y \in Nat : <<y, x>> \in R <=> y < x  OBVIOUS
<1> HIDE DEF R
<1>3. PICK x \in T : \A y \in T : ~(<<y, x>> \in R)  BY <1>1, WFMin
<1>4. ASSUME NEW y \in T PROVE x <= y
  <2>1. x \in Nat /\ y \in Nat /\ ~(<<y, x>> \in R)  BY <1>3
  <2> QED  BY <2>1, <1>2
<1> QED  BY <1>4

\* A bounded one has a greatest member.
LEMMA GreatestNatural ==
  ASSUME NEW n \in Nat, NEW T, T \subseteq 0..n, T # {}
  PROVE  \E x \in T : \A y \in T : y <= x
<1> DEFINE D == {i \in 0..n : n - i \in T}
<1>1. D \subseteq Nat /\ D # {}
  <2>1. PICK t \in T : TRUE  OBVIOUS
  <2>2. n - t \in 0..n /\ n - (n - t) = t  BY <2>1
  <2> QED  BY <2>1, <2>2
<1>2. PICK d \in D : \A e \in D : d <= e  BY <1>1, LeastNatural
<1>3. ASSUME NEW y \in T PROVE y <= n - d
  <2>1. y \in 0..n /\ n - y \in 0..n /\ n - (n - y) = y  OBVIOUS
  <2>2. n - y \in D  BY <2>1
  <2>3. d \in 0..n /\ d <= n - y  BY <1>2, <2>2
  <2> QED  BY <2>1, <2>3
<1>4. n - d \in T  BY <1>2
<1> QED  BY <1>3, <1>4

-----------------------------------------------------------------------------
(* Windows of a sequence.                                                  *)

\* A window of a sequence, from one position to another.
LEMMA WindowOf ==
  ASSUME NEW S, NEW s \in Seq(S), NEW i \in 1..Len(s) + 1, NEW j \in 0..Len(s)
  PROVE  /\ SubSeq(s, i, j) \in Seq(S)
         /\ Len(SubSeq(s, i, j)) = IF i <= j THEN j - i + 1 ELSE 0
         /\ \A n \in 1..Len(SubSeq(s, i, j)) : SubSeq(s, i, j)[n] = s[n + i - 1]
<1>1. \A n \in i..j : s[n] \in S  OBVIOUS
<1>2. /\ SubSeq(s, i, j) \in Seq(S)
      /\ Len(SubSeq(s, i, j)) = IF i <= j THEN j - i + 1 ELSE 0
      /\ \A n \in 1..j - i + 1 : SubSeq(s, i, j)[n] = s[i + n - 1]
  BY <1>1, SubSeqProperties
<1> QED  BY <1>2

-----------------------------------------------------------------------------
(* Sets of positions.                                                      *)

\* Some of the positions of a sequence are finitely many.
LEMMA PositionsAreFinite ==
  ASSUME NEW n \in Nat, NEW D, D \subseteq 1..n
  PROVE  IsFiniteSet(D) /\ Cardinality(D) \in Nat
<1>1. IsFiniteSet(1..n)  BY FS_Interval
<1> QED  BY <1>1, FS_Subset, FS_CardinalityType

\* Moved by as much, they are as many.
LEMMA MovedPositions ==
  ASSUME NEW n \in Nat, NEW D, D \subseteq 1..n, NEW o \in Nat
  PROVE  /\ IsFiniteSet({i + o : i \in D})
         /\ Cardinality({i + o : i \in D}) = Cardinality(D)
<1> DEFINE T == {i + o : i \in D}
           F == [i \in D |-> i + o]
<1>1. F \in [D -> T] /\ \A t \in T : \E i \in D : F[i] = t  OBVIOUS
<1>2. \A a, b \in D : F[a] = F[b] => a = b
  <2> SUFFICES ASSUME NEW a \in D, NEW b \in D, a + o = b + o PROVE a = b  OBVIOUS
  <2>1. a \in Nat /\ b \in Nat  OBVIOUS
  <2> QED  BY <2>1
<1> HIDE DEF F, T
<1>3. F \in Bijection(D, T)  BY <1>1, <1>2, Fun_IsBij
<1>4. ExistsBijection(D, T)  BY <1>3 DEF ExistsBijection
<1>5. IsFiniteSet(T) /\ Cardinality(T) = Cardinality(D)
  BY <1>4, PositionsAreFinite, FS_Bijection
<1> QED  BY <1>5 DEF T

\* The end of a window is a window.
LEMMA EndOfWindow ==
  ASSUME NEW S, NEW s \in Seq(S), NEW i \in 1..Len(s) + 1, NEW j \in 0..Len(s), i <= j + 1,
         NEW k \in 1..Len(SubSeq(s, i, j)) + 1
  PROVE  /\ SubSeq(SubSeq(s, i, j), k, Len(SubSeq(s, i, j))) = SubSeq(s, i + k - 1, j)
         /\ i + k - 1 \in i..(j + 1)
<1> DEFINE w == SubSeq(s, i, j)
           e == SubSeq(w, k, Len(w))
           d == SubSeq(s, i + k - 1, j)
<1>1. Len(s) \in Nat  OBVIOUS
<1>2. /\ w \in Seq(S) /\ Len(w) = j - i + 1 /\ \A n \in 1..Len(w) : w[n] = s[n + i - 1]
  <2>1. (IF i <= j THEN j - i + 1 ELSE 0) = j - i + 1  BY <1>1
  <2> QED  BY <2>1, WindowOf
<1>3. k \in 1..Len(w) + 1  OBVIOUS
<1> HIDE DEF w
<1>4. /\ k \in 1..Len(w) + 1 /\ Len(w) \in Nat /\ Len(w) \in 0..Len(w)
      /\ i + k - 1 \in i..(j + 1) /\ i + k - 1 \in 1..Len(s) + 1
  BY <1>1, <1>2, <1>3
<1>5. /\ e \in Seq(S) /\ Len(e) = Len(w) - k + 1
      /\ \A n \in 1..Len(e) : e[n] = w[n + k - 1]
  <2>1. (IF k <= Len(w) THEN Len(w) - k + 1 ELSE 0) = Len(w) - k + 1  BY <1>4
  <2> QED  BY <2>1, <1>2, <1>4, WindowOf
<1>6. /\ d \in Seq(S) /\ Len(d) = j - (i + k - 1) + 1
      /\ \A n \in 1..Len(d) : d[n] = s[n + (i + k - 1) - 1]
  <2>1. (IF i + k - 1 <= j THEN j - (i + k - 1) + 1 ELSE 0) = j - (i + k - 1) + 1  BY <1>1, <1>4
  <2> QED  BY <2>1, <1>4, WindowOf
<1> HIDE DEF d, e
<1>7. Len(d) = Len(e)  BY <1>1, <1>2, <1>4, <1>5, <1>6
<1>8. ASSUME NEW n \in 1..Len(d) PROVE d[n] = e[n]
  <2>1. /\ n \in 1..Len(e) /\ n + k - 1 \in 1..Len(w)
        /\ (n + k - 1) + i - 1 = n + (i + k - 1) - 1
    BY <1>1, <1>2, <1>4, <1>5, <1>7
  <2>2. e[n] = w[n + k - 1]  BY <2>1, <1>5
  <2>3. w[n + k - 1] = s[(n + k - 1) + i - 1]  BY <2>1, <1>2
  <2>4. d[n] = s[n + (i + k - 1) - 1]  BY <1>6
  <2> QED  BY <2>1, <2>2, <2>3, <2>4
<1>9. d = e  BY <1>5, <1>6, <1>7, <1>8, SeqEqual
<1> QED  BY <1>4, <1>9 DEF d, e, w

-----------------------------------------------------------------------------
(* Places in order.                                                        *)

\* How many of D come up to i
Rank(D, i) == Cardinality({j \in D : j <= i})

\* A rank counts the places up to it.
LEMMA RanksAre ==
  ASSUME NEW n \in Nat, NEW D, \A x \in D : x \in 1..n
  PROVE  /\ IsFiniteSet(D) /\ Cardinality(D) \in Nat
         /\ \A i : IsFiniteSet({j \in D : j <= i}) /\ Rank(D, i) \in Nat
         /\ \A i : Rank(D, i) <= Cardinality(D)
         /\ \A i \in D : Rank(D, i) \in 1..Cardinality(D)
<1>1. IsFiniteSet(D) /\ Cardinality(D) \in Nat
  <2>1. D \subseteq 1..n  OBVIOUS
  <2> QED  BY <2>1, PositionsAreFinite
<1>2. ASSUME NEW i
      PROVE  /\ IsFiniteSet({j \in D : j <= i}) /\ Rank(D, i) \in Nat
             /\ Rank(D, i) <= Cardinality(D)
  <2> DEFINE U == {j \in D : j <= i}
  <2>1. U \in SUBSET D  OBVIOUS
  <2> HIDE DEF U
  <2>2. IsFiniteSet(U) /\ Cardinality(U) <= Cardinality(D)  BY <1>1, <2>1, FS_Subset
  <2>3. Cardinality(U) \in Nat  BY <2>2, FS_CardinalityType
  <2> QED  BY <2>2, <2>3 DEF U, Rank
<1>3. ASSUME NEW i \in D PROVE Rank(D, i) \in 1..Cardinality(D)
  <2> DEFINE U == {j \in D : j <= i}
  <2>1. i \in U  OBVIOUS
  <2>2. IsFiniteSet(U) /\ Cardinality(U) = Rank(D, i)  BY <1>2 DEF Rank
  <2> HIDE DEF U
  <2>3. Rank(D, i) # 0  BY <2>1, <2>2, FS_EmptySet
  <2>4. Rank(D, i) \in Nat /\ Cardinality(D) \in Nat /\ Rank(D, i) <= Cardinality(D)
    BY <1>1, <1>2
  <2> QED  BY ONLY <2>3, <2>4
<1> QED  BY <1>1, <1>2, <1>3

\* Of two places the later one has the higher rank.
LEMMA RankGrows ==
  ASSUME NEW n \in Nat, NEW D, \A x \in D : x \in 1..n, NEW i \in D, NEW j \in Nat, j < i
  PROVE  Rank(D, j) < Rank(D, i)
<1> DEFINE U == {x \in D : x <= j}
           V == {x \in D : x <= i}
<1>1. U \in SUBSET V /\ i \in V /\ i \notin U  OBVIOUS
<1>2. IsFiniteSet(V) /\ Cardinality(U) \in Nat /\ Cardinality(V) \in Nat
  BY RanksAre DEF Rank
<1> HIDE DEF U, V
<1>3. Cardinality(U) <= Cardinality(V) /\ (Cardinality(V) = Cardinality(U) => V = U)
  BY <1>1, <1>2, FS_Subset
<1>4. Cardinality(U) < Cardinality(V)  BY <1>1, <1>2, <1>3
<1> QED  BY <1>4 DEF U, V, Rank

\* A place and those up to the one before it
LEMMA RankAfter ==
  ASSUME NEW n \in Nat, NEW D, \A x \in D : x \in 1..n, NEW i \in D, NEW j \in Nat, j < i,
         \A x \in D : x < i => x <= j
  PROVE  Rank(D, i) = Rank(D, j) + 1
<1> DEFINE U == {x \in D : x <= j}
           V == {x \in D : x <= i}
<1>1. V = U \cup {i} /\ i \notin U  OBVIOUS
<1>2. IsFiniteSet(U)  BY RanksAre
<1> HIDE DEF U, V
<1>3. Cardinality(V) = Cardinality(U) + 1  BY <1>1, <1>2, FS_AddElement
<1> QED  BY <1>3 DEF U, V, Rank

\* Every rank is some place's.
LEMMA PlaceOfRank ==
  ASSUME NEW n \in Nat, NEW D, \A x \in D : x \in 1..n, NEW k \in 1..Cardinality(D)
  PROVE  \E i \in D : Rank(D, i) = k
<1> DEFINE T == {i \in D : k <= Rank(D, i)}
<1>1. /\ Cardinality(D) \in Nat /\ \A i : Rank(D, i) \in Nat
  BY RanksAre
<1>2. T # {}
  <2>1. D # {}  BY <1>1, FS_EmptySet
  <2>2. D \subseteq 0..n  OBVIOUS
  <2>3. PICK m \in D : \A y \in D : y <= m  BY <2>1, <2>2, GreatestNatural
  <2>4. {j \in D : j <= m} = D  BY <2>3
  <2>5. Rank(D, m) = Cardinality(D)  BY <2>4 DEF Rank
  <2> QED  BY <2>5, <1>1
<1>3. T \subseteq Nat  OBVIOUS
<1> HIDE DEF T
<1>4. PICK i \in T : \A y \in T : i <= y  BY <1>2, <1>3, LeastNatural
<1>5. i \in D /\ k <= Rank(D, i) /\ i \in 1..n  BY DEF T
<1>6. CASE Rank(D, i) = k  BY <1>5, <1>6
<1>7. CASE Rank(D, i) # k
  <2> DEFINE U == {x \in D : x < i}
  <2>1. CASE U = {}
    <3>1. \A x \in D : x < i => x <= 0  BY <2>1
    <3>2. 0 \in Nat /\ 0 < i  BY <1>5
    <3>3. Rank(D, i) = Rank(D, 0) + 1  BY <3>1, <3>2, <1>5, RankAfter
    <3>4. {j \in D : j <= 0} = {}  OBVIOUS
    <3>5. Rank(D, 0) = 0  BY <3>4, FS_EmptySet DEF Rank
    <3> QED  BY <3>3, <3>5, <1>5, <1>7
  <2>2. CASE U # {}
    <3>1. U \subseteq 0..n  OBVIOUS
    <3>2. PICK j \in U : \A y \in U : y <= j  BY <2>2, <3>1, GreatestNatural
    <3>3. j \in D /\ j < i /\ j \in Nat /\ \A x \in D : x < i => x <= j  BY <3>2
    <3>4. Rank(D, i) = Rank(D, j) + 1  BY <3>3, <1>5, RankAfter
    <3>5. k <= Rank(D, j)  BY <3>4, <1>1, <1>5, <1>7
    <3>6. j \in T  BY <3>3, <3>5 DEF T
    <3> QED  BY <3>3, <3>6, <1>4, <1>5
  <2> QED  BY <2>1, <2>2
<1> QED  BY <1>6, <1>7

\* Places that follow each other have ranks that do.
LEMMA RankOfRun ==
  ASSUME NEW n \in Nat, NEW D, \A x \in D : x \in 1..n, NEW i \in D, NEW d \in Nat,
         (i + 1)..(i + d) \subseteq D
  PROVE  Rank(D, i + d) = Rank(D, i) + d
<1> DEFINE U == {x \in D : x <= i}
           W == (i + 1)..(i + d)
           V == {x \in D : x <= i + d}
<1>1. i \in Nat /\ i + 1 \in Int /\ i + d \in Int  OBVIOUS
<1>2. V = U \cup W /\ U \cap W = {}
  <2>1. \A x \in W : x \in D /\ x \in Nat /\ x > i /\ x <= i + d  BY <1>1
  <2>2. \A x \in D : x > i /\ x <= i + d => x \in W  BY <1>1
  <2>3. \A x \in D : x \in Nat  OBVIOUS
  <2>4. \A x \in D : x <= i => x <= i + d  BY <1>1, <2>3
  <2> HIDE DEF W
  <2>5. \A x \in V : x \in U \/ x \in W
    <3>1. \A x \in D : x <= i \/ x > i  BY <1>1, <2>3
    <3> QED  BY <2>2, <3>1 DEF U, V
  <2>6. \A x \in U : x \in V /\ x \notin W
    <3>1. \A x \in D : ~(x <= i /\ x > i)  BY <1>1, <2>3
    <3> QED  BY <2>1, <2>4, <3>1 DEF U, V
  <2>7. \A x \in W : x \in V  BY <2>1 DEF V
  <2> HIDE DEF U, V
  <2> QED  BY <2>5, <2>6, <2>7
<1>3. IsFiniteSet(U) /\ Cardinality(U) \in Nat  BY RanksAre DEF Rank
<1>4. IsFiniteSet(W) /\ Cardinality(W) = IF i + 1 > i + d THEN 0 ELSE i + d - (i + 1) + 1
  BY <1>1, FS_Interval
<1>5. Cardinality(W) = d  BY <1>1, <1>4
<1> HIDE DEF U, V, W
<1>6. Cardinality(V) = Cardinality(U) + Cardinality(W) - Cardinality(U \cap W)
  BY <1>2, <1>3, <1>4, FS_Union
<1>7. Cardinality(U \cap W) = 0  BY <1>2, FS_EmptySet
<1>8. Cardinality(V) = Cardinality(U) + d  BY <1>3, <1>5, <1>6, <1>7
<1> QED  BY <1>8 DEF U, V, Rank
=============================================================================
